---------------------------- MODULE MCApprovalCli ----------------------------
(* One girl's intake, a catalog that knows her name, and one that does not.  *)
EXTENDS ApprovalCli, TLC

TemplatesAlike == Permutations(Templates)

MCSubmitted == [latin |-> "amal", arabic |-> "amal_ar", girl |-> TRUE]

\* Both texts are there; the verses of both, and perhaps the meaning, have a source.
Text(id, sourced) ==
  [id |-> id, meaning |-> TRUE, meaningSourced |-> sourced,
   verses |-> TRUE, versesSourced |-> TRUE]

Known == [entries |-> [k \in {"k1"} |->
            [latin |-> "amal", arabic |-> "amal_ar", latinAliases |-> {}, arabicAliases |-> {},
             suggestions |-> {Text("hope", TRUE), Text("verse", FALSE)}]],
          fallback |-> {}]
Unlisted == [entries |-> [k \in {"k2"} |->
               [latin |-> "nour", arabic |-> None, latinAliases |-> {}, arabicAliases |-> {},
                suggestions |-> {}]],
             fallback |-> {Text("plain", TRUE)}]
MCCatalogs == {Known, Unlisted}

MCSelections == {None, "verse"}
MCHandWritten == [suggestion |-> "hope", key |-> None, reasons |-> {},
                  meaning |-> TRUE, scripture |-> TRUE]
=============================================================================
