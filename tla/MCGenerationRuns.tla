-------------------------- MODULE MCGenerationRuns --------------------------
(* Instances of GenerationRuns for TLC: what the providers may send. *)
EXTENDS GenerationRuns

MCEmailOf == [i \in Intakes |-> IF i = "other" THEN "guest@" ELSE "parent@"]

Submitted(n, s, p, i) == [id |-> n, submission |-> s, payment |-> p, intake |-> i]
Paid(n, p, r, e) == [id |-> n, payment |-> p, right |-> r, email |-> e]

\* An order submitted twice, whose payment is verified, contradicted and
\* verified again, and claimed by a submission that may have its own order.
ContestedTally ==
    {Submitted(1, "s1", "p1", "first"), Submitted(2, "s1", "p1", "other"),
     Submitted(3, "s2", "p1", "other"), Submitted(4, "s2", "p2", "other")}
ContestedStripe ==
    {Paid(1, "p1", TRUE, None), Paid(2, "p1", FALSE, None), Paid(3, "p1", TRUE, "parent@")}

\* One order, paid once.
PlainTally == {Submitted(1, "s1", "p1", "first")}
PlainStripe == {Paid(1, "p1", TRUE, None)}

=============================================================================
