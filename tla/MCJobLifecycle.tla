--------------------------- MODULE MCJobLifecycle ---------------------------
(* Instances of JobLifecycle for TLC. *)
EXTENDS JobLifecycle, TLC

MCMaxAttempts ==
  [stage \in Stages |-> IF stage \in {"generate_tts", "deliver"} THEN 3
                        ELSE IF stage = "publish" THEN 2 ELSE 1]
MCLeaseMs == [stage \in Stages |-> 1]
MCBackoffMs == [stage \in Stages |-> <<1, 1>>]

Symmetry == Permutations(Digests) \cup Permutations(Targets) \cup Permutations(Messages)
=============================================================================
