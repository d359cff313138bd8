--------------------------- MODULE MCOrchestrator ---------------------------
(* Instances of Orchestrator for TLC. *)
EXTENDS Orchestrator, TLC

MCMaxAttempts == [stage \in Stages |-> IF stage = "deliver" THEN 2 ELSE 1]
MCLeaseMs == [stage \in Stages |-> 1]
MCBackoffMs == [stage \in Stages |-> <<1>>]

MCAttempts ==
  [stage \in Stages |-> IF stage \in {"generate_tts", "publish", "deliver"} THEN 2 ELSE 1]

Seen(kinds) == UNION {{artifacts[kind][1][n] : n \in DOMAIN artifacts[kind][1]} : kind \in kinds}

\* Two scopes in one run.  A narrated job up to the hand-off: a rework with another
\* output, no fault, one target, a retry of the publication or a delivery.  A job
\* without narration up to its end: a fault and a changing target.
Scope ==
  IF narrationRequired
    THEN /\ faults = 0
         /\ Len(attempts["deliver"][1]) <= 1
         /\ attempts["deliver"][1] /= <<>> => Len(attempts["publish"][1]) = 1
         /\ \A n \in DOMAIN attempts["deliver"][1] :
              attempts["deliver"][1][n].binding = recipient
         /\ Cardinality(Seen({"private_review", "prepared_bundle"})) <= 1
         /\ \A m \in Messages : mail[m] = "pending"
         /\ \A p \in Pollers : poller[p] = Resting
    ELSE /\ Len(attempts["publish"][1]) <= 1
         /\ Cardinality(Seen(Kinds)) <= 1

Symmetry == Permutations(Workers) \cup Permutations(Targets)
              \cup Permutations(Digests)
=============================================================================
