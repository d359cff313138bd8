--------------------------- MODULE ReleaseContract ---------------------------
(***************************************************************************)
(* What the fulfillment of one job promises the world outside, with no     *)
(* workers, leases, retries or keys: one thing at most is ever published,  *)
(* it is what the reviewers' standing approval names, the approval is not  *)
(* taken back once it is public, one message at most announces it, and the *)
(* job is done only after that.  Orchestrator implements this.             *)
(***************************************************************************)
CONSTANTS Contents, Addressees, Receipts, None

VARIABLES
  approval,   \* the content the standing approvals release, or None
  public,     \* the publications the provider made, each with its receipt
  announced,  \* the messages the provider accepted, each with its addressee
  done

vars == <<approval, public, announced, done>>

Init ==
  /\ approval = None
  /\ public = {}
  /\ announced = {}
  /\ done = FALSE

Judge ==
  /\ public = {}
  /\ approval' \in Contents \cup {None}
  /\ UNCHANGED <<public, announced, done>>

Publish ==
  /\ approval /= None
  /\ public = {}
  /\ \E receipt \in Receipts : public' = {[content |-> approval, receipt |-> receipt]}
  /\ UNCHANGED <<approval, announced, done>>

Announce ==
  /\ \E publication \in public : publication.content = approval
  /\ announced = {}
  /\ \E who \in Addressees, receipt \in Receipts :
       announced' = {[content |-> approval, receipt |-> receipt, who |-> who]}
  /\ UNCHANGED <<approval, public, done>>

Finish ==
  /\ announced /= {}
  /\ done' = TRUE
  /\ UNCHANGED <<approval, public, announced>>

Next == Judge \/ Publish \/ Announce \/ Finish

Spec == Init /\ [][Next]_vars

=============================================================================
