-------------------------- MODULE MCStageWorkspace --------------------------
(* Instances of StageWorkspace for TLC. *)
EXTENDS StageWorkspace

=============================================================================
