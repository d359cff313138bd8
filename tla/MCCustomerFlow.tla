--------------------------- MODULE MCCustomerFlow ---------------------------
(* Instances of CustomerFlow for TLC. *)
EXTENDS CustomerFlow

=============================================================================
