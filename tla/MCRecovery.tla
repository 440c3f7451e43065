----------------------------- MODULE MCRecovery -----------------------------
(* An instance of Recovery. *)
EXTENDS Recovery

=============================================================================
