---------------------------- MODULE MCLPADBench -----------------------------
(* Instances of LPADBench for TLC: batches of one entry, no failures. *)
EXTENDS LPADBench, TLC

Unit == [t \in Writers |-> {[batch |-> TRUE, count |-> 1, size |-> 1, sync |-> FALSE]}]
Puts == {"put"}
Symmetry == Permutations(Writers)
=============================================================================
