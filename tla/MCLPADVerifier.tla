--------------------------- MODULE MCLPADVerifier ---------------------------
(* The verifier alone, for the get that does not return. *)
EXTENDS LPADVerifier

PutsAndGets == {"put", "get"}
=============================================================================
