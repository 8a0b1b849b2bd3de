---------------------------- MODULE MCStableID ------------------------------
(* Model-checking instance of StableID. *)
EXTENDS StableID

CONSTANTS c1, c2

TwoClaimers == {c1, c2}
=============================================================================
