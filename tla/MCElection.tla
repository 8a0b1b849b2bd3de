----------------------------- MODULE MCElection -----------------------------
(* Election for TLC: two processes. *)
EXTENDS Election

CONSTANTS p1, p2
TwoProcs == {p1, p2}
Second == {p2}
\* Every process has a worker ID of its own.
OwnIDs == [p \in Proc |-> p]
=============================================================================
