---------------------------- MODULE MCPublisher -----------------------------
(* Publisher for TLC. *)
EXTENDS Publisher, TLC

Symmetry == Permutations(Content)
=============================================================================
