---------------------------- MODULE CommitChain -----------------------------
(***************************************************************************)
(* What the publishers of all leaders together promise about the commit    *)
(* key: every commit that replaces another has a higher version and is     *)
(* never by an earlier leader.  Workers rely on both: they drop a delivery *)
(* whose version they have, and one whose leader revision is behind.       *)
(***************************************************************************)
EXTENDS Naturals

VARIABLE com   \* the live commit: KV revision (0 = absent), version, leader revision

Init == com.rev = 0 /\ com.ver = 0 /\ com.lr = 0

\* A commit is written (assignment_publisher.go, step 9 of Publish).
Commit ==
    /\ com'.rev = com.rev + 1
    /\ com'.ver > com.ver
    /\ com'.lr >= com.lr

Spec == Init /\ [][Commit]_com
=============================================================================
