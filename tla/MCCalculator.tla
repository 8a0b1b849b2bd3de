---------------------------- MODULE MCCalculator ----------------------------
(* Calculator for TLC. *)
EXTENDS Calculator

CONSTANTS w1, w2, t1, t2
TwoWorkers == {w1, w2}
TwoTimers == {t1, t2}
OneTimer == {t1}
NoFaults == {}
AllFaults == {"error", "part_shrink", "bad_scan"}
=============================================================================
