--------------------------- MODULE MCManagerState ---------------------------
(* ManagerState for TLC. *)
EXTENDS ManagerState

Terminal == {"kv", "exhausted"}
=============================================================================
