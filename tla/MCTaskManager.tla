---------------------------- MODULE MCTaskManager ----------------------------
(* Small instances of TaskManager for TLC: the bounds are in the cfg files. *)
EXTENDS TaskManager
==============================================================================
