----------------------------- MODULE MCBroadcast -----------------------------
(* Small instances of Broadcast for TLC: the bounds are in the cfg files. *)
EXTENDS Broadcast
==============================================================================
