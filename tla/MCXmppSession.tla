---------------------------- MODULE MCXmppSession ----------------------------
(* Small instances of XmppSession for TLC: the bounds are in the cfg files. *)
EXTENDS XmppSession
==============================================================================
