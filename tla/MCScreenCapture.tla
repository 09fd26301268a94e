--------------------------- MODULE MCScreenCapture ---------------------------
(* Small instances of ScreenCapture for TLC: the bounds are in the cfg files. *)
EXTENDS ScreenCapture
==============================================================================
