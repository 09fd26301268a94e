------------------------------ MODULE MCHttpGet ------------------------------
(***************************************************************************)
(* Small instances of HttpGet for TLC: the sizes are in the cfg file.      *)
(* Line ends are among the first MaxHeader bytes, which is more than       *)
(* buffer holds: no others are ever looked for.  A page about an error     *)
(* differs from a document for the caller only, and has a length and an    *)
(* end, so that it may be taken for one.                                   *)
(***************************************************************************)
EXTENDS HttpTransfer

MCInit ==
  /\ ends \in SUBSET (3 .. MaxHeader)
  /\ Init
  /\ page => hasLength /\ ~silent

MCFairSpec == MCInit /\ [][Next]_vars /\ WF_vars(Step)
==============================================================================
