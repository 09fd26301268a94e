---------------------------- MODULE MCDocDownload ----------------------------
(***************************************************************************)
(* A small instance of DocDownload for TLC: the last request, which finds  *)
(* what the others have left, is for one document; those before it have up *)
(* to MaxDocs.                                                             *)
(***************************************************************************)
EXTENDS DocDownload

LastIsShort ==
  left["request"] > 0 /\ left'["request"] = 0 => Len(queue'[Len(queue')]) = 1

MCFairSpec == Init /\ [][Next /\ LastIsShort]_vars /\ WF_vars(WorkerStep)
==============================================================================
