----------------------------- MODULE MCIqService -----------------------------
(***************************************************************************)
(* A small instance of IqService for TLC.  Ids are numbers, and IQs come   *)
(* in their order: ids are interchangeable, but liveness cannot be checked *)
(* with a SYMMETRY.  Only what becomes a task can name nothing: of the     *)
(* other kinds nobody reads what they name.                                *)
(***************************************************************************)
EXTENDS IqService

InOrder ==
  \A i \in DOMAIN handled' : /\ handled'[i].id = i
                             /\ handled'[i].empty => handled'[i].kind \in TaskKinds

MCFairSpec ==
  Init /\ [][Next /\ InOrder]_vars /\ WF_vars(WorkerStep) /\ WF_vars(OnMessage)
==============================================================================
