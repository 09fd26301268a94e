----------------------------- MODULE TaskManager -----------------------------
(***************************************************************************)
(* CTaskManager (CellView/TaskManager.h, .cpp): a list of tasks under a    *)
(* critical section, an auto-reset event, any number of threads in AddTask *)
(* and one worker thread in _run.                                          *)
(*                                                                         *)
(* One step is the code between two points at which another thread can     *)
(* tell the difference: taking the critical section, leaving it, signalling*)
(* or consuming the event.  The thread that erases from an empty list has  *)
(* undefined behaviour; the model ends there, in wpc = "undefined", and    *)
(* says nothing of what follows.                                           *)
(***************************************************************************)
EXTENDS Naturals, Sequences

CONSTANTS Producers,    \* the threads that call AddTask
          Tasks,        \* the clones AddTask may allocate: bounds the calls
          Worker,       \* the thread Run starts
          None,         \* no thread, no task
          CanStop       \* whether Stop is ever called (no caller in src/)

ASSUME ThreadsAssumption == /\ Worker \notin Producers
                            /\ None \notin Producers \cup {Worker}
ASSUME TasksAssumption == None \notin Tasks
ASSUME StopAssumption == CanStop \in BOOLEAN

VARIABLES
  m_Tasks,              \* the list
  m_Event,              \* is the auto-reset event set?
  owner,                \* the thread inside m_Mutex, or None
  m_Active,             \* the worker's loop condition
  wpc,                  \* where the worker is
  task,                 \* the worker's local task
  spc,                  \* where the thread that calls Stop is
  ppc,                  \* where each producer is in AddTask
  ptask,                \* each producer's local t
  fresh,                \* clones not yet allocated
  added,                \* history: tasks in the order of their push_back
  ended,                \* history: tasks in the order of their WorkEnd
  late                  \* history: tasks taken after Stop cleared m_Active

workerVars   == <<wpc, task>>
producerVars == <<ppc, ptask, fresh>>
historyVars  == <<added, ended, late>>
vars == <<m_Tasks, m_Event, owner, m_Active, workerVars, spc, producerVars,
          historyVars>>

WorkerPC == {"none", "failed", "loop", "lock", "locked", "wait", "relock",
             "pop", "work", "exited", "undefined"}

TypeOK ==
  /\ m_Tasks \in Seq(Tasks)
  /\ m_Event \in BOOLEAN
  /\ owner \in Producers \cup {Worker, None}
  /\ m_Active \in BOOLEAN
  /\ wpc \in WorkerPC
  /\ task \in Tasks \cup {None}
  /\ spc \in {"idle", "waiting", "returned"}
  /\ ppc \in [Producers -> {"idle", "lock", "push", "signal"}]
  /\ ptask \in [Producers -> Tasks \cup {None}]
  /\ fresh \subseteq Tasks
  /\ added \in Seq(Tasks)
  /\ ended \in Seq(Tasks)
  /\ late \in Nat

Init ==
  /\ m_Tasks = <<>>
  /\ m_Event = FALSE
  /\ owner = None
  /\ m_Active = FALSE
  /\ wpc = "none"
  /\ task = None
  /\ spc = "idle"
  /\ ppc = [p \in Producers |-> "idle"]
  /\ ptask = [p \in Producers |-> None]
  /\ fresh = Tasks
  /\ added = <<>>
  /\ ended = <<>>
  /\ late = 0

Alive == wpc # "undefined"

------------------------------------------------------------------------------
(* Run and Stop.                                                           *)

\* _beginthread gives the worker its thread, or fails and Run takes m_Active
\* back.  CXmppInstance::runConnect calls Run once, right after construction.
Run ==
  /\ wpc = "none"
  /\ \/ wpc' = "loop"   /\ m_Active' = TRUE
     \/ wpc' = "failed" /\ m_Active' = FALSE
  /\ UNCHANGED <<m_Tasks, m_Event, owner, task, spc, producerVars, historyVars>>

\* Stop clears the loop condition and, by default, waits for the thread.
Stop ==
  /\ CanStop
  /\ Alive
  /\ wpc # "none"
  /\ spc = "idle"
  /\ m_Active' = FALSE
  /\ \E waitThreadEnd \in BOOLEAN :
       spc' = IF waitThreadEnd THEN "waiting" ELSE "returned"
  /\ UNCHANGED <<m_Tasks, m_Event, owner, workerVars, producerVars, historyVars>>

\* The wait is a timed one (3000 ms): it may return whether or not the worker
\* has ended.
StopReturn ==
  /\ Alive
  /\ spc = "waiting"
  /\ spc' = "returned"
  /\ UNCHANGED <<m_Tasks, m_Event, owner, m_Active, workerVars, producerVars,
                 historyVars>>

------------------------------------------------------------------------------
(* AddTask, in a producer's thread.                                        *)

AddTaskClone(p, t) ==
  /\ Alive
  /\ wpc # "none"
  /\ ppc[p] = "idle"
  /\ t \in fresh
  /\ fresh' = fresh \ {t}
  /\ ptask' = [ptask EXCEPT ![p] = t]
  /\ ppc' = [ppc EXCEPT ![p] = "lock"]
  /\ UNCHANGED <<m_Tasks, m_Event, owner, m_Active, workerVars, spc, historyVars>>

AddTaskLock(p) ==
  /\ Alive
  /\ ppc[p] = "lock"
  /\ owner = None
  /\ owner' = p
  /\ ppc' = [ppc EXCEPT ![p] = "push"]
  /\ UNCHANGED <<m_Tasks, m_Event, m_Active, workerVars, spc, ptask, fresh,
                 historyVars>>

\* Mutant of AddTaskPush: no Signal after the push.
AddTaskPushNoSignal(p) ==
  /\ Alive
  /\ ppc[p] = "push"
  /\ m_Tasks' = Append(m_Tasks, ptask[p])
  /\ added' = Append(added, ptask[p])
  /\ owner' = None
  /\ ppc' = [ppc EXCEPT ![p] = "idle"]
  /\ UNCHANGED <<m_Event, m_Active, workerVars, spc, ptask, fresh, ended, late>>

\* push_back and Unlock.  The Signal comes after the Unlock.
AddTaskPush(p) ==
  /\ Alive
  /\ ppc[p] = "push"
  /\ m_Tasks' = Append(m_Tasks, ptask[p])
  /\ added' = Append(added, ptask[p])
  /\ owner' = None
  /\ ppc' = [ppc EXCEPT ![p] = "signal"]
  /\ UNCHANGED <<m_Event, m_Active, workerVars, spc, ptask, fresh, ended, late>>

AddTaskSignal(p) ==
  /\ Alive
  /\ ppc[p] = "signal"
  /\ m_Event' = TRUE
  /\ ppc' = [ppc EXCEPT ![p] = "idle"]
  /\ ptask' = [ptask EXCEPT ![p] = None]
  /\ UNCHANGED <<m_Tasks, owner, m_Active, workerVars, spc, fresh, historyVars>>

------------------------------------------------------------------------------
(* _run, in the worker's thread.                                           *)

\* Mutant of LoopTest: while (true).
LoopTestAlways ==
  /\ wpc = "loop"
  /\ wpc' = "lock"
  /\ UNCHANGED <<m_Tasks, m_Event, owner, m_Active, task, spc, producerVars,
                 historyVars>>

LoopTest ==
  /\ wpc = "loop"
  /\ wpc' = IF m_Active THEN "lock" ELSE "exited"
  /\ UNCHANGED <<m_Tasks, m_Event, owner, m_Active, task, spc, producerVars,
                 historyVars>>

WorkerLock ==
  /\ wpc = "lock"
  /\ owner = None
  /\ owner' = Worker
  /\ wpc' = "locked"
  /\ UNCHANGED <<m_Tasks, m_Event, m_Active, task, spc, producerVars, historyVars>>

\* m_Tasks.size() <= 0: XEvent::Wait leaves the critical section and blocks.
WaitBegin ==
  /\ wpc = "locked"
  /\ m_Tasks = <<>>
  /\ owner' = None
  /\ wpc' = "wait"
  /\ UNCHANGED <<m_Tasks, m_Event, m_Active, task, spc, producerVars, historyVars>>

\* The list has a task: the event is reset, whoever set it.
ResetEvent ==
  /\ wpc = "locked"
  /\ m_Tasks # <<>>
  /\ m_Event' = FALSE
  /\ wpc' = "pop"
  /\ UNCHANGED <<m_Tasks, owner, m_Active, task, spc, producerVars, historyVars>>

\* WaitForSingleObject returns and takes the auto-reset event back.
WaitWake ==
  /\ wpc = "wait"
  /\ m_Event
  /\ m_Event' = FALSE
  /\ wpc' = "relock"
  /\ UNCHANGED <<m_Tasks, owner, m_Active, task, spc, producerVars, historyVars>>

\* Mutant of WaitRelock: Wait returns without taking the critical section.
WaitRelockUnlocked ==
  /\ wpc = "relock"
  /\ wpc' = "pop"
  /\ UNCHANGED <<m_Tasks, m_Event, owner, m_Active, task, spc, producerVars,
                 historyVars>>

\* Wait takes the critical section again; _run does not test the list again.
WaitRelock ==
  /\ wpc = "relock"
  /\ owner = None
  /\ owner' = Worker
  /\ wpc' = "pop"
  /\ UNCHANGED <<m_Tasks, m_Event, m_Active, task, spc, producerVars, historyVars>>

\* Mutant of Take: the newest task first.
TakeLast ==
  /\ wpc = "pop"
  /\ m_Tasks # <<>>
  /\ task' = m_Tasks[Len(m_Tasks)]
  /\ m_Tasks' = SubSeq(m_Tasks, 1, Len(m_Tasks) - 1)
  /\ owner' = None
  /\ wpc' = "work"
  /\ late' = IF m_Active THEN late ELSE late + 1
  /\ UNCHANGED <<m_Event, m_Active, spc, producerVars, added, ended>>

\* it = begin(), task = *it, erase(it), Unlock.
Take ==
  /\ wpc = "pop"
  /\ m_Tasks # <<>>
  /\ task' = Head(m_Tasks)
  /\ m_Tasks' = Tail(m_Tasks)
  /\ owner' = None
  /\ wpc' = "work"
  /\ late' = IF m_Active THEN late ELSE late + 1
  /\ UNCHANGED <<m_Event, m_Active, spc, producerVars, added, ended>>

\* The same three lines when begin() = end(): undefined behaviour.
TakeFromEmpty ==
  /\ wpc = "pop"
  /\ m_Tasks = <<>>
  /\ wpc' = "undefined"
  /\ UNCHANGED <<m_Tasks, m_Event, owner, m_Active, task, spc, producerVars,
                 historyVars>>

\* Mutant of WorkTask: _run returns after a task.
WorkTaskReturns ==
  /\ wpc = "work"
  /\ ended' = Append(ended, task)
  /\ task' = None
  /\ wpc' = "exited"
  /\ UNCHANGED <<m_Tasks, m_Event, owner, m_Active, spc, producerVars, added, late>>

\* task->Work() and task->WorkEnd(rst), outside the critical section.
WorkTask ==
  /\ wpc = "work"
  /\ ended' = Append(ended, task)
  /\ task' = None
  /\ wpc' = "loop"
  /\ UNCHANGED <<m_Tasks, m_Event, owner, m_Active, spc, producerVars, added, late>>

------------------------------------------------------------------------------
WorkerStep == \/ LoopTest \/ WorkerLock \/ WaitBegin \/ ResetEvent \/ WaitWake
              \/ WaitRelock \/ Take \/ TakeFromEmpty \/ WorkTask

\* What a producer does once it is inside AddTask.
AddTaskStep(p) == AddTaskLock(p) \/ AddTaskPush(p) \/ AddTaskSignal(p)

Next ==
  \/ Run
  \/ Stop
  \/ StopReturn
  \/ \E p \in Producers, t \in Tasks : AddTaskClone(p, t)
  \/ \E p \in Producers : AddTaskStep(p)
  \/ WorkerStep

Spec == Init /\ [][Next]_vars

\* Threads that can run do run, and a task's Work and WorkEnd return.
Fairness == /\ WF_vars(WorkerStep)
            /\ \A p \in Producers : WF_vars(AddTaskStep(p))

FairSpec == Spec /\ Fairness
------------------------------------------------------------------------------
(* Properties.                                                             *)

\* The threads that are between Lock and Unlock.
Inside == {p \in Producers : ppc[p] = "push"}
            \cup (IF wpc \in {"locked", "pop"} THEN {Worker} ELSE {})

\* The list is only ever touched by one thread at a time, although Wait gives
\* the critical section up and takes it again in the middle of _run.
ListExclusive == \A x, y \in Inside : x = y

\* A worker asleep in Wait with a task in the list has been signalled or will
\* be by a producer on its way: a Reset or an auto-reset never loses a task.
NoLostWakeup ==
  (wpc = "wait" /\ m_Tasks # <<>>)
    => (m_Event \/ \E p \in Producers : ppc[p] = "signal")

\* The task in the worker's hands, between erase and WorkEnd.
InHand == IF wpc = "work" THEN <<task>> ELSE <<>>

\* Nothing is lost, worked twice or reordered between AddTask's push_back and
\* the worker's WorkEnd, whatever the threads do in between.
FifoOrder == added = ended \o InHand \o m_Tasks

\* Once Stop has cleared m_Active, the worker takes one more task at the most.
StopTakesAtMostOne == late <= 1

\* A task that has been added is worked, unless the worker never started, was
\* stopped or has run into the empty list.
AddedIsWorked ==
  \A t \in Tasks :
    (\E i \in DOMAIN added : added[i] = t)
      ~> \/ \E i \in DOMAIN ended : ended[i] = t
         \/ wpc \in {"failed", "undefined"}
         \/ spc # "idle"

\* The worker takes a task from the list no more often than one is added: what
\* "start one down task" (CellView/ViewMotion.cpp:32) says of each AddTask.
\* The code breaks it: a Signal that comes after the worker has already taken
\* the task wakes the next Wait with the list empty.
OneTakePerAdd ==
  Len(ended) + (IF wpc \in {"work", "undefined"} THEN 1 ELSE 0) <= Len(added)

\* The manager implements the queue it stands for, as long as it is defined.
Queue == INSTANCE TaskQueue
           WITH pending <- InHand \o m_Tasks, broken <- (wpc = "undefined")
QueueSpec == Queue!Spec
==============================================================================
