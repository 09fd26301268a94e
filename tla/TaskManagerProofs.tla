-------------------------- MODULE TaskManagerProofs --------------------------
(***************************************************************************)
(* What holds of CTaskManager for any number of threads and tasks.         *)
(*                                                                         *)
(* The argument: the critical section is owned by the thread whose program *)
(* counter says so (MutexInv), which makes every change of the list one of *)
(* push_back and erase(begin()).  With that, a task that is pushed while   *)
(* the worker sleeps leaves its producer at Signal (NoLostWakeup), the     *)
(* list never departs from the order of the pushes (FifoOrder), and once   *)
(* m_Active is FALSE it stays FALSE (LateInv).                             *)
(***************************************************************************)
EXTENDS TaskManager, SequenceTheorems, TLAPS

\* The critical section is held exactly by the thread that is inside it.
MutexInv ==
  /\ owner = Worker <=> wpc \in {"locked", "pop", "undefined"}
  /\ \A p \in Producers : owner = p <=> ppc[p] = "push"

\* A thread that is about to push, or to work, a task has one.
InHandInv ==
  /\ wpc = "work" => task \in Tasks
  /\ \A p \in Producers : ppc[p] \in {"lock", "push"} => ptask[p] \in Tasks

\* No task is late while the worker is active; the one that may be is the
\* worker's last.
LateInv ==
  /\ m_Active => late = 0
  /\ late <= 1
  /\ late = 1 => wpc \in {"work", "loop", "exited"}

IInv == /\ TypeOK
        /\ MutexInv
        /\ InHandInv
        /\ NoLostWakeup
        /\ FifoOrder
        /\ LateInv

------------------------------------------------------------------------------
(* Sequences.                                                              *)

\* Appending to the last part of a concatenation appends to the whole.
LEMMA AppendToLast ==
  ASSUME NEW S, NEW s \in Seq(S), NEW t \in Seq(S), NEW u \in Seq(S), NEW e \in S
  PROVE  s \o t \o Append(u, e) = Append(s \o t \o u, e)
<1>1. s \o t \in Seq(S) /\ s \o t \o u \in Seq(S) /\ <<e>> \in Seq(S)
  BY ConcatProperties
<1>2. Append(u, e) = u \o <<e>> /\ Append(s \o t \o u, e) = (s \o t \o u) \o <<e>>
  BY <1>1, AppendIsConcat
<1>3. (s \o t) \o (u \o <<e>>) = ((s \o t) \o u) \o <<e>>
  <2> DEFINE v == s \o t
             w == <<e>>
  <2>1. v \in Seq(S) /\ w \in Seq(S)
    BY <1>1
  <2> HIDE DEF v, w
  <2>2. v \o (u \o w) = (v \o u) \o w
    BY ONLY u \in Seq(S), <2>1, ConcatAssociative, SMTT(30)
  <2> QED BY <2>2 DEF v, w
<1> QED BY <1>2, <1>3

\* A nonempty sequence is its head followed by its tail.
LEMMA HeadThenTail ==
  ASSUME NEW S, NEW s \in Seq(S), s # <<>>
  PROVE  /\ Head(s) \in S
         /\ Tail(s) \in Seq(S)
         /\ <<Head(s)>> \o Tail(s) = s
<1>1. Head(s) \in S /\ Tail(s) \in Seq(S)
  BY HeadTailProperties
<1>2. <<Head(s)>> \o Tail(s) \in Seq(S)
  BY <1>1, ConcatProperties
<1>3. Len(<<Head(s)>> \o Tail(s)) = Len(s)
  BY <1>1, ConcatProperties, HeadTailProperties, EmptySeq
<1>4. ASSUME NEW i \in 1 .. Len(s)
      PROVE  (<<Head(s)>> \o Tail(s))[i] = s[i]
  BY <1>1, <1>3, ConcatProperties, HeadTailProperties, EmptySeq
<1> QED BY <1>1, <1>2, <1>3, <1>4, SeqEqual
------------------------------------------------------------------------------
(* Type correctness.                                                       *)

LEMMA InitType == Init => TypeOK /\ InHandInv
<1>1. <<>> \in Seq(Tasks)
  BY EmptySeq
<1>2. Init => TypeOK
  <2> SUFFICES ASSUME Init PROVE TypeOK
    OBVIOUS
  <2>1. /\ m_Tasks \in Seq(Tasks)
        /\ added \in Seq(Tasks)
        /\ ended \in Seq(Tasks)
    BY <1>1 DEF Init
  <2>2. /\ ppc \in [Producers -> {"idle", "lock", "push", "signal"}]
        /\ ptask \in [Producers -> Tasks \cup {None}]
    BY DEF Init
  <2> QED BY <2>1, <2>2 DEF Init, TypeOK, WorkerPC
<1>3. Init => InHandInv
  BY DEF Init, InHandInv
<1> QED BY <1>2, <1>3

LEMMA StepType ==
  ASSUME TypeOK, InHandInv, [Next]_vars
  PROVE  TypeOK' /\ InHandInv'
<1> USE DEF TypeOK, InHandInv, WorkerPC, workerVars, producerVars, historyVars
<1>1. CASE Run
  BY <1>1 DEF Run
<1>2. CASE Stop
  BY <1>2 DEF Stop
<1>3. CASE StopReturn
  BY <1>3 DEF StopReturn
<1>4. ASSUME NEW p \in Producers, NEW t \in Tasks, AddTaskClone(p, t)
       PROVE  TypeOK' /\ InHandInv'
  BY <1>4 DEF AddTaskClone
<1>5. ASSUME NEW p \in Producers, AddTaskLock(p)
       PROVE  TypeOK' /\ InHandInv'
  BY <1>5 DEF AddTaskLock
<1>6. ASSUME NEW p \in Producers, AddTaskPush(p)
       PROVE  TypeOK' /\ InHandInv'
  BY AppendProperties, <1>6 DEF AddTaskPush
<1>7. ASSUME NEW p \in Producers, AddTaskSignal(p)
       PROVE  TypeOK' /\ InHandInv'
  BY <1>7 DEF AddTaskSignal
<1>8. CASE LoopTest
  BY <1>8 DEF LoopTest
<1>9. CASE WorkerLock
  BY <1>9 DEF WorkerLock
<1>10. CASE WaitBegin
  BY <1>10 DEF WaitBegin
<1>11. CASE ResetEvent
  BY <1>11 DEF ResetEvent
<1>12. CASE WaitWake
  BY <1>12 DEF WaitWake
<1>13. CASE WaitRelock
  BY <1>13 DEF WaitRelock
<1>14. CASE Take
  BY HeadTailProperties, <1>14 DEF Take
<1>15. CASE TakeFromEmpty
  BY <1>15 DEF TakeFromEmpty
<1>16. CASE WorkTask
  BY AppendProperties, <1>16 DEF WorkTask
<1>17. CASE UNCHANGED vars
  BY <1>17 DEF vars
<1> QED
  BY <1>1, <1>2, <1>3, <1>4, <1>5, <1>6, <1>7, <1>8, <1>9, <1>10, <1>11, <1>12, <1>13, <1>14, <1>15, <1>16, <1>17
     DEF Next, AddTaskStep, WorkerStep

\* Every variable keeps its type, whatever the threads do: in particular what
\* the worker holds while it works is a task, never the end of the list.
THEOREM TypeCorrect == Spec => []TypeOK
<1>1. Init => TypeOK /\ InHandInv
  BY InitType
<1>2. (TypeOK /\ InHandInv) /\ [Next]_vars => (TypeOK /\ InHandInv)'
  BY StepType
<1> QED
  BY <1>1, <1>2, PTL DEF Spec

------------------------------------------------------------------------------
(* The critical section.                                                   *)

LEMMA StepMutex ==
  ASSUME TypeOK, MutexInv, [Next]_vars
  PROVE  MutexInv'
<1> USE ThreadsAssumption
    DEF TypeOK, MutexInv, Alive, WorkerPC, workerVars, producerVars, historyVars
<1>1. CASE Run
  BY <1>1 DEF Run
<1>2. CASE Stop
  BY <1>2 DEF Stop
<1>3. CASE StopReturn
  BY <1>3 DEF StopReturn
<1>4. ASSUME NEW p \in Producers, NEW t \in Tasks, AddTaskClone(p, t)
       PROVE  MutexInv'
  BY <1>4 DEF AddTaskClone
<1>5. ASSUME NEW p \in Producers, AddTaskLock(p)
       PROVE  MutexInv'
  BY <1>5 DEF AddTaskLock
<1>6. ASSUME NEW p \in Producers, AddTaskPush(p)
       PROVE  MutexInv'
  BY <1>6 DEF AddTaskPush
<1>7. ASSUME NEW p \in Producers, AddTaskSignal(p)
       PROVE  MutexInv'
  BY <1>7 DEF AddTaskSignal
<1>8. CASE LoopTest
  BY <1>8 DEF LoopTest
<1>9. CASE WorkerLock
  BY <1>9 DEF WorkerLock
<1>10. CASE WaitBegin
  BY <1>10 DEF WaitBegin
<1>11. CASE ResetEvent
  BY <1>11 DEF ResetEvent
<1>12. CASE WaitWake
  BY <1>12 DEF WaitWake
<1>13. CASE WaitRelock
  BY <1>13 DEF WaitRelock
<1>14. CASE Take
  BY <1>14 DEF Take
<1>15. CASE TakeFromEmpty
  BY <1>15 DEF TakeFromEmpty
<1>16. CASE WorkTask
  BY <1>16 DEF WorkTask
<1>17. CASE UNCHANGED vars
  BY <1>17 DEF vars
<1> QED
  BY <1>1, <1>2, <1>3, <1>4, <1>5, <1>6, <1>7, <1>8, <1>9, <1>10, <1>11, <1>12, <1>13, <1>14, <1>15, <1>16, <1>17
     DEF Next, AddTaskStep, WorkerStep

\* Owning the critical section is being inside it, so no two threads are.
LEMMA MutexExcludes == TypeOK /\ MutexInv => ListExclusive
  BY ThreadsAssumption DEF TypeOK, MutexInv, ListExclusive, Inside

------------------------------------------------------------------------------
(* The event.                                                              *)

LEMMA StepWakeup ==
  ASSUME TypeOK, NoLostWakeup, [Next]_vars
  PROVE  NoLostWakeup'
<1> USE DEF TypeOK, NoLostWakeup, workerVars, producerVars, historyVars
<1>1. CASE Run
  BY <1>1 DEF Run
<1>2. CASE Stop
  BY <1>2 DEF Stop
<1>3. CASE StopReturn
  BY <1>3 DEF StopReturn
<1>4. ASSUME NEW p \in Producers, NEW t \in Tasks, AddTaskClone(p, t)
       PROVE  NoLostWakeup'
  BY <1>4 DEF AddTaskClone
<1>5. ASSUME NEW p \in Producers, AddTaskLock(p)
       PROVE  NoLostWakeup'
  BY <1>5 DEF AddTaskLock
<1>6. ASSUME NEW p \in Producers, AddTaskPush(p)
       PROVE  NoLostWakeup'
  BY <1>6 DEF AddTaskPush
<1>7. ASSUME NEW p \in Producers, AddTaskSignal(p)
       PROVE  NoLostWakeup'
  BY <1>7 DEF AddTaskSignal
<1>8. CASE LoopTest
  BY <1>8 DEF LoopTest
<1>9. CASE WorkerLock
  BY <1>9 DEF WorkerLock
<1>10. CASE WaitBegin
  BY <1>10 DEF WaitBegin
<1>11. CASE ResetEvent
  BY <1>11 DEF ResetEvent
<1>12. CASE WaitWake
  BY <1>12 DEF WaitWake
<1>13. CASE WaitRelock
  BY <1>13 DEF WaitRelock
<1>14. CASE Take
  BY <1>14 DEF Take
<1>15. CASE TakeFromEmpty
  BY <1>15 DEF TakeFromEmpty
<1>16. CASE WorkTask
  BY <1>16 DEF WorkTask
<1>17. CASE UNCHANGED vars
  BY <1>17 DEF vars
<1> QED
  BY <1>1, <1>2, <1>3, <1>4, <1>5, <1>6, <1>7, <1>8, <1>9, <1>10, <1>11, <1>12, <1>13, <1>14, <1>15, <1>16, <1>17
     DEF Next, AddTaskStep, WorkerStep

------------------------------------------------------------------------------
(* Stop.                                                                   *)

LEMMA StepLate ==
  ASSUME TypeOK, LateInv, [Next]_vars
  PROVE  LateInv'
<1> USE DEF TypeOK, LateInv, workerVars, producerVars, historyVars
<1>1. CASE Run
  BY <1>1 DEF Run
<1>2. CASE Stop
  BY <1>2 DEF Stop
<1>3. CASE StopReturn
  BY <1>3 DEF StopReturn
<1>4. ASSUME NEW p \in Producers, NEW t \in Tasks, AddTaskClone(p, t)
       PROVE  LateInv'
  BY <1>4 DEF AddTaskClone
<1>5. ASSUME NEW p \in Producers, AddTaskLock(p)
       PROVE  LateInv'
  BY <1>5 DEF AddTaskLock
<1>6. ASSUME NEW p \in Producers, AddTaskPush(p)
       PROVE  LateInv'
  BY <1>6 DEF AddTaskPush
<1>7. ASSUME NEW p \in Producers, AddTaskSignal(p)
       PROVE  LateInv'
  BY <1>7 DEF AddTaskSignal
<1>8. CASE LoopTest
  BY <1>8 DEF LoopTest
<1>9. CASE WorkerLock
  BY <1>9 DEF WorkerLock
<1>10. CASE WaitBegin
  BY <1>10 DEF WaitBegin
<1>11. CASE ResetEvent
  BY <1>11 DEF ResetEvent
<1>12. CASE WaitWake
  BY <1>12 DEF WaitWake
<1>13. CASE WaitRelock
  BY <1>13 DEF WaitRelock
<1>14. CASE Take
  BY <1>14 DEF Take
<1>15. CASE TakeFromEmpty
  BY <1>15 DEF TakeFromEmpty
<1>16. CASE WorkTask
  BY <1>16 DEF WorkTask
<1>17. CASE UNCHANGED vars
  BY <1>17 DEF vars
<1> QED
  BY <1>1, <1>2, <1>3, <1>4, <1>5, <1>6, <1>7, <1>8, <1>9, <1>10, <1>11, <1>12, <1>13, <1>14, <1>15, <1>16, <1>17
     DEF Next, AddTaskStep, WorkerStep

------------------------------------------------------------------------------
(* The list.                                                               *)

LEMMA InHandType == TypeOK /\ InHandInv => InHand \in Seq(Tasks)
<1> SUFFICES ASSUME TypeOK, InHandInv PROVE InHand \in Seq(Tasks)
  OBVIOUS
<1>1. CASE wpc = "work"
  BY <1>1 DEF InHandInv, InHand
<1>2. CASE wpc # "work"
  BY <1>2, EmptySeq DEF InHand
<1> QED BY <1>1, <1>2

\* What the steps that move a task do to the queue the manager stands for:
\* a push appends, taking a task leaves it as it is, WorkEnd removes its head.
LEMMA PushAppends ==
  ASSUME TypeOK, InHandInv, NEW p \in Producers, AddTaskPush(p)
  PROVE  /\ ptask[p] \in Tasks
         /\ InHand' \o m_Tasks' = Append(InHand \o m_Tasks, ptask[p])
<1>1. ptask[p] \in Tasks
  BY DEF InHandInv, AddTaskPush
<1>2. InHand \in Seq(Tasks) /\ m_Tasks \in Seq(Tasks) /\ <<>> \in Seq(Tasks)
  BY InHandType, EmptySeq DEF TypeOK
<1>3. InHand' = InHand /\ m_Tasks' = Append(m_Tasks, ptask[p])
  BY DEF AddTaskPush, InHand, workerVars
<1>4. <<>> \o InHand = InHand
  BY <1>2, ConcatEmptySeq
<1>5. <<>> \o InHand \o Append(m_Tasks, ptask[p])
        = Append(<<>> \o InHand \o m_Tasks, ptask[p])
  BY <1>1, <1>2, AppendToLast
<1> QED BY <1>1, <1>3, <1>4, <1>5

LEMMA TakeKeeps ==
  ASSUME TypeOK, Take
  PROVE  InHand' \o m_Tasks' = InHand \o m_Tasks
<1>1. InHand = <<>> /\ InHand' = <<Head(m_Tasks)>> /\ m_Tasks' = Tail(m_Tasks)
  BY DEF Take, InHand
<1>2. m_Tasks \in Seq(Tasks) /\ m_Tasks # <<>>
  BY DEF TypeOK, Take
<1>3. <<Head(m_Tasks)>> \o Tail(m_Tasks) = m_Tasks
  BY <1>2, HeadThenTail
<1>4. <<>> \o m_Tasks = m_Tasks
  BY <1>2, ConcatEmptySeq
<1> QED BY <1>1, <1>3, <1>4

LEMMA WorkTakesHead ==
  ASSUME TypeOK, InHandInv, WorkTask
  PROVE  /\ InHand \o m_Tasks # <<>>
         /\ task = Head(InHand \o m_Tasks)
         /\ InHand' \o m_Tasks' = Tail(InHand \o m_Tasks)
         /\ ended' \o InHand' \o m_Tasks' = ended \o InHand \o m_Tasks
<1>1. /\ InHand = <<task>> /\ InHand' = <<>> /\ m_Tasks' = m_Tasks
      /\ ended' = Append(ended, task)
  BY DEF WorkTask, InHand
<1>2. /\ task \in Tasks /\ m_Tasks \in Seq(Tasks) /\ ended \in Seq(Tasks)
      /\ <<task>> \in Seq(Tasks)
  BY DEF TypeOK, InHandInv, WorkTask
<1>3. <<task>> \o m_Tasks \in Seq(Tasks) /\ <<>> \o m_Tasks = m_Tasks
  BY <1>2, ConcatProperties, ConcatEmptySeq
<1>4. /\ Len(<<task>> \o m_Tasks) = 1 + Len(m_Tasks)
      /\ \A i \in 1 .. 1 + Len(m_Tasks) :
           (<<task>> \o m_Tasks)[i] = IF i <= 1 THEN task ELSE m_Tasks[i - 1]
  BY <1>2, ConcatProperties
<1>5. Len(m_Tasks) \in Nat
  BY <1>2, LenProperties
<1>6. <<task>> \o m_Tasks # <<>>
  BY <1>3, <1>4, <1>5, EmptySeq
<1>7. Head(<<task>> \o m_Tasks) = task
  BY <1>3, <1>4, <1>5, <1>6
<1>8. Tail(<<task>> \o m_Tasks) = m_Tasks
  <2>1. /\ Tail(<<task>> \o m_Tasks) \in Seq(Tasks)
        /\ Len(Tail(<<task>> \o m_Tasks)) = Len(m_Tasks)
        /\ \A i \in 1 .. Len(m_Tasks) :
             Tail(<<task>> \o m_Tasks)[i] = (<<task>> \o m_Tasks)[i + 1]
    BY <1>3, <1>4, <1>5, <1>6, HeadTailProperties
  <2>2. \A i \in 1 .. Len(m_Tasks) : Tail(<<task>> \o m_Tasks)[i] = m_Tasks[i]
    BY <2>1, <1>4, <1>5
  <2> QED BY <2>1, <2>2, <1>2, SeqEqual
<1>9. Append(ended, task) \o <<>> = ended \o <<task>>
  BY <1>2, AppendIsConcat, AppendProperties, ConcatEmptySeq
<1> QED BY <1>1, <1>3, <1>6, <1>7, <1>8, <1>9

LEMMA StepFifo ==
  ASSUME TypeOK, InHandInv, FifoOrder, [Next]_vars
  PROVE  FifoOrder'
<1> USE DEF workerVars, producerVars, historyVars
<1>a. /\ ended \in Seq(Tasks) /\ InHand \in Seq(Tasks) /\ m_Tasks \in Seq(Tasks)
  BY InHandType DEF TypeOK
<1>1. CASE Run
  BY <1>1 DEF Run, FifoOrder, InHand
<1>2. CASE Stop
  BY <1>2 DEF Stop, FifoOrder, InHand
<1>3. CASE StopReturn
  BY <1>3 DEF StopReturn, FifoOrder, InHand
<1>4. ASSUME NEW p \in Producers, NEW t \in Tasks, AddTaskClone(p, t)
       PROVE  FifoOrder'
  BY <1>4 DEF AddTaskClone, FifoOrder, InHand
<1>5. ASSUME NEW p \in Producers, AddTaskLock(p)
       PROVE  FifoOrder'
  BY <1>5 DEF AddTaskLock, FifoOrder, InHand
<1>6. ASSUME NEW p \in Producers, AddTaskPush(p)
       PROVE  FifoOrder'
  <2>1. ended' = ended /\ InHand' = InHand /\ m_Tasks' = Append(m_Tasks, ptask[p])
        /\ added' = Append(added, ptask[p])
    BY <1>6 DEF AddTaskPush, InHand
  <2>2. ptask[p] \in Tasks
    BY <1>6, PushAppends
  <2>3. ended \o InHand \o Append(m_Tasks, ptask[p])
          = Append(ended \o InHand \o m_Tasks, ptask[p])
    BY <1>a, <2>2, AppendToLast
  <2> QED BY <2>1, <2>3 DEF FifoOrder
<1>7. ASSUME NEW p \in Producers, AddTaskSignal(p)
       PROVE  FifoOrder'
  BY <1>7 DEF AddTaskSignal, FifoOrder, InHand
<1>8. CASE LoopTest
  BY <1>8 DEF LoopTest, FifoOrder, InHand
<1>9. CASE WorkerLock
  BY <1>9 DEF WorkerLock, FifoOrder, InHand
<1>10. CASE WaitBegin
  BY <1>10 DEF WaitBegin, FifoOrder, InHand
<1>11. CASE ResetEvent
  BY <1>11 DEF ResetEvent, FifoOrder, InHand
<1>12. CASE WaitWake
  BY <1>12 DEF WaitWake, FifoOrder, InHand
<1>13. CASE WaitRelock
  BY <1>13 DEF WaitRelock, FifoOrder, InHand
<1>14. CASE Take
  <2>1. ended' = ended /\ added' = added
    BY <1>14 DEF Take
  <2>2. InHand' \o m_Tasks' = InHand \o m_Tasks
    BY <1>14, TakeKeeps
  <2>3. InHand' \in Seq(Tasks) /\ m_Tasks' \in Seq(Tasks)
    BY <1>14, StepType, InHandType, HeadTailProperties DEF Take, InHand, TypeOK
  <2>4. ended \o InHand \o m_Tasks = ended \o (InHand \o m_Tasks)
    <3>1. ended \in Seq(Tasks) /\ InHand \in Seq(Tasks) /\ m_Tasks \in Seq(Tasks)
      BY <1>a
    <3> QED BY ONLY <3>1, ConcatAssociative, SMTT(30)
  <2>5. ended \o InHand' \o m_Tasks' = ended \o (InHand' \o m_Tasks')
    <3>1. ended \in Seq(Tasks) /\ InHand' \in Seq(Tasks) /\ m_Tasks' \in Seq(Tasks)
      BY <1>a, <2>3
    <3> QED BY ONLY <3>1, ConcatAssociative, SMTT(30)
  <2> QED BY <2>1, <2>2, <2>4, <2>5 DEF FifoOrder
<1>15. CASE TakeFromEmpty
  BY <1>15 DEF TakeFromEmpty, FifoOrder, InHand
<1>16. CASE WorkTask
  BY <1>16, WorkTakesHead DEF FifoOrder, WorkTask
<1>17. CASE UNCHANGED vars
  BY <1>17 DEF vars, FifoOrder, InHand
<1> QED
  BY <1>1, <1>2, <1>3, <1>4, <1>5, <1>6, <1>7, <1>8, <1>9, <1>10, <1>11, <1>12, <1>13, <1>14, <1>15, <1>16, <1>17
     DEF Next, AddTaskStep, WorkerStep

------------------------------------------------------------------------------
(* The invariant, and what follows from it.                                *)

LEMMA InitIInv == Init => IInv
<1> SUFFICES ASSUME Init PROVE IInv
  OBVIOUS
<1>1. TypeOK /\ InHandInv
  BY InitType
<1>2. MutexInv
  BY ThreadsAssumption DEF Init, MutexInv
<1>3. NoLostWakeup /\ LateInv
  BY DEF Init, NoLostWakeup, LateInv
<1>4. FifoOrder
  <2>1. <<>> \in Seq(Tasks)
    BY EmptySeq
  <2>2. <<>> \o <<>> \o <<>> = <<>>
    BY <2>1, ConcatEmptySeq
  <2> QED BY <2>2 DEF Init, FifoOrder, InHand
<1> QED BY <1>1, <1>2, <1>3, <1>4 DEF IInv

LEMMA StepIInv == IInv /\ [Next]_vars => IInv'
  BY StepType, StepMutex, StepWakeup, StepFifo, StepLate DEF IInv

LEMMA Invariance == Spec => []IInv
<1> QED BY InitIInv, StepIInv, PTL DEF Spec

\* The list is touched by one thread at a time.
THEOREM ListIsExclusive == Spec => []ListExclusive
<1>1. IInv => ListExclusive
  BY MutexExcludes DEF IInv
<1> QED BY <1>1, Invariance, PTL

\* A worker asleep over a nonempty list has been or will be signalled.
THEOREM NoWakeupIsLost == Spec => []NoLostWakeup
<1>1. IInv => NoLostWakeup
  BY DEF IInv
<1> QED BY <1>1, Invariance, PTL

\* Nothing is lost, worked twice or reordered.
THEOREM TasksAreFifo == Spec => []FifoOrder
<1>1. IInv => FifoOrder
  BY DEF IInv
<1> QED BY <1>1, Invariance, PTL

\* After Stop the worker takes one more task at the most.
THEOREM StopIsPrompt == Spec => []StopTakesAtMostOne
<1>1. IInv => StopTakesAtMostOne
  BY DEF IInv, LateInv, StopTakesAtMostOne
<1> QED BY <1>1, Invariance, PTL

------------------------------------------------------------------------------
(* The manager implements TaskQueue.                                       *)

LEMMA InitRefines == Init => Queue!Init
<1> SUFFICES ASSUME Init PROVE Queue!Init
  OBVIOUS
<1>1. InHand = <<>> /\ m_Tasks = <<>>
  BY DEF Init, InHand
<1>2. <<>> \o <<>> = <<>>
  BY EmptySeq, ConcatEmptySeq
<1> QED BY <1>1, <1>2 DEF Init, Queue!Init

LEMMA StepRefines ==
  ASSUME TypeOK, InHandInv, [Next]_vars
  PROVE  [Queue!Next]_(Queue!queueVars)
<1> USE DEF workerVars, producerVars, historyVars
<1>1. CASE Run
  BY <1>1 DEF Run, Alive, InHand, Queue!queueVars
<1>2. CASE Stop
  BY <1>2 DEF Stop, Alive, InHand, Queue!queueVars
<1>3. CASE StopReturn
  BY <1>3 DEF StopReturn, Alive, InHand, Queue!queueVars
<1>4. ASSUME NEW p \in Producers, NEW t \in Tasks, AddTaskClone(p, t)
       PROVE  [Queue!Next]_(Queue!queueVars)
  BY <1>4 DEF AddTaskClone, Alive, InHand, Queue!queueVars
<1>5. ASSUME NEW p \in Producers, AddTaskLock(p)
       PROVE  [Queue!Next]_(Queue!queueVars)
  BY <1>5 DEF AddTaskLock, Alive, InHand, Queue!queueVars
<1>6. ASSUME NEW p \in Producers, AddTaskPush(p)
       PROVE  [Queue!Next]_(Queue!queueVars)
  <2>1. /\ ptask[p] \in Tasks
        /\ InHand' \o m_Tasks' = Append(InHand \o m_Tasks, ptask[p])
    BY <1>6, PushAppends
  <2>2. wpc # "undefined" /\ wpc' = wpc /\ ended' = ended
    BY <1>6 DEF AddTaskPush, Alive
  <2>3. Queue!Put(ptask[p])
    BY <2>1, <2>2 DEF Queue!Put
  <2> QED BY <2>1, <2>3 DEF Queue!Next
<1>7. ASSUME NEW p \in Producers, AddTaskSignal(p)
       PROVE  [Queue!Next]_(Queue!queueVars)
  BY <1>7 DEF AddTaskSignal, Alive, InHand, Queue!queueVars
<1>8. CASE LoopTest
  BY <1>8 DEF LoopTest, Alive, InHand, Queue!queueVars
<1>9. CASE WorkerLock
  BY <1>9 DEF WorkerLock, Alive, InHand, Queue!queueVars
<1>10. CASE WaitBegin
  BY <1>10 DEF WaitBegin, Alive, InHand, Queue!queueVars
<1>11. CASE ResetEvent
  BY <1>11 DEF ResetEvent, Alive, InHand, Queue!queueVars
<1>12. CASE WaitWake
  BY <1>12 DEF WaitWake, Alive, InHand, Queue!queueVars
<1>13. CASE WaitRelock
  BY <1>13 DEF WaitRelock, Alive, InHand, Queue!queueVars
<1>14. CASE Take
  <2>1. InHand' \o m_Tasks' = InHand \o m_Tasks
    BY <1>14, TakeKeeps
  <2> QED BY <1>14, <2>1 DEF Take, Queue!queueVars
<1>15. CASE TakeFromEmpty
  <2>1. /\ InHand = <<>> /\ InHand' = <<>> /\ m_Tasks = <<>> /\ m_Tasks' = <<>>
        /\ wpc # "undefined" /\ wpc' = "undefined" /\ ended' = ended
    BY <1>15 DEF TakeFromEmpty, InHand
  <2>2. <<>> \o <<>> = <<>>
    BY EmptySeq, ConcatEmptySeq
  <2>3. Queue!Break
    BY <2>1, <2>2 DEF Queue!Break
  <2> QED BY <2>3 DEF Queue!Next
<1>16. CASE WorkTask
  <2>1. /\ InHand \o m_Tasks # <<>>
        /\ task = Head(InHand \o m_Tasks)
        /\ InHand' \o m_Tasks' = Tail(InHand \o m_Tasks)
    BY <1>16, WorkTakesHead
  <2>2. wpc # "undefined" /\ wpc' # "undefined" /\ ended' = Append(ended, task)
    BY <1>16 DEF WorkTask
  <2>3. Queue!Finish
    BY <2>1, <2>2 DEF Queue!Finish
  <2> QED BY <2>3 DEF Queue!Next
<1>17. CASE UNCHANGED vars
  BY <1>17 DEF vars, InHand, Queue!queueVars
<1> QED
  BY <1>1, <1>2, <1>3, <1>4, <1>5, <1>6, <1>7, <1>8, <1>9, <1>10, <1>11, <1>12, <1>13, <1>14, <1>15, <1>16, <1>17
     DEF Next, AddTaskStep, WorkerStep

\* CTaskManager, as long as its behaviour is defined, is a first-in first-out
\* queue worked one task at a time; it can fail only with nothing pending.
THEOREM ImplementsQueue == Spec => QueueSpec
<1>1. IInv /\ [Next]_vars => [Queue!Next]_(Queue!queueVars)
  BY StepRefines DEF IInv
<1> QED
  BY <1>1, InitRefines, Invariance, PTL DEF Spec, QueueSpec, Queue!Spec
==============================================================================
