------------------------------ MODULE TaskQueue ------------------------------
(***************************************************************************)
(* What CTaskManager promises its callers: the tasks handed to AddTask are *)
(* worked one at a time, each once, in the order in which they were added. *)
(* The one way out of the promise is Break: with nothing pending the       *)
(* manager may fail altogether, after which it does nothing more.          *)
(***************************************************************************)
EXTENDS Sequences

CONSTANT Tasks          \* the task objects that AddTask's clone() creates

VARIABLES pending,      \* tasks added and not yet worked, oldest first
          ended,        \* tasks worked to their WorkEnd, in that order
          broken        \* TRUE once the manager has failed

queueVars == <<pending, ended, broken>>

Init == /\ pending = <<>>
        /\ ended = <<>>
        /\ broken = FALSE

Put(t) == /\ ~broken
          /\ pending' = Append(pending, t)
          /\ UNCHANGED <<ended, broken>>

Finish == /\ ~broken
          /\ pending # <<>>
          /\ ended' = Append(ended, Head(pending))
          /\ pending' = Tail(pending)
          /\ UNCHANGED broken

Break == /\ ~broken
         /\ pending = <<>>
         /\ broken' = TRUE
         /\ UNCHANGED <<pending, ended>>

Next == (\E t \in Tasks : Put(t)) \/ Finish \/ Break

Spec == Init /\ [][Next]_queueVars
==============================================================================
