---------------------------- MODULE AnswerService ----------------------------
(***************************************************************************)
(* What the program promises whoever sends it IQs: a request is answered   *)
(* once, after all those before it, or its answer is lost for want of a    *)
(* session, and nothing that was not asked for is answered.  The service   *)
(* may fail when it has nothing to do, and is silent from then on.         *)
(***************************************************************************)
EXTENDS Sequences

CONSTANT Ids            \* ids of requests

VARIABLES due,          \* requests not yet answered, oldest first
          answered,     \* requests answered, in that order
          lost,         \* requests whose answer was lost
          failed        \* has the service failed?

serviceVars == <<due, answered, lost, failed>>

Known == {due[i] : i \in DOMAIN due} \cup {answered[i] : i \in DOMAIN answered} \cup lost

Init ==
  /\ due = <<>>
  /\ answered = <<>>
  /\ lost = {}
  /\ failed = FALSE

Request(id) ==
  /\ ~failed
  /\ id \notin Known
  /\ due' = Append(due, id)
  /\ UNCHANGED <<answered, lost, failed>>

Answer ==
  /\ ~failed
  /\ due # <<>>
  /\ answered' = Append(answered, Head(due))
  /\ due' = Tail(due)
  /\ UNCHANGED <<lost, failed>>

Lose ==
  /\ ~failed
  /\ due # <<>>
  /\ lost' = lost \cup {Head(due)}
  /\ due' = Tail(due)
  /\ UNCHANGED <<answered, failed>>

Fail ==
  /\ ~failed
  /\ due = <<>>
  /\ failed' = TRUE
  /\ UNCHANGED <<due, answered, lost>>

Next == (\E id \in Ids : Request(id)) \/ Answer \/ Lose \/ Fail

Spec == Init /\ [][Next]_serviceVars
==============================================================================
