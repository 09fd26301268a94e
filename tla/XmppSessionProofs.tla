-------------------------- MODULE XmppSessionProofs --------------------------
(***************************************************************************)
(* What holds of the logins however often the user asks for one, whatever  *)
(* the server answers and whatever the tasks post.                         *)
(*                                                                         *)
(* The argument: one button at the most waits in the dialog's queue, at    *)
(* its head (QueueInv), and what the xmpp threads post comes after the     *)
(* managers that post it (ClientInv).  An open connection has a thread,    *)
(* and who ends it tells the dialog, so that a login that leaves at once   *)
(* leaves one behind that will (PendingInv).  A login under way that the   *)
(* user has not left is the last one, on the information page (LeftInv):   *)
(* all that threads of two logins can spoil, each other's managers         *)
(* (MakersInv), the resource (ResourceInv) and the verdict (SuccessInv),   *)
(* is traced to a login that was left, and to where it was left.           *)
(***************************************************************************)
EXTENDS XmppSession, SequenceTheorems, FiniteSetTheorems, TLAPS

InitMsgs == {"initOk", "initFail"}
ThreadMsgs == {"success", "failure", "cancel"}

\* A thread that is over, or never was.
Over == {"none", "failed", "ended"}

\* A thread on its way to the managers, and one that has passed them.
Starting == {"none", "failed", "created", "reading", "check", "make"}
Made == {i \in Logins : tpc[i] \notin Starting}

\* A click waits alone at the head, for the page it was made on; the
\* environment reports once.
QueueInv ==
  /\ \A k \in DOMAIN queue : queue[k] \in Buttons =>
       /\ k = 1 /\ ui = "idle"
       /\ queue[k] \in OnPage[page]
       /\ queue[k] \in {"next", "guest"} => logins < MaxLogins
  /\ \A j, k \in DOMAIN queue : queue[j] \in InitMsgs /\ queue[k] \in InitMsgs => j = k
  /\ \A k \in DOMAIN queue : queue[k] \in InitMsgs => env = "done" /\ page = 0
  /\ \A k \in DOMAIN queue : queue[k] \in ThreadMsgs => makers # {}
  /\ page # 0 => env = "done"

\* The client and the threads that use it.
ClientInv ==
  /\ makers \subseteq Made
  /\ Made # {} => makers # {}
  /\ state = "null" => attempted = {} /\ \A i \in Logins : tpc[i] \in {"none", "failed", "created", "reading"}
  /\ state = "connecting" => \E i \in Logins : tpc[i] = "connecting"
  /\ state = "connected" => \E i \in Logins : tpc[i] \in {"connected", "box", "online"}
  /\ state \in {"connecting", "connected"} => attempted # {}
  /\ \A i \in Logins : i > logins \/ (i = logins /\ ui \in {"resource", "connect"}) => tpc[i] = "none"

\* The dialog's pages, and where a handler is.
PageInv ==
  /\ page = 0 => logins = 0 /\ attempted = {}
  /\ page = 3 => logins # 0
  /\ ui \in {"resource", "connect"} => page = 3 /\ label = "logInit"
  /\ page = 3 /\ makers = {} => label = "logInit"
  /\ ui \in {"joining", "waiting"} => caller # "none" /\ attempted # {}
  /\ ui = "waiting" => m_XmppThread # 0

\* "Logging in" on the screen: the login's thread is before its connection, or a
\* connection is open, or there is something for the dialog to read.
PendingInv ==
  page = 3 /\ label = "logInit" =>
    \/ queue # <<>>
    \/ ui \in {"resource", "connect", "closed", "crashed"}
    \/ ui \in {"joining", "waiting"} /\ caller = "last"
    \/ tpc[logins] \in {"failed", "created", "reading", "check", "make", "connect"}
    \/ state \in {"connecting", "connected"}

\* Threads that have given the client a resource, and those that have a session.
Given == {"check", "make", "connect", "connecting", "connected", "box", "online"}
Bound == {"box", "online"}

\* Who was left, and where: every thread under way but the last login's.
LeftInv ==
  /\ resID = logins
  /\ resPass = IF ui = "resource" THEN logins - 1 ELSE logins
  /\ \A i \in Logins : Running(i) /\ leftAt[i] = "none" => i = logins /\ page = 3
  /\ \A i \in Logins : leftAt[i] # "none" => i <= logins /\ tpc[i] # "none"
  /\ \A i \in Logins : tpc[i] \in {"created", "reading"} => leftAt[i] \in {"none", "resource"}
  /\ \A i \in Logins : tpc[i] \in {"check", "make"} => leftAt[i] # "connection"
  /\ ui \notin {"resource", "connect"} =>
       /\ m_XmppThread \in {0, logins}
       /\ m_XmppThread = 0 /\ logins # 0 => tpc[logins] \in Over

\* Of two logins that have registered managers or are about to, the first was left
\* before it had.
Making == {i \in Logins : i \in makers \/ tpc[i] = "make"}
MakersInv == \A i, j \in Making : i < j => leftAt[i] \in {"resource", "managers"}

\* The resources that the client of thread i's login may have: of it or a later one,
\* and of one login, if none was left before it had read its own.
FromOn(i, resource) ==
  /\ \A f \in 1 .. i : NoneLeftBefore(f) => resource \in (f .. logins) \X (f .. logins)
  /\ \/ \E j \in Logins : leftAt[j] = "resource"
     \/ \E n \in i .. logins : resource = <<n, n>>

ResourceInv ==
  /\ \A i \in Logins : tpc[i] = "reading" =>
       /\ readID[i] \in i .. logins
       /\ leftAt[i] = "none" => readID[i] = logins
  /\ \A i \in Logins : tpc[i] \in Given => FromOn(i, clientRes)
  /\ \A i \in Logins : tpc[i] \in Bound => FromOn(i, bound)

\* A verdict that is told is of a recent login, and none waits while the user asks
\* for a login without having left one.
SuccessInv ==
  /\ ((\E k \in DOMAIN queue : queue[k] = "success") \/ (page = 3 /\ label = "logS"))
       => \E r \in accepted : Recent(r)
  /\ ((\E k \in DOMAIN queue : queue[k] = "success") /\ queue[1] \in {"next", "guest"})
       => \E i \in Logins : leftAt[i] # "none"

IInv == /\ TypeOK /\ QueueInv /\ ClientInv /\ PageInv /\ CrashIsInDisConnect /\ PendingInv
        /\ LeftInv /\ MakersInv /\ ResourceInv /\ SuccessInv

------------------------------------------------------------------------------
(* The queue.                                                              *)

LEMMA Kinds ==
  /\ Messages = Buttons \cup InitMsgs \cup ThreadMsgs
  /\ Buttons \cap (InitMsgs \cup ThreadMsgs) = {}
  /\ InitMsgs \cap ThreadMsgs = {}
BY DEF Messages, Buttons, InitMsgs, ThreadMsgs

LEMMA Pages ==
  /\ OnPage[0] = {"close"}
  /\ OnPage[1] = {"close", "ulogin", "guest"}
  /\ OnPage[2] = {"close", "last", "next"}
  /\ OnPage[3] = {"close", "last"}
BY DEF OnPage

\* What a message that is taken leaves of the queue: nothing the user clicked.
LEMMA Taken ==
  ASSUME TypeOK, QueueInv, NEW msg \in Messages, Receive(msg)
  PROVE  /\ Tail(queue) \in Seq(Messages)
         /\ 1 \in DOMAIN queue /\ queue[1] = msg
         /\ \A k \in DOMAIN Tail(queue) :
              /\ Tail(queue)[k] \notin Buttons
              /\ Tail(queue)[k] \in InitMsgs => env = "done" /\ page = 0 /\ msg \notin InitMsgs
              /\ Tail(queue)[k] \in ThreadMsgs => makers # {}
              /\ \E j \in DOMAIN queue : Tail(queue)[k] = queue[j]
         /\ \A j, k \in DOMAIN Tail(queue) :
              Tail(queue)[j] \in InitMsgs /\ Tail(queue)[k] \in InitMsgs => j = k
<1>1. queue \in Seq(Messages) /\ queue # <<>>
  BY DEF TypeOK, Receive
<1>2. /\ Tail(queue) \in Seq(Messages)
      /\ 1 \in DOMAIN queue /\ queue[1] = msg
      /\ \A k \in DOMAIN Tail(queue) :
           k \in Nat \ {0} /\ k + 1 \in DOMAIN queue /\ Tail(queue)[k] = queue[k + 1]
  BY <1>1, HeadTailProperties DEF Receive
<1>3. \A k \in DOMAIN Tail(queue) :
        /\ Tail(queue)[k] \notin Buttons
        /\ Tail(queue)[k] \in InitMsgs => env = "done" /\ page = 0 /\ msg \notin InitMsgs
        /\ Tail(queue)[k] \in ThreadMsgs => makers # {}
        /\ \E j \in DOMAIN queue : Tail(queue)[k] = queue[j]
  BY <1>2 DEF QueueInv
<1>4. \A j, k \in DOMAIN Tail(queue) :
        Tail(queue)[j] \in InitMsgs /\ Tail(queue)[k] \in InitMsgs => j = k
  BY <1>2 DEF QueueInv
<1> QED BY <1>2, <1>3, <1>4

\* What the managers' posts add to a queue.
LEMMA Posted ==
  ASSUME NEW q \in Seq(Messages), NEW msg \in Messages, makers \subseteq Logins
  PROVE  /\ q \o Each(msg) \in Seq(Messages)
         /\ \A k \in DOMAIN (q \o Each(msg)) :
              \/ k \in DOMAIN q /\ (q \o Each(msg))[k] = q[k]
              \/ (q \o Each(msg))[k] = msg /\ makers # {}
         /\ makers # {} => q \o Each(msg) # <<>>
<1> DEFINE n == Cardinality(makers)
<1>a. n \in Nat /\ (n = 0 <=> makers = {})
  <2>1. IsFiniteSet(Logins)
    BY FS_Interval, BoundsAssumption DEF Logins
  <2>2. IsFiniteSet(makers)
    BY <2>1, FS_Subset
  <2> QED BY <2>2, FS_CardinalityType, FS_EmptySet
<1>b. Each(msg) = [k \in 1 .. n |-> msg]
  BY DEF Each
<1> HIDE DEF n
<1>1. Each(msg) \in Seq(Messages) /\ Len(Each(msg)) = n
  BY <1>a, <1>b
<1>2. /\ q \o Each(msg) \in Seq(Messages)
      /\ Len(q \o Each(msg)) = Len(q) + n
      /\ \A k \in 1 .. Len(q) + n :
           (q \o Each(msg))[k] = IF k <= Len(q) THEN q[k] ELSE Each(msg)[k - Len(q)]
  BY <1>1, ConcatProperties
<1>3. \A k \in 1 .. n : Each(msg)[k] = msg
  BY <1>b
<1> QED BY <1>a, <1>2, <1>3, EmptySeq

\* A message appended to the queue.
LEMMA AppendOf ==
  ASSUME NEW q \in Seq(Messages), NEW msg \in Messages
  PROVE  /\ Append(q, msg) \in Seq(Messages) /\ Append(q, msg) # <<>>
         /\ \A k \in DOMAIN Append(q, msg) :
              \/ k \in DOMAIN q /\ Append(q, msg)[k] = q[k]
              \/ k = Len(q) + 1 /\ Append(q, msg)[k] = msg
BY AppendProperties, EmptySeq

------------------------------------------------------------------------------
(* The initial state, and messages posted by others.                       *)

LEMMA InitInv == Init => IInv
<1> SUFFICES ASSUME Init PROVE IInv
  OBVIOUS
<1> USE DEF Init
<1>1. queue \in Seq(Messages) /\ DOMAIN queue = {}
  OBVIOUS
<1>2. tpc \in [Logins -> ThreadPC] /\ Made = {} /\ \A i \in Logins : tpc[i] = "none"
  BY DEF ThreadPC, Made, Starting
<1>3. TypeOK
  <2>1. 0 \in 0 .. MaxLogins /\ 0 \in 0 .. MaxVerdicts /\ 0 \in 0 .. 3
    BY BoundsAssumption
  <2>2. <<0, 0>> \in Resources
    BY <2>1 DEF Resources
  <2> QED BY <1>1, <1>2, <2>1, <2>2 DEF TypeOK, Labels, LeftAt
<1>4. QueueInv
  BY <1>1 DEF QueueInv
<1>5. ClientInv
  BY <1>2 DEF ClientInv
<1>6. PageInv /\ CrashIsInDisConnect /\ PendingInv
  BY DEF PageInv, CrashIsInDisConnect, PendingInv
<1>7. LeftInv /\ MakersInv /\ ResourceInv /\ SuccessInv
  BY <1>1, <1>2 DEF LeftInv, MakersInv, Making, ResourceInv, Given, Bound, SuccessInv, Running
<1> QED BY <1>3, <1>4, <1>5, <1>6, <1>7 DEF IInv

\* No login that was left is forgotten.
LeftKept == \A i \in Logins : leftAt[i] # "none" => leftAt'[i] = leftAt[i]

LEMMA MakersKept ==
  ASSUME MakersInv, LeftKept, Making' \subseteq Making, Making \subseteq Logins
  PROVE  MakersInv'
<1>1. \A i, j \in Making' : i < j => leftAt'[i] \in {"resource", "managers"}
  <2> SUFFICES ASSUME NEW i \in Making', NEW j \in Making', i < j
               PROVE  leftAt'[i] \in {"resource", "managers"}
    OBVIOUS
  <2>1. i \in Logins /\ leftAt[i] \in {"resource", "managers"}
    BY DEF MakersInv
  <2> QED BY <2>1 DEF LeftKept
<1> QED BY <1>1 DEF MakersInv

\* What is from a thread's login on stays so.
LEMMA FromOnKept ==
  ASSUME TypeOK, NEW i \in Logins, NEW resource, FromOn(i, resource), LeftKept,
         logins' \in Nat, logins <= logins'
  PROVE  /\ \A f \in 1 .. i : (\A k \in 1 .. f - 1 : leftAt'[k] = "none")
                                => resource \in (f .. logins') \X (f .. logins')
         /\ \/ \E j \in Logins : leftAt'[j] = "resource"
            \/ \E n \in i .. logins' : resource = <<n, n>>
<1>1. logins \in Nat /\ i \in Nat /\ i <= MaxLogins /\ MaxLogins \in Nat
  BY BoundsAssumption DEF TypeOK, Logins
<1>2. ASSUME NEW f \in 1 .. i, \A k \in 1 .. f - 1 : leftAt'[k] = "none"
      PROVE  resource \in (f .. logins') \X (f .. logins')
  <2>1. \A k \in 1 .. f - 1 : k \in Logins
    BY <1>1 DEF Logins
  <2>2. NoneLeftBefore(f)
    BY <1>2, <2>1 DEF LeftKept, NoneLeftBefore
  <2>3. resource \in (f .. logins) \X (f .. logins)
    BY <2>2 DEF FromOn
  <2>4. f .. logins \subseteq f .. logins'
    BY <1>1
  <2> QED BY <2>3, <2>4
<1>3. (\E j \in Logins : leftAt[j] = "resource") => \E j \in Logins : leftAt'[j] = "resource"
  BY DEF LeftKept
<1>4. i .. logins \subseteq i .. logins'
  BY <1>1
<1> QED BY <1>2, <1>3, <1>4 DEF FromOn

LEMMA ResourceKept ==
  ASSUME TypeOK, ResourceInv, LeftKept, logins' \in Nat, logins <= logins',
         UNCHANGED <<clientRes, bound>>,
         \A i \in Logins :
           /\ tpc'[i] = "reading" => /\ tpc[i] = "reading" /\ readID'[i] = readID[i]
                                     /\ leftAt'[i] = "none" => leftAt[i] = "none" /\ logins' = logins
           /\ tpc'[i] \in Given => tpc[i] \in Given
           /\ tpc'[i] \in Bound => tpc[i] \in Bound
  PROVE  ResourceInv'
<1>1. ASSUME NEW i \in Logins, tpc'[i] = "reading"
      PROVE  readID'[i] \in i .. logins' /\ (leftAt'[i] = "none" => readID'[i] = logins')
  <2>1. /\ readID'[i] \in i .. logins
        /\ leftAt'[i] = "none" => readID'[i] = logins'
    BY <1>1 DEF ResourceInv
  <2> QED BY <2>1 DEF TypeOK, Logins
<1>2. ASSUME NEW i \in Logins, tpc'[i] \in Given
      PROVE  FromOn(i, clientRes)'
  <2>1. FromOn(i, clientRes)
    BY <1>2 DEF ResourceInv
  <2> QED BY <2>1, FromOnKept DEF FromOn, NoneLeftBefore
<1>3. ASSUME NEW i \in Logins, tpc'[i] \in Bound
      PROVE  FromOn(i, bound)'
  <2>1. FromOn(i, bound)
    BY <1>3 DEF ResourceInv
  <2> QED BY <2>1, FromOnKept DEF FromOn, NoneLeftBefore
<1> QED BY <1>1, <1>2, <1>3 DEF ResourceInv

LEMMA SuccessKept ==
  ASSUME TypeOK, SuccessInv, LeftKept, UNCHANGED <<accepted, logins>>,
         ((\E k \in DOMAIN queue' : queue'[k] = "success") \/ (page' = 3 /\ label' = "logS"))
           => (\E k \in DOMAIN queue : queue[k] = "success") \/ (page = 3 /\ label = "logS"),
         (\E k \in DOMAIN queue' : queue'[k] = "success") /\ queue'[1] \in {"next", "guest"}
           => (\E k \in DOMAIN queue : queue[k] = "success") /\ queue[1] \in {"next", "guest"}
  PROVE  SuccessInv'
<1>1. \A r : Recent(r) => Recent(r)'
  <2> SUFFICES ASSUME NEW r, Recent(r),
                      NEW f \in 1 .. logins, \A i \in 1 .. f - 1 : leftAt'[i] = "none"
               PROVE  r \in (f .. logins) \X (f .. logins)
    BY DEF Recent, NoneLeftBefore
  <2>1. \A k \in 1 .. f - 1 : k \in Logins
    BY BoundsAssumption DEF TypeOK, Logins
  <2>2. NoneLeftBefore(f)
    BY <2>1 DEF NoneLeftBefore, LeftKept
  <2> QED BY <2>2 DEF Recent
<1>2. (\E i \in Logins : leftAt[i] # "none") => \E i \in Logins : leftAt'[i] # "none"
  BY DEF LeftKept
<1> QED BY <1>1, <1>2 DEF SuccessInv

\* A step that gives no thread managers, a resource or a session, and tells no success.
LEMMA QuietInv ==
  ASSUME IInv, LeftKept, Making' \subseteq Making,
         UNCHANGED <<clientRes, bound, logins, accepted>>,
         \A i \in Logins :
           /\ tpc'[i] = "reading" => tpc[i] = "reading" /\ readID'[i] = readID[i]
           /\ tpc'[i] \in Given => tpc[i] \in Given
           /\ tpc'[i] \in Bound => tpc[i] \in Bound,
         ((\E k \in DOMAIN queue' : queue'[k] = "success") \/ (page' = 3 /\ label' = "logS"))
           => (\E k \in DOMAIN queue : queue[k] = "success") \/ (page = 3 /\ label = "logS"),
         (\E k \in DOMAIN queue' : queue'[k] = "success") /\ queue'[1] \in {"next", "guest"}
           => (\E k \in DOMAIN queue : queue[k] = "success") /\ queue[1] \in {"next", "guest"}
  PROVE  MakersInv' /\ ResourceInv' /\ SuccessInv'
<1>1. MakersInv'
  BY MakersKept DEF IInv, Making
<1>2. \A i \in Logins : leftAt'[i] = "none" => leftAt[i] = "none"
  BY DEF LeftKept
<1>3. ResourceInv'
  BY <1>2, ResourceKept DEF IInv, TypeOK
<1>4. SuccessInv'
  BY SuccessKept DEF IInv
<1> QED BY <1>1, <1>3, <1>4

LEMMA EnvStartUpInv == ASSUME IInv, EnvStartUp PROVE IInv'
<1> USE DEF IInv, EnvStartUp
<1> PICK msg \in InitMsgs : queue' = Append(queue, msg)
  BY DEF InitMsgs
<1>1. /\ queue' \in Seq(Messages) /\ queue' # <<>> /\ msg \notin Buttons /\ msg # "success"
      /\ \A k \in DOMAIN queue' :
           \/ k \in DOMAIN queue /\ queue'[k] = queue[k]
           \/ k = Len(queue) + 1 /\ queue'[k] = msg
  BY Kinds, AppendOf DEF TypeOK, InitMsgs
<1>2. env' = "done" /\ page = 0 /\ (\A k \in DOMAIN queue : queue[k] \notin InitMsgs)
  BY DEF QueueInv, TypeOK
<1>3. TypeOK'
  BY <1>1 DEF TypeOK, uiVars, resVars, clientVars, historyVars
<1>4. QueueInv'
  BY <1>1, <1>2, Kinds DEF QueueInv, uiVars
<1>5. ClientInv' /\ PageInv' /\ CrashIsInDisConnect' /\ PendingInv'
  BY <1>1 DEF ClientInv, Made, PageInv, CrashIsInDisConnect, PendingInv, uiVars, clientVars, historyVars
<1>6. LeftInv' /\ MakersInv' /\ ResourceInv' /\ SuccessInv'
  <2>1. LeftInv'
    BY <1>2 DEF LeftInv, Running, uiVars, resVars, clientVars, historyVars
  <2>2. LeftKept /\ Making' \subseteq Making
    BY <1>2 DEF LeftKept, Making, uiVars, resVars, clientVars, historyVars
  <2>3. /\ (\E k \in DOMAIN queue' : queue'[k] = "success") => \E k \in DOMAIN queue : queue[k] = "success"
        /\ (\E k \in DOMAIN queue' : queue'[k] = "success") /\ queue'[1] \in {"next", "guest"}
             => queue[1] \in {"next", "guest"}
    BY <1>1 DEF Buttons
  <2> QED BY <1>2, <2>1, <2>2, <2>3, QuietInv DEF Given, Bound, uiVars, resVars, clientVars, historyVars
<1> QED BY <1>3, <1>4, <1>5, <1>6

LEMMA ClickInv == ASSUME IInv, NEW button \in Buttons, Click(button) PROVE IInv'
<1> USE DEF IInv, Click
<1>1. /\ queue' \in Seq(Messages) /\ queue' # <<>> /\ DOMAIN queue' = {1} /\ queue'[1] = button
  BY Kinds
<1>2. TypeOK'
  BY <1>1 DEF TypeOK, uiVars, resVars, clientVars, historyVars
<1>3. QueueInv'
  BY <1>1, Kinds DEF QueueInv, uiVars
<1>4. ClientInv' /\ PageInv' /\ CrashIsInDisConnect' /\ PendingInv'
  BY <1>1 DEF ClientInv, Made, PageInv, CrashIsInDisConnect, PendingInv, uiVars, clientVars, historyVars
<1>5. LeftInv' /\ MakersInv' /\ ResourceInv' /\ SuccessInv'
  <2>1. LeftInv'
    BY <1>1 DEF LeftInv, Running, uiVars, resVars, clientVars, historyVars
  <2>2. LeftKept /\ Making' \subseteq Making
    BY <1>1 DEF LeftKept, Making, uiVars, resVars, clientVars, historyVars
  <2>3. /\ (\E k \in DOMAIN queue' : queue'[k] = "success") => \E k \in DOMAIN queue : queue[k] = "success"
        /\ (\E k \in DOMAIN queue' : queue'[k] = "success") /\ queue'[1] \in {"next", "guest"}
             => queue[1] \in {"next", "guest"}
    BY <1>1 DEF Buttons
  <2> QED BY <1>1, <2>1, <2>2, <2>3, QuietInv DEF Given, Bound, uiVars, resVars, clientVars, historyVars
<1> QED BY <1>2, <1>3, <1>4, <1>5

------------------------------------------------------------------------------
(* The dialog's handlers.                                                  *)

\* The handlers that change the page or the label and nothing else.
LEMMA OnInitMsgInv == ASSUME IInv, OnInitMsg PROVE IInv'
<1> USE DEF IInv, OnInitMsg
<1> PICK msg \in InitMsgs : Receive(msg)
  BY DEF InitMsgs
<1>1. msg \in Messages /\ msg \in InitMsgs
  BY Kinds
<1>2. /\ queue' \in Seq(Messages)
      /\ 1 \in DOMAIN queue /\ queue[1] = msg
      /\ \A k \in DOMAIN queue' :
           /\ queue'[k] \notin Buttons /\ queue'[k] \notin InitMsgs
           /\ queue'[k] \in ThreadMsgs => makers # {}
           /\ \E j \in DOMAIN queue : queue'[k] = queue[j]
  BY <1>1, Taken
<1>3. page = 0 /\ env = "done" /\ ui = "idle"
  BY <1>1, <1>2 DEF QueueInv, Receive
<1>4. TypeOK'
  BY <1>2 DEF TypeOK, Labels, resVars, clientVars, historyVars
<1>5. QueueInv'
  BY <1>2, <1>3 DEF QueueInv
<1>6. ClientInv' /\ PageInv' /\ CrashIsInDisConnect' /\ PendingInv'
  BY <1>3 DEF ClientInv, Made, PageInv, CrashIsInDisConnect, PendingInv, clientVars, historyVars
<1>7. LeftInv' /\ MakersInv' /\ ResourceInv' /\ SuccessInv'
  <2>1. LeftInv'
    BY <1>3 DEF LeftInv, Running, resVars, clientVars, historyVars
  <2>2. LeftKept /\ Making' \subseteq Making
    BY <1>3 DEF LeftKept, Making, resVars, clientVars, historyVars
  <2>3. /\ (\E k \in DOMAIN queue' : queue'[k] = "success") => \E k \in DOMAIN queue : queue[k] = "success"
        /\ (\E k \in DOMAIN queue' : queue'[k] = "success") /\ queue'[1] \in {"next", "guest"}
             => queue[1] \in {"next", "guest"}
    <3>1. \A k \in DOMAIN queue' : 1 \in DOMAIN queue'
      BY <1>2
    <3> QED BY <1>2, <3>1 DEF Buttons
  <2> QED BY <1>3, <2>1, <2>2, <2>3, QuietInv DEF Given, Bound, resVars, clientVars, historyVars
<1> QED BY <1>4, <1>5, <1>6, <1>7

LEMMA OnClickCloseInv == ASSUME IInv, OnClickClose PROVE IInv'
<1> USE DEF IInv, OnClickClose
<1>1. /\ queue' \in Seq(Messages)
      /\ \A k \in DOMAIN queue' :
           /\ queue'[k] \notin Buttons
           /\ queue'[k] \in InitMsgs => env = "done" /\ page = 0
           /\ queue'[k] \in ThreadMsgs => makers # {}
           /\ \E j \in DOMAIN queue : queue'[k] = queue[j]
      /\ \A j, k \in DOMAIN queue' : queue'[j] \in InitMsgs /\ queue'[k] \in InitMsgs => j = k
  BY Taken DEF Messages, Buttons
<1>2. ui = "idle"
  BY DEF Receive
<1>3. TypeOK'
  BY <1>1 DEF TypeOK, resVars, clientVars, historyVars
<1>4. QueueInv'
  BY <1>1 DEF QueueInv
<1>5. ClientInv' /\ PageInv' /\ CrashIsInDisConnect' /\ PendingInv'
  BY <1>2 DEF ClientInv, Made, PageInv, CrashIsInDisConnect, PendingInv, clientVars, historyVars
<1>6. LeftInv' /\ MakersInv' /\ ResourceInv' /\ SuccessInv'
  <2>1. LeftInv'
    BY <1>1, <1>2 DEF LeftInv, Running, resVars, clientVars, historyVars
  <2>2. LeftKept /\ Making' \subseteq Making
    BY <1>1 DEF LeftKept, Making, resVars, clientVars, historyVars
  <2>3. /\ (\E k \in DOMAIN queue' : queue'[k] = "success") => \E k \in DOMAIN queue : queue[k] = "success"
        /\ (\E k \in DOMAIN queue' : queue'[k] = "success") /\ queue'[1] \in {"next", "guest"}
             => queue[1] \in {"next", "guest"}
    <3>1. \A k \in DOMAIN queue' : 1 \in DOMAIN queue'
      BY <1>1
    <3> QED BY <1>1, <3>1 DEF Buttons
  <2> QED BY <1>1, <1>2, <2>1, <2>2, <2>3, QuietInv DEF Given, Bound, resVars, clientVars, historyVars
<1> QED BY <1>3, <1>4, <1>5, <1>6

LEMMA OnClickULoginInv == ASSUME IInv, OnClickULogin PROVE IInv'
<1> USE DEF IInv, OnClickULogin
<1>1. /\ queue' \in Seq(Messages)
      /\ 1 \in DOMAIN queue /\ queue[1] = "ulogin"
      /\ \A k \in DOMAIN queue' :
           /\ queue'[k] \notin Buttons
           /\ queue'[k] \in InitMsgs => env = "done" /\ page = 0
           /\ queue'[k] \in ThreadMsgs => makers # {}
           /\ \E j \in DOMAIN queue : queue'[k] = queue[j]
  BY Taken DEF Messages, Buttons
<1>2. page = 1 /\ env = "done" /\ ui = "idle"
  <2>1. page \in 0 .. 3 /\ ui = "idle" /\ env \in {"running", "done"}
    BY DEF TypeOK, Receive
  <2>2. queue[1] \in OnPage[page] /\ (page # 0 => env = "done")
    BY <1>1 DEF QueueInv, Buttons
  <2> QED BY <1>1, <2>1, <2>2, Pages
<1>3. TypeOK'
  BY <1>1 DEF TypeOK, resVars, clientVars, historyVars
<1>4. QueueInv'
  BY <1>1, <1>2 DEF QueueInv
<1>5. ClientInv' /\ PageInv' /\ CrashIsInDisConnect' /\ PendingInv'
  BY <1>2 DEF ClientInv, Made, PageInv, CrashIsInDisConnect, PendingInv, clientVars, historyVars
<1>6. LeftInv' /\ MakersInv' /\ ResourceInv' /\ SuccessInv'
  <2>1. LeftInv'
    BY <1>1, <1>2 DEF LeftInv, Running, resVars, clientVars, historyVars
  <2>2. LeftKept /\ Making' \subseteq Making
    BY <1>1 DEF LeftKept, Making, resVars, clientVars, historyVars
  <2>3. /\ (\E k \in DOMAIN queue' : queue'[k] = "success") => \E k \in DOMAIN queue : queue[k] = "success"
        /\ (\E k \in DOMAIN queue' : queue'[k] = "success") /\ queue'[1] \in {"next", "guest"}
             => queue[1] \in {"next", "guest"}
    <3>1. \A k \in DOMAIN queue' : 1 \in DOMAIN queue'
      BY <1>1
    <3> QED BY <1>1, <3>1 DEF Buttons
  <2> QED BY <1>1, <1>2, <2>1, <2>2, <2>3, QuietInv DEF Given, Bound, resVars, clientVars, historyVars
<1> QED BY <1>3, <1>4, <1>5, <1>6

\* A login: every thread under way is one that the user has left.
LEMMA OnClickLoginInv == ASSUME IInv, OnClickLogin PROVE IInv'
<1> USE DEF IInv, OnClickLogin
<1> PICK msg \in {"next", "guest"} : Receive(msg)
  OBVIOUS
<1>1. /\ queue' \in Seq(Messages)
      /\ 1 \in DOMAIN queue /\ queue[1] = msg
      /\ \A k \in DOMAIN queue' :
           /\ queue'[k] \notin Buttons
           /\ queue'[k] \in InitMsgs => env = "done" /\ page = 0
           /\ queue'[k] \in ThreadMsgs => makers # {}
           /\ \E j \in DOMAIN queue : queue'[k] = queue[j]
  BY Taken DEF Messages, Buttons
<1>2. page \in {1, 2} /\ env = "done" /\ ui = "idle" /\ logins < MaxLogins
  <2>1. page \in 0 .. 3 /\ ui = "idle"
    BY DEF TypeOK, Receive
  <2>2. /\ queue[1] \in OnPage[page] /\ (page # 0 => env = "done")
        /\ logins < MaxLogins
    BY <1>1 DEF QueueInv, Buttons
  <2> QED BY <1>1, <2>1, <2>2, Pages
<1>3. logins' \in 1 .. MaxLogins /\ logins' = logins + 1 /\ logins \in Nat
  BY <1>2, BoundsAssumption DEF TypeOK
<1>4. TypeOK'
  BY <1>1, <1>3 DEF TypeOK, Labels, resVars, clientVars, historyVars
<1>5. QueueInv'
  BY <1>1, <1>2 DEF QueueInv
<1>6. ClientInv'
  BY <1>2, <1>3 DEF ClientInv, Made, Logins, clientVars, historyVars
<1>7. PageInv' /\ CrashIsInDisConnect' /\ PendingInv'
  BY <1>2, <1>3 DEF PageInv, CrashIsInDisConnect, PendingInv
<1>8. LeftInv' /\ MakersInv' /\ ResourceInv' /\ SuccessInv'
  <2>1. \A i \in Logins : Running(i) => leftAt[i] # "none"
    BY <1>2 DEF LeftInv
  <2>2. LeftInv'
    <3>1. resID' = logins' /\ ui' = "resource" /\ resPass' = logins' - 1
      BY <1>2, <1>3 DEF LeftInv
    <3>2. /\ \A i \in Logins : Running(i)' /\ leftAt'[i] = "none" => FALSE
          /\ \A i \in Logins : leftAt'[i] # "none" => i <= logins' /\ tpc'[i] # "none"
      BY <1>3, <2>1 DEF LeftInv, Running, Logins, historyVars
    <3>3. /\ \A i \in Logins : tpc'[i] \in {"created", "reading"} => leftAt'[i] \in {"none", "resource"}
          /\ \A i \in Logins : tpc'[i] \in {"check", "make"} => leftAt'[i] # "connection"
      BY DEF LeftInv, historyVars
    <3> QED BY <3>1, <3>2, <3>3 DEF LeftInv
  <2>3. LeftKept /\ Making' = Making /\ Making \subseteq Logins
    BY DEF LeftKept, Making, historyVars
  <2>4. MakersInv'
    BY <2>3, MakersKept
  <2>5. ResourceInv'
    BY <1>3, <2>1, <2>3, ResourceKept DEF Running, clientVars, historyVars
  <2>6. ASSUME \E k \in DOMAIN queue' : queue'[k] = "success"
        PROVE  /\ \E i \in Logins : leftAt[i] # "none"
               /\ \E r \in accepted : Recent(r)
    BY <1>1, <2>6 DEF SuccessInv
  <2>7. ASSUME NEW j \in Logins, leftAt[j] # "none", NEW r, Recent(r)
        PROVE  Recent(r)'
    <3> SUFFICES ASSUME NEW f \in 1 .. logins', \A i \in 1 .. f - 1 : leftAt'[i] = "none"
                 PROVE  r \in (f .. logins') \X (f .. logins')
      BY DEF Recent, NoneLeftBefore
    <3>1. j \in 1 .. logins /\ f \in Nat
      BY <1>3, <2>7 DEF LeftInv, Logins
    <3>2. f \in 1 .. logins
      BY <1>3, <2>7, <3>1 DEF historyVars
    <3>3. r \in (f .. logins) \X (f .. logins)
      BY <2>7, <3>2 DEF Recent, NoneLeftBefore, historyVars
    <3>4. f .. logins \subseteq f .. logins'
      BY <1>3
    <3> QED BY <3>3, <3>4
  <2>8. SuccessInv'
    BY <1>1, <2>6, <2>7 DEF SuccessInv, historyVars, Buttons
  <2> QED BY <2>2, <2>4, <2>5, <2>8
<1> QED BY <1>4, <1>5, <1>6, <1>7, <1>8

LEMMA SetResPassInv == ASSUME IInv, SetResPass PROVE IInv'
<1> USE DEF IInv, SetResPass
<1>1. TypeOK'
  BY DEF TypeOK, clientVars, historyVars
<1>2. QueueInv'
  BY DEF QueueInv
<1>3. ClientInv' /\ PageInv' /\ CrashIsInDisConnect' /\ PendingInv'
  BY DEF ClientInv, Made, PageInv, CrashIsInDisConnect, PendingInv, clientVars, historyVars
<1>4. LeftInv' /\ MakersInv' /\ ResourceInv' /\ SuccessInv'
  <2>1. LeftInv'
    BY DEF LeftInv, Running, clientVars, historyVars
  <2>2. LeftKept /\ Making' \subseteq Making
    BY DEF LeftKept, Making, historyVars
  <2> QED BY <2>1, <2>2, QuietInv DEF clientVars, historyVars
<1> QED BY <1>1, <1>2, <1>3, <1>4

LEMMA ConnectInv == ASSUME IInv, Connect PROVE IInv'
<1> USE DEF IInv, Connect
<1>1. logins \in Logins /\ tpc[logins] = "none" /\ page = 3
  BY BoundsAssumption DEF ClientInv, PageInv, TypeOK, Logins
<1>2. PICK pc \in {"created", "failed"} :
        /\ tpc' = [tpc EXCEPT ![logins] = pc]
        /\ tpc'[logins] = pc
        /\ \A i \in Logins : i # logins => tpc'[i] = tpc[i]
  BY <1>1 DEF TypeOK
<1>3. Made' = Made
  BY <1>1, <1>2 DEF Made, Starting
<1>4. m_XmppThread' \in 0 .. MaxLogins
  BY <1>1, BoundsAssumption DEF Logins, TypeOK
<1>5. TypeOK'
  BY <1>1, <1>2, <1>4 DEF TypeOK, ThreadPC, resVars, clientVars, historyVars
<1>6. QueueInv'
  BY DEF QueueInv
<1>7. ClientInv'
  <2>1. makers' \subseteq Made' /\ (Made' # {} => makers' # {})
    BY <1>3 DEF ClientInv
  <2>2. state' = "null" => attempted' = {} /\ \A i \in Logins : tpc'[i] \in {"none", "failed", "created", "reading"}
    BY <1>2 DEF ClientInv, clientVars, historyVars
  <2>3. /\ state' = "connecting" => \E i \in Logins : tpc'[i] = "connecting"
        /\ state' = "connected" => \E i \in Logins : tpc'[i] \in {"connected", "box", "online"}
    BY <1>1, <1>2 DEF ClientInv, clientVars
  <2>4. \A i \in Logins : i > logins' => tpc'[i] = "none"
    BY <1>1, <1>2 DEF ClientInv, Logins
  <2> QED BY <2>1, <2>2, <2>3, <2>4 DEF ClientInv, clientVars, historyVars
<1>8. PageInv' /\ CrashIsInDisConnect' /\ PendingInv'
  BY <1>1, <1>2 DEF PageInv, CrashIsInDisConnect, PendingInv
<1>9. LeftInv' /\ MakersInv' /\ ResourceInv' /\ SuccessInv'
  <2>1. LeftInv'
    <3>1. /\ \A i \in Logins : Running(i)' /\ leftAt'[i] = "none" => i = logins' /\ page' = 3
          /\ \A i \in Logins : leftAt'[i] # "none" => i <= logins' /\ tpc'[i] # "none"
      BY <1>1, <1>2 DEF LeftInv, Running, historyVars
    <3>2. /\ \A i \in Logins : tpc'[i] \in {"created", "reading"} => leftAt'[i] \in {"none", "resource"}
          /\ \A i \in Logins : tpc'[i] \in {"check", "make"} => leftAt'[i] # "connection"
      BY <1>1, <1>2 DEF LeftInv, historyVars
    <3>3. m_XmppThread' \in {0, logins} /\ (m_XmppThread' = 0 => tpc'[logins] \in Over)
      BY <1>1, <1>2 DEF Over, Logins, TypeOK
    <3> QED BY <3>1, <3>2, <3>3 DEF LeftInv, resVars
  <2>2. LeftKept /\ Making' \subseteq Making
    BY <1>2 DEF LeftKept, Making, historyVars
  <2>3. \A i \in Logins : /\ tpc'[i] = "reading" => tpc[i] = "reading"
                          /\ tpc'[i] \in Given => tpc[i] \in Given
                          /\ tpc'[i] \in Bound => tpc[i] \in Bound
    BY <1>2 DEF Given, Bound
  <2> QED BY <2>1, <2>2, <2>3, QuietInv DEF clientVars, historyVars
<1> QED BY <1>5, <1>6, <1>7, <1>8, <1>9

\* Before there is a client there are no managers.
LEMMA NoClient == ASSUME TypeOK, ClientInv, state = "null" PROVE makers = {}
BY DEF ClientInv, Made, Starting

\* The queue after a handler that may have called DisConnect.
LEMMA TakenAndPosted ==
  ASSUME TypeOK, QueueInv, NEW msg \in Messages, Receive(msg),
         NEW q, q \in {Tail(queue), Tail(queue) \o Each("cancel")}
  PROVE  /\ q \in Seq(Messages)
         /\ 1 \in DOMAIN queue /\ queue[1] = msg
         /\ \A k \in DOMAIN q :
              /\ q[k] \notin Buttons
              /\ q[k] \in InitMsgs => env = "done" /\ page = 0
              /\ q[k] \in ThreadMsgs => makers # {}
              /\ q[k] = "success" => \E j \in DOMAIN queue : queue[j] = "success"
         /\ \A j, k \in DOMAIN q : q[j] \in InitMsgs /\ q[k] \in InitMsgs => j = k
<1> DEFINE t == Tail(queue)
<1>1. /\ t \in Seq(Messages)
      /\ 1 \in DOMAIN queue /\ queue[1] = msg
      /\ \A k \in DOMAIN t :
           /\ t[k] \notin Buttons
           /\ t[k] \in InitMsgs => env = "done" /\ page = 0
           /\ t[k] \in ThreadMsgs => makers # {}
           /\ \E j \in DOMAIN queue : t[k] = queue[j]
      /\ \A j, k \in DOMAIN t : t[j] \in InitMsgs /\ t[k] \in InitMsgs => j = k
  BY Taken
<1>2. "cancel" \in Messages /\ "cancel" \notin Buttons /\ "cancel" \notin InitMsgs
  BY DEF Messages, Buttons, InitMsgs
<1>3. makers \subseteq Logins
  BY DEF TypeOK
<1> HIDE DEF t
<1>4. /\ t \o Each("cancel") \in Seq(Messages)
      /\ \A k \in DOMAIN (t \o Each("cancel")) :
           \/ k \in DOMAIN t /\ (t \o Each("cancel"))[k] = t[k]
           \/ (t \o Each("cancel"))[k] = "cancel" /\ makers # {}
  BY <1>1, <1>2, <1>3, Posted
<1>5. CASE q = t
  BY <1>1, <1>5
<1>6. CASE q = t \o Each("cancel")
  BY <1>1, <1>2, <1>4, <1>6
<1> QED BY <1>5, <1>6 DEF t

\* Whom DisConnect leaves, and how.
LEMMA LeavesUnderWay ==
  ASSUME TypeOK
  PROVE  /\ LeftUnderWay \in [Logins -> LeftAt]
         /\ \A i \in Logins :
              /\ leftAt[i] # "none" => LeftUnderWay[i] = leftAt[i]
              /\ Running(i) => LeftUnderWay[i] # "none"
              /\ LeftUnderWay[i] # "none" => leftAt[i] # "none" \/ Running(i)
              /\ tpc[i] \in {"created", "reading"} => LeftUnderWay[i] \in {leftAt[i], "resource"}
              /\ tpc[i] \in {"check", "make"} => LeftUnderWay[i] \in {leftAt[i], "managers"}
BY DEF LeftUnderWay, LeftAt, TypeOK, Running

\* After leaving them all, no thread under way is one that has not been left.
LEMMA LeavingInv ==
  ASSUME TypeOK, ClientInv, LeftInv, ui = "idle", ui' = "idle", leftAt' = LeftUnderWay,
         UNCHANGED <<resID, resPass, m_XmppThread, tpc, logins>>
  PROVE  LeftInv'
<1>1. /\ \A i \in Logins : Running(i)' => leftAt'[i] # "none"
      /\ \A i \in Logins : leftAt'[i] # "none" => leftAt[i] # "none" \/ Running(i)
      /\ \A i \in Logins : tpc'[i] \in {"created", "reading"} => leftAt'[i] \in {"none", "resource"}
      /\ \A i \in Logins : tpc'[i] \in {"check", "make"} => leftAt'[i] # "connection"
  BY LeavesUnderWay DEF LeftInv, Running
<1>2. \A i \in Logins : Running(i) => i <= logins /\ tpc[i] # "none"
  BY DEF ClientInv, Running, TypeOK, Logins
<1> QED BY <1>1, <1>2 DEF LeftInv

LEMMA OnClickLastInv == ASSUME IInv, OnClickLast PROVE IInv'
<1> USE DEF IInv, OnClickLast
<1>1. queue' \in {Tail(queue), Tail(queue) \o Each("cancel")}
  BY DEF DisConnect
<1>2. /\ queue' \in Seq(Messages)
      /\ 1 \in DOMAIN queue /\ queue[1] = "last"
      /\ \A k \in DOMAIN queue' :
           /\ queue'[k] \notin Buttons
           /\ queue'[k] \in InitMsgs => env = "done" /\ page = 0
           /\ queue'[k] \in ThreadMsgs => makers # {}
           /\ queue'[k] = "success" => \E j \in DOMAIN queue : queue[j] = "success"
      /\ \A j, k \in DOMAIN queue' : queue'[j] \in InitMsgs /\ queue'[k] \in InitMsgs => j = k
  BY <1>1, TakenAndPosted DEF Messages, Buttons
<1>3. page \in {2, 3} /\ env = "done" /\ ui = "idle"
  <2>1. page \in 0 .. 3
    BY DEF TypeOK
  <2>2. ui = "idle" /\ "last" \in OnPage[page] /\ (page # 0 => env = "done")
    BY <1>2 DEF QueueInv, Buttons
  <2> QED BY <2>1, <2>2, Pages
<1>4. \/ ui' = "idle" /\ page = 2 /\ UNCHANGED <<caller, state, leftAt>> /\ page' = 1
      \/ ui' = "idle" /\ leftAt' = LeftUnderWay /\ UNCHANGED <<caller, state>> /\ page' = 2
      \/ ui' = "crashed" /\ state = "null" /\ page = 3 /\ UNCHANGED <<caller, state, page, leftAt>>
      \/ /\ ui' = "joining" /\ caller' = "last" /\ UNCHANGED <<page, leftAt>>
         /\ state = "connected" /\ state' = "disconnected"
  BY <1>3 DEF DisConnect
<1>5. UNCHANGED <<env, label, resID, resPass, m_XmppThread, makers, tpc, readID, clientRes, bound,
                  logins, verdicts, attempted, accepted>>
  BY DEF resVars, historyVars
<1> HIDE DEF OnClickLast
<1>6. TypeOK'
  BY <1>2, <1>4, <1>5, LeavesUnderWay DEF TypeOK
<1>7. QueueInv'
  BY <1>2, <1>3, <1>4, <1>5 DEF QueueInv
<1>8. ClientInv'
  BY <1>3, <1>4, <1>5 DEF ClientInv, Made
<1>9. PageInv'
  BY <1>3, <1>4, <1>5 DEF PageInv, ClientInv
<1>10. CrashIsInDisConnect'
  <2>1. state = "null" /\ page = 3 => label = "logInit" /\ attempted = {}
    BY NoClient DEF PageInv, ClientInv
  <2> QED BY <1>4, <1>5, <2>1 DEF CrashIsInDisConnect
<1>11. PendingInv'
  BY <1>3, <1>4, <1>5 DEF PendingInv
<1>12. LeftInv' /\ MakersInv' /\ ResourceInv' /\ SuccessInv'
  <2>1. \/ leftAt' = leftAt /\ (page' = page \/ page = 2)
        \/ leftAt' = LeftUnderWay /\ ui' = "idle"
    BY <1>3, <1>4, <1>5
  <2>2. LeftInv'
    <3>1. CASE leftAt' = leftAt /\ (page' = page \/ page = 2)
      BY <1>3, <1>4, <1>5, <3>1 DEF LeftInv, Running
    <3>2. CASE leftAt' = LeftUnderWay /\ ui' = "idle"
      BY <1>3, <1>4, <1>5, <3>2, LeavingInv
    <3> QED BY <2>1, <3>1, <3>2
  <2>3. LeftKept /\ Making' \subseteq Making
    BY <1>3, <1>4, <1>5, <2>1, LeavesUnderWay DEF LeftKept, Making
  <2> QED BY <1>2, <1>3, <1>4, <1>5, <2>2, <2>3, QuietInv DEF Buttons
<1> QED BY <1>6, <1>7, <1>8, <1>9, <1>10, <1>11, <1>12

LEMMA OnXmppMsgInv == ASSUME IInv, OnXmppMsg PROVE IInv'
<1> USE DEF IInv, OnXmppMsg
<1> PICK msg \in {"success", "cancel", "failure"} : Receive(msg) /\ (msg = "success" <=> label' = "logS")
  OBVIOUS
<1>1. queue' \in {Tail(queue), Tail(queue) \o Each("cancel")}
  BY DEF DisConnect
<1>2. /\ queue' \in Seq(Messages)
      /\ 1 \in DOMAIN queue /\ queue[1] = msg
      /\ \A k \in DOMAIN queue' :
           /\ queue'[k] \notin Buttons
           /\ queue'[k] \in InitMsgs => env = "done" /\ page = 0
           /\ queue'[k] \in ThreadMsgs => makers # {}
           /\ queue'[k] = "success" => \E j \in DOMAIN queue : queue[j] = "success"
      /\ \A j, k \in DOMAIN queue' : queue'[j] \in InitMsgs /\ queue'[k] \in InitMsgs => j = k
  BY <1>1, TakenAndPosted DEF Messages, Buttons
<1>3. makers # {} /\ ui = "idle"
  BY <1>2 DEF QueueInv, Receive, ThreadMsgs
<1>4. state # "null"
  BY <1>3, NoClient DEF TypeOK
<1>5. \/ ui' = "idle" /\ leftAt' \in {leftAt, LeftUnderWay} /\ UNCHANGED <<caller, state, page>>
      \/ /\ ui' = "joining" /\ caller' = "msg" /\ UNCHANGED <<page, leftAt>>
         /\ state = "connected" /\ state' = "disconnected"
  BY <1>3, <1>4 DEF DisConnect
<1>6. label' \in {"logS", "logF"}
  OBVIOUS
<1>7. UNCHANGED <<env, resID, resPass, m_XmppThread, makers, tpc, readID, clientRes, bound,
                  logins, verdicts, attempted, accepted>>
  BY DEF resVars, historyVars
<1> HIDE DEF OnXmppMsg
<1>8. TypeOK'
  BY <1>2, <1>5, <1>6, <1>7, LeavesUnderWay DEF TypeOK, Labels
<1>9. QueueInv'
  BY <1>2, <1>5, <1>7 DEF QueueInv
<1>10. ClientInv'
  BY <1>3, <1>5, <1>7 DEF ClientInv, Made
<1>11. PageInv' /\ CrashIsInDisConnect' /\ PendingInv'
  BY <1>3, <1>5, <1>6, <1>7 DEF PageInv, ClientInv, CrashIsInDisConnect, PendingInv, TypeOK
<1>12. LeftInv' /\ MakersInv' /\ ResourceInv' /\ SuccessInv'
  <2>1. \/ leftAt' = leftAt /\ (page' = page \/ page = 2)
        \/ leftAt' = LeftUnderWay /\ ui' = "idle"
    BY <1>3, <1>5, <1>7
  <2>2. LeftInv'
    <3>1. CASE leftAt' = leftAt /\ (page' = page \/ page = 2)
      BY <1>3, <1>5, <1>7, <3>1 DEF LeftInv, Running
    <3>2. CASE leftAt' = LeftUnderWay /\ ui' = "idle"
      BY <1>3, <1>5, <1>7, <3>2, LeavingInv
    <3> QED BY <2>1, <3>1, <3>2
  <2>3. LeftKept /\ Making' \subseteq Making
    BY <1>3, <1>5, <1>7, <2>1, LeavesUnderWay DEF LeftKept, Making
  <2> QED BY <1>2, <1>3, <1>5, <1>6, <1>7, <2>2, <2>3, QuietInv DEF Buttons
<1> QED BY <1>8, <1>9, <1>10, <1>11, <1>12

\* Both ways out of DisConnect: at once, or when the thread has ended.
LEMMA JoinInv == ASSUME IInv, ReadThreadHandle \/ ThreadJoined PROVE IInv'
<1> USE DEF IInv
<1>1. ui \in {"joining", "waiting"} /\ caller # "none" /\ attempted # {}
  BY DEF ReadThreadHandle, ThreadJoined, PageInv
<1>2. \/ /\ ui' = "idle" /\ caller' = "none" /\ m_XmppThread' = 0
         /\ page' = IF caller = "last" THEN 2 ELSE page
      \/ ui' = "waiting" /\ m_XmppThread # 0 /\ UNCHANGED <<m_XmppThread, page, caller>>
      \/ ui' = "crashed" /\ m_XmppThread # 0 /\ UNCHANGED <<m_XmppThread, page, caller>>
  BY DEF ReadThreadHandle, ThreadJoined, DisConnected
<1>3. UNCHANGED <<env, label, queue, resID, resPass, makers, readID, tpc, state, clientRes, bound,
                  logins, verdicts, attempted, accepted, leftAt>>
  BY DEF ReadThreadHandle, ThreadJoined, resVars, clientVars, historyVars
<1>4. page # 0
  BY <1>1 DEF PageInv
<1>5. TypeOK'
  BY <1>2, <1>3, BoundsAssumption DEF TypeOK
<1>6. QueueInv'
  BY <1>1, <1>2, <1>3, <1>4 DEF QueueInv
<1>7. ClientInv'
  BY <1>1, <1>2, <1>3 DEF ClientInv, Made
<1>8. PageInv'
  BY <1>1, <1>2, <1>3, <1>4 DEF PageInv
<1>9. CrashIsInDisConnect'
  BY <1>1, <1>2, <1>3 DEF CrashIsInDisConnect, TypeOK, Logins
<1>10. PendingInv'
  BY <1>1, <1>2, <1>3 DEF PendingInv
<1>11. LeftInv' /\ MakersInv' /\ ResourceInv' /\ SuccessInv'
  <2>1. page' # page => ui' = "idle"
    BY <1>2
  <2>2. ui' = "idle" => m_XmppThread = 0 \/ tpc[m_XmppThread] = "ended"
    BY DEF ReadThreadHandle, ThreadJoined
  <2>3. LeftInv'
    BY <1>1, <1>2, <1>3, <2>1, <2>2 DEF LeftInv, Running, Over, TypeOK, Logins
  <2>4. LeftKept /\ Making' \subseteq Making
    BY <1>3 DEF LeftKept, Making
  <2> QED BY <1>1, <1>2, <1>3, <2>3, <2>4, QuietInv
<1> QED BY <1>5, <1>6, <1>7, <1>8, <1>9, <1>10, <1>11

------------------------------------------------------------------------------
(* An xmpp thread and the server.                                          *)

\* The step takes a thread from one place to another.
Moves(i, from, to) ==
  /\ tpc[i] = from /\ tpc'[i] = to
  /\ \A j \in Logins : j # i => tpc'[j] = tpc[j]

LEMMA GotoMoves ==
  ASSUME TypeOK, NEW i \in Logins, NEW from, NEW to \in ThreadPC, Goto(i, from, to)
  PROVE  Moves(i, from, to) /\ tpc' \in [Logins -> ThreadPC] /\ ui \notin {"closed", "crashed"}
BY DEF Goto, Moves, TypeOK, Alive

\* A thread that moves has been started by the last login or one before it.
LEMMA Started ==
  ASSUME IInv, NEW i \in Logins, tpc[i] \notin Over
  PROVE  /\ i <= logins /\ logins # 0 /\ page # 0
         /\ ~(i = logins /\ ui \in {"resource", "connect"})
BY DEF IInv, ClientInv, PageInv, Over, Logins, TypeOK

LEMMA MadeGrows ==
  ASSUME NEW i \in Logins, NEW from, NEW to, Moves(i, from, to), from \in Starting \/ to \notin Starting
  PROVE  Made' = (IF to \in Starting THEN Made ELSE Made \cup {i})
BY DEF Made, Moves

\* A thread under way that goes on.
LEMMA LeftMoves ==
  ASSUME IInv, NEW i \in Logins, NEW from, NEW to, Moves(i, from, to),
         from \notin Over, to # "none", from = "leaving" => to = "ended",
         to \in {"created", "reading"} => from = "created",
         to \in {"check", "make"} => from \in {"reading", "check"},
         UNCHANGED <<ui, page, resID, resPass, m_XmppThread, logins, leftAt>>
  PROVE  LeftInv' /\ LeftKept
<1>1. LeftKept
  BY DEF LeftKept
<1>2. \A j \in Logins : Running(j)' => Running(j)
  BY DEF Running, Moves, Over
<1>3. resID' = logins' /\ resPass' = IF ui' = "resource" THEN logins' - 1 ELSE logins'
  BY DEF IInv, LeftInv
<1>4. /\ \A j \in Logins : Running(j)' /\ leftAt'[j] = "none" => j = logins' /\ page' = 3
      /\ \A j \in Logins : leftAt'[j] # "none" => j <= logins' /\ tpc'[j] # "none"
  BY <1>2 DEF IInv, LeftInv, Moves, Over
<1>5. /\ \A j \in Logins : tpc'[j] \in {"created", "reading"} => leftAt'[j] \in {"none", "resource"}
      /\ \A j \in Logins : tpc'[j] \in {"check", "make"} => leftAt'[j] # "connection"
  BY DEF IInv, LeftInv, Moves
<1>6. ui' \notin {"resource", "connect"} =>
        /\ m_XmppThread' \in {0, logins'}
        /\ m_XmppThread' = 0 /\ logins' # 0 => tpc'[logins'] \in Over
  BY DEF IInv, LeftInv, Moves, TypeOK, Logins
<1> QED BY <1>1, <1>3, <1>4, <1>5, <1>6 DEF LeftInv

\* What the user and a thread have done to each other after a step of the thread that
\* gives it no managers, resource or session.
LEMMA ThreadQuiet ==
  ASSUME IInv, NEW i \in Logins, NEW from, NEW to, Moves(i, from, to), LeftInv', LeftKept,
         Making' \subseteq Making,
         UNCHANGED <<readID, clientRes, bound, logins, accepted, page, label>>,
         to # "reading", to \in Given => from \in Given, to \in Bound => from \in Bound,
         \/ queue' = queue
         \/ /\ queue' # <<>> /\ queue' \in Seq(Messages)
            /\ \A k \in DOMAIN queue' : \/ k \in DOMAIN queue /\ queue'[k] = queue[k]
                                        \/ queue'[k] \in {"failure", "cancel"}
  PROVE  LeftInv' /\ MakersInv' /\ ResourceInv' /\ SuccessInv'
<1>1. \A j \in Logins :
        /\ tpc'[j] = "reading" => tpc[j] = "reading"
        /\ tpc'[j] \in Given => tpc[j] \in Given
        /\ tpc'[j] \in Bound => tpc[j] \in Bound
  BY DEF Moves
<1>2. (\E k \in DOMAIN queue' : queue'[k] = "success") => \E k \in DOMAIN queue : queue[k] = "success"
  OBVIOUS
<1>3. (\E k \in DOMAIN queue' : queue'[k] = "success") /\ queue'[1] \in {"next", "guest"}
        => queue[1] \in {"next", "guest"}
  OBVIOUS
<1> QED BY <1>1, <1>2, <1>3, QuietInv

LEMMA ReadResIDInv == ASSUME IInv, NEW i \in Logins, ReadResID(i) PROVE IInv'
<1> USE DEF IInv
<1>1. Moves(i, "created", "reading") /\ tpc' \in [Logins -> ThreadPC] /\ tpc[i] = "created" /\ ui # "crashed"
  BY GotoMoves DEF ReadResID, ThreadPC, Moves
<1>2. /\ UNCHANGED <<env, ui, caller, page, label, queue, resID, resPass, m_XmppThread, makers, state,
                     clientRes, bound, logins, verdicts, attempted, accepted, leftAt>>
      /\ readID' = [readID EXCEPT ![i] = resID]
  BY DEF ReadResID, uiVars, resVars, clientVars, historyVars
<1>3. i <= logins /\ logins # 0
  BY <1>1, Started DEF Over
<1>4. Made' = Made
  BY <1>1, MadeGrows DEF Starting
<1>5. TypeOK'
  BY <1>1, <1>2 DEF TypeOK
<1>6. QueueInv' /\ PageInv' /\ CrashIsInDisConnect'
  BY <1>1, <1>2 DEF QueueInv, PageInv, CrashIsInDisConnect
<1>7. ClientInv'
  BY <1>1, <1>2, <1>4, Started DEF ClientInv, Moves, Over, TypeOK
<1>8. PendingInv'
  BY <1>1, <1>2 DEF PendingInv, PageInv, Moves, TypeOK, Logins
<1>9. LeftInv' /\ MakersInv' /\ ResourceInv' /\ SuccessInv'
  <2>1. LeftInv' /\ LeftKept
    BY <1>1, <1>2, LeftMoves DEF Over
  <2>2. MakersInv'
    BY <1>1, <1>2, <2>1, MakersKept DEF Making, Moves
  <2>3. ASSUME NEW j \in Logins, tpc'[j] = "reading"
        PROVE  readID'[j] \in j .. logins /\ (leftAt[j] = "none" => readID'[j] = logins)
    <3>1. CASE j = i
      <4>1. readID'[j] = logins /\ logins \in j .. logins
        BY <1>2, <1>3, <3>1 DEF TypeOK, LeftInv, Logins
      <4> QED BY <4>1
    <3>2. CASE j # i
      BY <1>1, <1>2, <2>3, <3>2 DEF ResourceInv, Moves, TypeOK
    <3> QED BY <3>1, <3>2
  <2>4. \A j \in Logins : /\ tpc'[j] \in Given => tpc[j] \in Given
                          /\ tpc'[j] \in Bound => tpc[j] \in Bound
    BY <1>1 DEF Moves, Given, Bound
  <2>5. \A j \in Logins : /\ FromOn(j, clientRes) => FromOn(j, clientRes)'
                          /\ FromOn(j, bound) => FromOn(j, bound)'
    BY <1>2 DEF FromOn, NoneLeftBefore
  <2>6. ResourceInv'
    BY <1>2, <2>3, <2>4, <2>5 DEF ResourceInv
  <2>7. SuccessInv'
    BY <1>2, <2>1, SuccessKept
  <2> QED BY <2>1, <2>2, <2>6, <2>7
<1> QED BY <1>5, <1>6, <1>7, <1>8, <1>9

\* What a thread reads of the resource is of its own login or a later one.
LEMMA ReadFromOn ==
  ASSUME IInv, NEW i \in Logins, tpc[i] = "reading", NEW j \in Logins, j = i \/ tpc[j] \in Given
  PROVE  FromOn(j, <<readID[i], resPass>>)
<1> USE DEF IInv
<1>1. i <= logins /\ j <= logins /\ logins \in Nat /\ i \in Nat /\ j \in Nat
  BY Started DEF Over, Given, TypeOK, Logins
<1>2. readID[i] \in i .. logins /\ resPass \in i .. logins
  <2>1. ~(i = logins /\ ui = "resource")
    BY Started DEF Over
  <2> QED BY <1>1, <2>1 DEF ResourceInv, LeftInv
<1>3. leftAt[i] = "none" => i = logins /\ readID[i] = logins /\ resPass = logins
  <2>1. Running(i)
    BY DEF Running
  <2> QED BY <1>1, <1>2, <2>1 DEF ResourceInv, LeftInv
<1>4. leftAt[i] \in {"none", "resource"}
  BY DEF LeftInv
<1>5. ASSUME NEW f \in 1 .. j, NoneLeftBefore(f)
      PROVE  <<readID[i], resPass>> \in (f .. logins) \X (f .. logins)
  <2>1. f <= i
    <3>1. CASE i < f
      BY <1>1, <1>3, <1>5, <3>1 DEF NoneLeftBefore, Logins
    <3> QED BY <1>1, <3>1
  <2> QED BY <1>1, <1>2, <2>1
<1>6. leftAt[i] = "none" => \E n \in j .. logins : <<readID[i], resPass>> = <<n, n>>
  BY <1>1, <1>3
<1> QED BY <1>4, <1>5, <1>6 DEF FromOn

LEMMA SetClientInv == ASSUME IInv, NEW i \in Logins, SetClient(i) PROVE IInv'
<1> USE DEF IInv
<1>1. Moves(i, "reading", "check") /\ tpc' \in [Logins -> ThreadPC] /\ tpc[i] = "reading"
  BY GotoMoves DEF SetClient, ThreadPC, Moves
<1>2. /\ UNCHANGED <<env, ui, caller, page, label, queue, resID, resPass, m_XmppThread, makers,
                     bound, logins, verdicts, attempted, accepted, leftAt>>
      /\ clientRes' = <<readID[i], resPass>>
      /\ readID' = [readID EXCEPT ![i] = 0]
      /\ state' = IF state = "null" THEN "disconnected" ELSE state
  BY DEF SetClient, uiVars, resVars, historyVars
<1>3. i <= logins /\ logins # 0
  BY <1>1, Started DEF Over
<1>4. Made' = Made
  BY <1>1, MadeGrows DEF Starting
<1>5. TypeOK'
  <2>1. clientRes' \in Resources /\ readID' \in [Logins -> 0 .. MaxLogins]
    BY <1>2, BoundsAssumption DEF TypeOK, Resources
  <2> QED BY <1>1, <1>2, <2>1 DEF TypeOK
<1>6. QueueInv' /\ PageInv'
  BY <1>2 DEF QueueInv, PageInv
<1>7. ClientInv'
  BY <1>1, <1>2, <1>4, Started DEF ClientInv, Moves, Over, TypeOK
<1>8. CrashIsInDisConnect'
  BY <1>2, GotoMoves DEF CrashIsInDisConnect, SetClient, ThreadPC
<1>9. PendingInv'
  BY <1>1, <1>2 DEF PendingInv, PageInv, Moves, TypeOK, Logins
<1>10. LeftInv' /\ MakersInv' /\ ResourceInv' /\ SuccessInv'
  <2>1. LeftInv' /\ LeftKept
    BY <1>1, <1>2, LeftMoves DEF Over
  <2>2. MakersInv'
    BY <1>1, <1>2, <2>1, MakersKept DEF Making, Moves
  <2>3. \A j \in Logins : tpc'[j] = "reading" => tpc[j] = "reading" /\ readID'[j] = readID[j]
    BY <1>1, <1>2 DEF Moves, TypeOK
  <2>4. ASSUME NEW j \in Logins, tpc'[j] \in Given PROVE FromOn(j, clientRes)'
    <3>1. j = i \/ tpc[j] \in Given
      BY <1>1, <2>4 DEF Moves
    <3>2. FromOn(j, <<readID[i], resPass>>)
      BY <1>1, <3>1, ReadFromOn
    <3> QED BY <1>2, <3>2 DEF FromOn, NoneLeftBefore
  <2>5. ASSUME NEW j \in Logins, tpc'[j] \in Bound PROVE FromOn(j, bound)'
    <3>1. FromOn(j, bound)
      BY <1>1, <2>5 DEF ResourceInv, Moves, Bound
    <3> QED BY <1>2, <3>1 DEF FromOn, NoneLeftBefore
  <2>6. ResourceInv'
    BY <1>2, <2>3, <2>4, <2>5 DEF ResourceInv
  <2>7. SuccessInv'
    BY <1>2, <2>1, SuccessKept
  <2> QED BY <2>1, <2>2, <2>6, <2>7
<1> QED BY <1>5, <1>6, <1>7, <1>8, <1>9, <1>10

LEMMA CheckManagersInv == ASSUME IInv, NEW i \in Logins, CheckManagers(i) PROVE IInv'
<1> USE DEF IInv
<1> DEFINE to == IF makers = {} THEN "make" ELSE "connect"
<1>1. Moves(i, "check", to) /\ tpc' \in [Logins -> ThreadPC] /\ tpc[i] = "check" /\ ui # "crashed"
  BY GotoMoves DEF CheckManagers, ThreadPC, Moves
<1>2. UNCHANGED <<env, ui, caller, page, label, queue, resID, resPass, m_XmppThread, makers, readID,
                  state, clientRes, bound, logins, verdicts, attempted, accepted, leftAt>>
  BY DEF CheckManagers, uiVars, resVars, clientVars, historyVars
<1>3. /\ i <= logins /\ logins # 0
  BY <1>1, Started DEF Over
<1>4. Made' = (IF makers = {} THEN Made ELSE Made \cup {i})
  BY <1>1, MadeGrows DEF Starting
<1>5. TypeOK'
  BY <1>1, <1>2 DEF TypeOK
<1>6. QueueInv' /\ PageInv' /\ CrashIsInDisConnect'
  BY <1>1, <1>2 DEF QueueInv, PageInv, CrashIsInDisConnect
<1>7. ClientInv'
  BY <1>1, <1>2, <1>4, Started DEF ClientInv, Moves, Over, TypeOK
<1>8. PendingInv'
  BY <1>1, <1>2 DEF PendingInv, PageInv, Moves, TypeOK, Logins
<1>9. LeftInv' /\ MakersInv' /\ ResourceInv' /\ SuccessInv'
  <2>1. LeftInv' /\ LeftKept
    BY <1>1, <1>2, LeftMoves DEF Over
  <2>2. CASE makers # {}
    <3>1. Making' \subseteq Making
      BY <1>1, <1>2, <2>2 DEF Making, Moves
    <3> QED BY <1>1, <1>2, <2>1, <2>2, <3>1, ThreadQuiet DEF Given, Bound
  <2>3. CASE makers = {}
    <3>1. \A j \in Logins : tpc[j] \in {"check", "make"} /\ j # logins => leftAt[j] \in {"resource", "managers"}
      BY DEF LeftInv, Running, LeftAt, TypeOK
    <3>2. \A j \in Logins : j \in Making' => tpc[j] \in {"check", "make"} /\ j <= logins
      BY <1>1, <1>2, <2>3, Started DEF Making, Moves, Over
    <3>3. MakersInv'
      BY <1>2, <3>1, <3>2 DEF MakersInv, Making, TypeOK, Logins
    <3>4. \A j \in Logins : /\ tpc'[j] = "reading" => tpc[j] = "reading"
                            /\ tpc'[j] \in Given => tpc[j] \in Given
                            /\ tpc'[j] \in Bound => tpc[j] \in Bound
      BY <1>1, <2>3 DEF Moves, Given, Bound
    <3>5. ResourceInv'
      BY <1>2, <2>1, <3>4, ResourceKept DEF TypeOK
    <3>6. SuccessInv'
      BY <1>2, <2>1, SuccessKept
    <3> QED BY <2>1, <3>3, <3>5, <3>6
  <2> QED BY <2>2, <2>3
<1> QED BY <1>5, <1>6, <1>7, <1>8, <1>9

LEMMA MakeManagersInv == ASSUME IInv, NEW i \in Logins, MakeManagers(i) PROVE IInv'
<1> USE DEF IInv
<1>1. Moves(i, "make", "connect") /\ tpc' \in [Logins -> ThreadPC] /\ tpc[i] = "make" /\ ui # "crashed"
  BY GotoMoves DEF MakeManagers, ThreadPC, Moves
<1>2. UNCHANGED <<env, ui, caller, page, label, queue, resID, resPass, m_XmppThread,
                  state, clientRes, bound, logins, verdicts, attempted, accepted, leftAt>>
      /\ readID' = readID /\ makers' = makers \cup {i}
  BY DEF MakeManagers, uiVars, resVars, clientVars, historyVars
<1>3. /\ i <= logins /\ logins # 0
  BY <1>1, Started DEF Over
<1>4. Made' = Made \cup {i}
  BY <1>1, MadeGrows DEF Starting
<1>5. makers' \subseteq Made' /\ makers' # {} /\ makers' \subseteq Logins
  BY <1>2, <1>4 DEF TypeOK, ClientInv
<1>6. TypeOK'
  BY <1>1, <1>2, <1>5 DEF TypeOK
<1>7. QueueInv' /\ PageInv' /\ CrashIsInDisConnect'
  BY <1>1, <1>2, <1>5 DEF QueueInv, PageInv, CrashIsInDisConnect
<1>8. ClientInv'
  BY <1>1, <1>2, <1>5, Started DEF ClientInv, Moves, Over, TypeOK
<1>9. PendingInv'
  BY <1>1, <1>2 DEF PendingInv, PageInv, Moves, TypeOK, Logins
<1>10. LeftInv' /\ MakersInv' /\ ResourceInv' /\ SuccessInv'
  <2>1. LeftInv' /\ LeftKept
    BY <1>1, <1>2, LeftMoves DEF Over
  <2>2. Making' \subseteq Making
    BY <1>1, <1>2 DEF Making, Moves
  <2> QED BY <1>1, <1>2, <2>1, <2>2, ThreadQuiet DEF Given, Bound
<1> QED BY <1>6, <1>7, <1>8, <1>9, <1>10

LEMMA OpenConnectionInv == ASSUME IInv, NEW i \in Logins, OpenConnection(i) PROVE IInv'
<1> USE DEF IInv
<1>1. PICK to \in {"connecting", "leaving"} :
        /\ Moves(i, "connect", to) /\ tpc' \in [Logins -> ThreadPC] /\ tpc[i] = "connect" /\ ui # "crashed"
        /\ to = "connecting" => state = "disconnected" /\ state' = "connecting"
                                /\ attempted' = attempted \cup {i}
        /\ to = "leaving" => state # "disconnected" /\ UNCHANGED <<state, attempted>>
  BY GotoMoves DEF OpenConnection, ThreadPC, Moves
<1>2. UNCHANGED <<env, ui, caller, page, label, queue, resID, resPass, m_XmppThread, makers, readID,
                  clientRes, bound, logins, verdicts, accepted, leftAt>>
  BY DEF OpenConnection, uiVars, resVars
<1>3. /\ i <= logins /\ logins # 0 /\ page # 0
  BY <1>1, Started DEF Over
<1>4. Made' = Made
  BY <1>1, MadeGrows DEF Starting, Made, Moves
<1>5. state # "null"
  BY <1>1 DEF ClientInv
<1>6. TypeOK'
  BY <1>1, <1>2 DEF TypeOK
<1>7. QueueInv' /\ PageInv' /\ CrashIsInDisConnect'
  BY <1>1, <1>2, <1>3 DEF QueueInv, PageInv, CrashIsInDisConnect
<1>8. ClientInv'
  <2>1. state' = "connecting" => \E j \in Logins : tpc'[j] = "connecting"
    BY <1>1 DEF ClientInv, Moves
  <2>2. state' = "connected" => \E j \in Logins : tpc'[j] \in {"connected", "box", "online"}
    BY <1>1 DEF ClientInv, Moves
  <2>3. \A j \in Logins : j > logins \/ (j = logins /\ ui \in {"resource", "connect"}) => tpc'[j] = "none"
    BY <1>1 DEF ClientInv, Moves
  <2> QED BY <1>1, <1>2, <1>4, <1>5, <2>1, <2>2, <2>3 DEF ClientInv
<1>9. PendingInv'
  BY <1>1, <1>2, <1>5 DEF PendingInv, PageInv, Moves, TypeOK, Logins
<1>10. LeftInv' /\ MakersInv' /\ ResourceInv' /\ SuccessInv'
  <2>1. LeftInv' /\ LeftKept
    BY <1>1, <1>2, LeftMoves DEF Over
  <2>2. Making' \subseteq Making
    BY <1>1, <1>2 DEF Making, Moves
  <2> QED BY <1>1, <1>2, <2>1, <2>2, ThreadQuiet DEF Given, Bound
<1> QED BY <1>6, <1>7, <1>8, <1>9, <1>10

LEMMA ServerReachedInv == ASSUME IInv, NEW i \in Logins, ServerReached(i) PROVE IInv'
<1> USE DEF IInv
<1>1. Moves(i, "connecting", "connected") /\ tpc' \in [Logins -> ThreadPC]
      /\ tpc[i] = "connecting" /\ ui # "crashed"
  BY GotoMoves DEF ServerReached, ThreadPC, Moves
<1>2. UNCHANGED <<env, ui, caller, page, label, queue, resID, resPass, m_XmppThread, makers, readID,
                  clientRes, bound, logins, verdicts, attempted, accepted, leftAt>>
      /\ state = "connecting" /\ state' = "connected"
  BY DEF ServerReached, uiVars, resVars, historyVars
<1>3. /\ i <= logins /\ logins # 0
  BY <1>1, Started DEF Over
<1>4. Made' = Made
  BY <1>1, MadeGrows DEF Starting, Made, Moves
<1>5. TypeOK'
  BY <1>1, <1>2 DEF TypeOK
<1>6. QueueInv' /\ PageInv' /\ CrashIsInDisConnect' /\ PendingInv'
  BY <1>1, <1>2 DEF QueueInv, PageInv, CrashIsInDisConnect, PendingInv
<1>7. ClientInv'
  BY <1>1, <1>2, <1>4, Started DEF ClientInv, Moves, Over, TypeOK
<1>8. LeftInv' /\ MakersInv' /\ ResourceInv' /\ SuccessInv'
  <2>1. LeftInv' /\ LeftKept
    BY <1>1, <1>2, LeftMoves DEF Over
  <2>2. Making' \subseteq Making
    BY <1>1, <1>2 DEF Making, Moves
  <2> QED BY <1>1, <1>2, <2>1, <2>2, ThreadQuiet DEF Given, Bound
<1> QED BY <1>5, <1>6, <1>7, <1>8

LEMMA AuthenticatedInv == ASSUME IInv, NEW i \in Logins, Authenticated(i) PROVE IInv'
<1> USE DEF IInv
<1>1. Moves(i, "connected", "box") /\ tpc' \in [Logins -> ThreadPC]
      /\ tpc[i] = "connected" /\ ui # "crashed"
  BY GotoMoves DEF Authenticated, ThreadPC, Moves
<1>2. UNCHANGED <<env, ui, caller, page, label, queue, resID, resPass, m_XmppThread, makers, readID, state,
                  clientRes, logins, verdicts, attempted, accepted, leftAt>>
      /\ state = "connected" /\ bound' = clientRes
  BY DEF Authenticated, uiVars, resVars, historyVars
<1>3. /\ i <= logins /\ logins # 0
  BY <1>1, Started DEF Over
<1>4. Made' = Made
  BY <1>1, MadeGrows DEF Starting, Made, Moves
<1>5. TypeOK'
  BY <1>1, <1>2 DEF TypeOK
<1>6. QueueInv' /\ PageInv' /\ CrashIsInDisConnect' /\ PendingInv'
  BY <1>1, <1>2 DEF QueueInv, PageInv, CrashIsInDisConnect, PendingInv
<1>7. ClientInv'
  BY <1>1, <1>2, <1>4, Started DEF ClientInv, Moves, Over, TypeOK
<1>8. LeftInv' /\ MakersInv' /\ ResourceInv' /\ SuccessInv'
  <2>1. LeftInv' /\ LeftKept
    BY <1>1, <1>2, LeftMoves DEF Over
  <2>2. MakersInv'
    BY <1>1, <1>2, <2>1, MakersKept DEF Making, Moves
  <2>3. \A j \in Logins : /\ tpc'[j] = "reading" => tpc[j] = "reading"
                          /\ tpc'[j] \in Given => tpc[j] \in Given
                          /\ tpc'[j] \in Bound => tpc[j] \in Given
    BY <1>1 DEF Moves, Given, Bound
  <2>4. \A j \in Logins : tpc[j] \in Given => FromOn(j, clientRes)'
    BY <1>2 DEF ResourceInv, FromOn, NoneLeftBefore
  <2>5. \A j \in Logins : tpc[j] \in Given => FromOn(j, bound)'
    BY <1>2 DEF ResourceInv, FromOn, NoneLeftBefore
  <2>6. ResourceInv'
    BY <1>2, <2>3, <2>4, <2>5 DEF ResourceInv
  <2>7. SuccessInv'
    BY <1>2, <2>1, SuccessKept
  <2> QED BY <2>1, <2>2, <2>6, <2>7
<1> QED BY <1>5, <1>6, <1>7, <1>8

LEMMA BoxDismissedInv == ASSUME IInv, NEW i \in Logins, BoxDismissed(i) PROVE IInv'
<1> USE DEF IInv
<1>1. Moves(i, "box", "online") /\ tpc' \in [Logins -> ThreadPC] /\ tpc[i] = "box" /\ ui # "crashed"
  BY GotoMoves DEF BoxDismissed, ThreadPC, Moves
<1>2. UNCHANGED <<env, ui, caller, page, label, queue, resID, resPass, m_XmppThread, makers, readID, state,
                  clientRes, bound, logins, verdicts, attempted, accepted, leftAt>>
  BY DEF BoxDismissed, uiVars, resVars, clientVars, historyVars
<1>3. /\ i <= logins /\ logins # 0
  BY <1>1, Started DEF Over
<1>4. Made' = Made
  BY <1>1, MadeGrows DEF Starting, Made, Moves
<1>5. TypeOK'
  BY <1>1, <1>2 DEF TypeOK
<1>6. QueueInv' /\ PageInv' /\ CrashIsInDisConnect'
  BY <1>1, <1>2 DEF QueueInv, PageInv, CrashIsInDisConnect
<1>7. PendingInv'
  BY <1>1, <1>2 DEF PendingInv, PageInv, Moves, TypeOK, Logins
<1>8. ClientInv'
  BY <1>1, <1>2, <1>4, Started DEF ClientInv, Moves, Over, TypeOK
<1>9. LeftInv' /\ MakersInv' /\ ResourceInv' /\ SuccessInv'
  <2>1. LeftInv' /\ LeftKept
    BY <1>1, <1>2, LeftMoves DEF Over
  <2>2. Making' \subseteq Making
    BY <1>1, <1>2 DEF Making, Moves
  <2> QED BY <1>1, <1>2, <2>1, <2>2, ThreadQuiet DEF Given, Bound
<1> QED BY <1>5, <1>6, <1>7, <1>8, <1>9

LEMMA HandleLoginInv == ASSUME IInv, NEW i \in Logins, HandleLogin(i) PROVE IInv'
<1> USE DEF IInv
<1>1. tpc[i] = "online" /\ state = "connected" /\ verdicts' \in 0 .. MaxVerdicts
  BY BoundsAssumption DEF HandleLogin, TypeOK
<1>2. PICK msg \in {"success", "failure"} :
        /\ queue' = queue \o Each(msg)
        /\ msg = "success" => accepted' = accepted \cup {bound}
        /\ msg = "failure" => accepted' = accepted
  BY DEF HandleLogin
<1>3. UNCHANGED <<env, ui, caller, page, label, resID, resPass, m_XmppThread, makers, readID, tpc, state,
                  clientRes, bound, logins, attempted, leftAt>>
  BY DEF HandleLogin, uiVars, resVars, clientVars
<1>4. /\ i <= logins /\ logins # 0
  BY <1>1, Started DEF Over
<1>5. makers # {}
  BY <1>1 DEF ClientInv, Made, Starting
<1>6. /\ queue' \in Seq(Messages) /\ queue' # <<>>
      /\ \A k \in DOMAIN queue' :
           \/ k \in DOMAIN queue /\ queue'[k] = queue[k]
           \/ queue'[k] = msg
  <2>1. msg \in Messages /\ makers \subseteq Logins /\ queue \in Seq(Messages)
    BY DEF TypeOK, Messages
  <2> QED BY <1>2, <1>5, <2>1, Posted
<1>7. TypeOK'
  BY <1>1, <1>2, <1>3, <1>6 DEF TypeOK
<1>8. QueueInv'
  BY <1>3, <1>5, <1>6 DEF QueueInv, Buttons, InitMsgs
<1>9. ClientInv' /\ PageInv' /\ CrashIsInDisConnect' /\ PendingInv'
  BY <1>3, <1>6 DEF ClientInv, Made, PageInv, CrashIsInDisConnect, PendingInv
<1>10. LeftInv' /\ MakersInv' /\ ResourceInv' /\ SuccessInv'
  <2>1. LeftInv' /\ LeftKept
    BY <1>3 DEF LeftInv, LeftKept, Running
  <2>2. MakersInv'
    BY <1>3, <2>1, MakersKept DEF Making
  <2>3. ResourceInv'
    BY <1>3, <2>1, ResourceKept DEF TypeOK
  <2>4. Recent(bound)
    <3> SUFFICES ASSUME NEW f \in 1 .. logins, NoneLeftBefore(f)
                 PROVE  bound \in (f .. logins) \X (f .. logins)
      BY DEF Recent
    <3>1. FromOn(i, bound)
      BY <1>1 DEF ResourceInv, Bound
    <3>2. f <= i
      <4>1. Running(i)
        BY <1>1 DEF Running
      <4>2. CASE i < f
        BY <1>4, <4>1, <4>2 DEF LeftInv, NoneLeftBefore, Logins
      <4> QED BY <4>2 DEF Logins, TypeOK
    <3> QED BY <3>1, <3>2 DEF FromOn, Logins, TypeOK
  <2>5. queue'[1] \in {"next", "guest"} => \E j \in Logins : leftAt[j] # "none"
    <3>1. leftAt[i] = "none" => page = 3
      BY <1>1 DEF LeftInv, Running
    <3>2. queue'[1] \in {"next", "guest"} => queue'[1] \in OnPage[page] \/ \E j \in Logins : leftAt[j] # "none"
      <4>1. queue'[1] \in {"next", "guest"} => 1 \in DOMAIN queue /\ queue'[1] = queue[1]
        BY <1>2, <1>6
      <4> QED BY <4>1 DEF QueueInv, Buttons
    <3> QED BY <3>1, <3>2, Pages
  <2>6. \A r \in accepted : Recent(r) => r \in accepted' /\ Recent(r)'
    BY <1>2, <1>3 DEF Recent, NoneLeftBefore
  <2>7. msg = "success" => bound \in accepted' /\ Recent(bound)'
    BY <1>2, <1>3, <2>4 DEF Recent, NoneLeftBefore
  <2>8. SuccessInv'
    BY <1>2, <1>3, <1>6, <2>5, <2>6, <2>7 DEF SuccessInv
  <2> QED BY <2>1, <2>2, <2>3, <2>8
<1> QED BY <1>7, <1>8, <1>9, <1>10

LEMMA ConnectionLostInv == ASSUME IInv, NEW i \in Logins, ConnectionLost(i) PROVE IInv'
<1> USE DEF IInv
<1>1. PICK from \in {"connecting", "connected", "online"} : Goto(i, from, "leaving")
  BY DEF ConnectionLost
<1>2. Moves(i, from, "leaving") /\ tpc' \in [Logins -> ThreadPC] /\ tpc[i] = from /\ ui # "crashed"
  BY <1>1, GotoMoves DEF ThreadPC, Moves
<1>3. UNCHANGED <<env, ui, caller, page, label, resID, resPass, m_XmppThread, makers, readID,
                  clientRes, bound, logins, verdicts, attempted, accepted, leftAt>>
      /\ state' = "disconnected" /\ queue' = queue \o Each("cancel")
  BY DEF ConnectionLost, uiVars, resVars, historyVars
<1>4. /\ i <= logins /\ logins # 0
  BY <1>2, Started DEF Over
<1>5. Made' = Made /\ makers # {}
  BY <1>2, MadeGrows DEF Starting, Made, Moves, ClientInv
<1>6. /\ queue' \in Seq(Messages) /\ queue' # <<>>
      /\ \A k \in DOMAIN queue' :
           \/ k \in DOMAIN queue /\ queue'[k] = queue[k]
           \/ queue'[k] = "cancel"
  BY <1>3, <1>5, Posted, BoundsAssumption DEF TypeOK, Messages
<1>7. TypeOK'
  BY <1>2, <1>3, <1>6 DEF TypeOK
<1>8. QueueInv'
  BY <1>3, <1>5, <1>6 DEF QueueInv, Buttons, InitMsgs
<1>9. PageInv' /\ CrashIsInDisConnect' /\ PendingInv'
  BY <1>2, <1>3, <1>6 DEF PageInv, CrashIsInDisConnect, PendingInv
<1>10. ClientInv'
  BY <1>2, <1>3, <1>5, Started DEF ClientInv, Moves, Over, TypeOK
<1>11. LeftInv' /\ MakersInv' /\ ResourceInv' /\ SuccessInv'
  <2>1. LeftInv' /\ LeftKept
    BY <1>2, <1>3, LeftMoves DEF Over
  <2>2. Making' \subseteq Making
    BY <1>2, <1>3 DEF Making, Moves
  <2> QED BY <1>2, <1>3, <1>6, <2>1, <2>2, ThreadQuiet DEF Given, Bound
<1> QED BY <1>7, <1>8, <1>9, <1>10, <1>11

\* A thread that leaves, or is gone, leaves no one alone: a connection that DisConnect
\* has closed is not one that a login is waiting for.
LEMMA LeaveInv == ASSUME IInv, NEW i \in Logins, ReceiveEnds(i) \/ ThreadEnds(i) PROVE IInv'
<1> USE DEF IInv
<1>1. PICK from \in {"connected", "online", "leaving"}, to \in {"leaving", "ended"} :
        /\ Goto(i, from, to)
        /\ from # "leaving" => state = "disconnected"
        /\ from = "leaving" => to = "ended"
  BY DEF ReceiveEnds, ThreadEnds
<1>2. Moves(i, from, to) /\ tpc' \in [Logins -> ThreadPC] /\ tpc[i] = from /\ ui # "crashed"
  BY <1>1, GotoMoves DEF ThreadPC, Moves
<1>3. UNCHANGED <<env, ui, caller, page, label, queue, resID, resPass, m_XmppThread, makers, readID, state,
                  clientRes, bound, logins, verdicts, attempted, accepted, leftAt>>
  BY DEF ReceiveEnds, ThreadEnds, uiVars, resVars, clientVars, historyVars
<1>4. /\ i <= logins /\ logins # 0
  BY <1>2, Started DEF Over
<1>5. Made' = Made
  BY <1>2, MadeGrows DEF Starting, Made, Moves
<1>6. TypeOK'
  BY <1>2, <1>3 DEF TypeOK
<1>7. QueueInv' /\ PageInv' /\ CrashIsInDisConnect'
  BY <1>2, <1>3 DEF QueueInv, PageInv, CrashIsInDisConnect
<1>8. ClientInv'
  BY <1>1, <1>2, <1>3, <1>5, Started DEF ClientInv, Moves, Over, TypeOK
<1>9. PendingInv'
  BY <1>2, <1>3 DEF PendingInv, PageInv, Moves, TypeOK, Logins
<1>10. LeftInv' /\ MakersInv' /\ ResourceInv' /\ SuccessInv'
  <2>1. LeftInv' /\ LeftKept
    BY <1>1, <1>2, <1>3, LeftMoves DEF Over
  <2>2. Making' \subseteq Making
    BY <1>1, <1>2, <1>3 DEF Making, Moves
  <2> QED BY <1>2, <1>3, <2>1, <2>2, ThreadQuiet DEF Given, Bound, Moves
<1> QED BY <1>6, <1>7, <1>8, <1>9, <1>10

------------------------------------------------------------------------------
(* The theorems.                                                           *)

LEMMA NextInv == IInv /\ [Next]_vars => IInv'
<1> SUFFICES ASSUME IInv, [Next]_vars PROVE IInv'
  OBVIOUS
<1>1. CASE EnvStartUp \/ \E button \in Buttons : Click(button)
  BY <1>1, EnvStartUpInv, ClickInv
<1>2. CASE UIStep
  BY <1>2, OnInitMsgInv, OnClickCloseInv, OnClickULoginInv, OnClickLoginInv,
     SetResPassInv, ConnectInv, OnClickLastInv, OnXmppMsgInv, JoinInv DEF UIStep
<1>3. ASSUME NEW i \in Logins, ThreadStep(i) PROVE IInv'
  BY <1>3, ReadResIDInv, SetClientInv, CheckManagersInv, MakeManagersInv, OpenConnectionInv, BoxDismissedInv,
     LeaveInv DEF ThreadStep
<1>4. ASSUME NEW i \in Logins, ServerStep(i) PROVE IInv'
  BY <1>4, ServerReachedInv, AuthenticatedInv, HandleLoginInv, ConnectionLostInv DEF ServerStep
<1>5. CASE UNCHANGED vars
  <2>1. UNCHANGED <<env, ui, caller, page, label, queue, resID, resPass, m_XmppThread, makers, readID, tpc,
                    state, clientRes, bound, logins, verdicts, attempted, accepted, leftAt>>
    BY <1>5 DEF vars, uiVars, resVars, clientVars, historyVars
  <2>2. TypeOK'
    BY <2>1 DEF IInv, TypeOK
  <2>3. QueueInv' /\ PageInv' /\ CrashIsInDisConnect' /\ PendingInv'
    BY <2>1 DEF IInv, QueueInv, PageInv, CrashIsInDisConnect, PendingInv
  <2>4. ClientInv'
    BY <2>1 DEF IInv, ClientInv, Made
  <2>5. LeftInv' /\ LeftKept /\ Making' = Making /\ Making \subseteq Logins
    BY <2>1 DEF IInv, LeftInv, Running, LeftKept, Making
  <2>6. MakersInv' /\ ResourceInv' /\ SuccessInv'
    BY <2>1, <2>5, QuietInv
  <2> QED BY <2>2, <2>3, <2>4, <2>5, <2>6 DEF IInv
<1> QED BY <1>1, <1>2, <1>3, <1>4, <1>5 DEF Next

LEMMA Inductive == Spec => []IInv
BY InitInv, NextInv, PTL DEF Spec

\* Every variable keeps its type: m_XmppThread is NULL or the handle of a login that was
\* made, and only logins that were made have registered managers.
THEOREM TypeCorrect == Spec => []TypeOK
<1>1. IInv => TypeOK
  BY DEF IInv
<1> QED BY <1>1, Inductive, PTL

\* The user who reads "logging in" is not forgotten, whether logins overlap or not.
THEOREM NotForgotten == Spec => []NeverLeftWaiting
<1>1. IInv => NeverLeftWaiting
  <2> SUFFICES ASSUME IInv, ui = "idle", page = 3, label = "logInit", queue = <<>>,
                      tpc[logins] # "failed"
               PROVE  \E i \in Logins : Running(i)
    BY DEF NeverLeftWaiting
  <2>1. logins \in Logins
    BY DEF IInv, PageInv, TypeOK, Logins
  <2>2. \/ tpc[logins] \in {"created", "reading", "check", "make", "connect"}
        \/ state \in {"connecting", "connected"}
    BY DEF IInv, PendingInv
  <2> QED BY <2>1, <2>2 DEF IInv, ClientInv, Running
<1> QED BY <1>1, Inductive, PTL

\* The UI thread crashes in DisConnect only, and there in two ways only.
THEOREM CrashesInDisConnect == Spec => []CrashIsInDisConnect
<1>1. IInv => CrashIsInDisConnect
  BY DEF IInv
<1> QED BY <1>1, Inductive, PTL

\* However many logins there are: of two whose managers are registered with the client,
\* the first was left before it had them.
THEOREM OneRegistration == Spec => []RegisteredOnce
<1>1. IInv => RegisteredOnce
  BY DEF IInv, MakersInv, Making, RegisteredOnce, TypeOK
<1> QED BY <1>1, Inductive, PTL

\* However many logins there are: the session is of the one asked for last, or of one the
\* user has left, with both halves of its resource unless a login was left before it had
\* read the resource.
THEOREM SessionAsAsked == Spec => []SessionIsTheOneAsked
<1>1. IInv => SessionIsTheOneAsked
  <2> SUFFICES ASSUME IInv, NEW i \in Logins, tpc[i] \in {"box", "online"},
                      \A j \in Logins : leftAt[j] # "resource"
               PROVE  \E n \in i .. logins : bound = <<n, n>> /\ (n # logins => leftAt[i] # "none")
    BY DEF SessionIsTheOneAsked
  <2>1. PICK n \in i .. logins : bound = <<n, n>>
    BY DEF IInv, ResourceInv, Bound, FromOn
  <2>2. leftAt[i] = "none" => i = logins
    BY DEF IInv, LeftInv, Running
  <2> QED BY <2>1, <2>2 DEF IInv, TypeOK, Logins
<1> QED BY <1>1, Inductive, PTL

\* "Login succeeded" is shown only for a resource that the server has accepted, of the
\* last login or of one since the user first left one under way.
THEOREM SuccessTold == Spec => []SuccessIsTrue
<1>1. IInv => SuccessIsTrue
  BY DEF IInv, SuccessInv, SuccessIsTrue
<1> QED BY <1>1, Inductive, PTL
==============================================================================
