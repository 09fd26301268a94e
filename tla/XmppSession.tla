----------------------------- MODULE XmppSession -----------------------------
(***************************************************************************)
(* Logging in and out: the dialog (CCellViewDlg, the UI thread), the       *)
(* CXmppInstance it shares with one xmpp thread per login, the motion that *)
(* posts what the xmpp threads hear to the dialog, and the gloox client    *)
(* (external) as far as those use it.                                      *)
(*                                                                         *)
(* The n-th login is called n: its ID and its password are both n, so that *)
(* a resource made of two logins' halves can be told from a good one.      *)
(***************************************************************************)
EXTENDS Naturals, Sequences, FiniteSets

CONSTANTS MaxLogins,     \* bound: how often the user asks for a login
          MaxUnderWay,   \* bound: how many of them are under way at a time
          MaxVerdicts,   \* bound: USERLOGIN answers the server sends
          ClosePages     \* bound: the pages on which the user closes the dialog

ASSUME BoundsAssumption == /\ MaxLogins \in Nat \ {0}
                           /\ MaxUnderWay \in Nat \ {0}
                           /\ MaxVerdicts \in Nat
                           /\ ClosePages \subseteq 0 .. 3

Logins == 1 .. MaxLogins

VARIABLES
  env,            \* the EnvStartUp thread
  \* the dialog
  ui,             \* where the UI thread is
  caller,         \* the handler DisConnect was called from
  page,           \* m_ctrls: 0 start, 1 choice, 2 ID and password, 3 information
  label,          \* the text SetWindowInfo set last
  queue,          \* messages posted to the dialog
  \* CXmppInstance
  resID, resPass, \* m_JID's m_Res_ID and m_Res_Pass
  m_XmppThread,   \* the thread of the last Connect; 0 is NULL
  makers,         \* the logins whose thread has registered a set of managers
  tpc,            \* where each login's xmpp thread is
  readID,         \* the ID each thread has read of the resource
  \* the gloox client
  state,          \* "null" while m_client is NULL, else what state() returns
  clientRes,      \* the resource the client has been given: <<ID, password>>
  bound,          \* the resource of the session, from authentication on
  \* bounds and history
  logins,         \* logins asked for
  verdicts,       \* answers the server has sent
  attempted,      \* logins whose thread opened a connection
  accepted,       \* resources the server has accepted
  leftAt          \* what each login's thread still had to get when the user left it

uiVars      == <<ui, caller, page, label>>
resVars     == <<resID, resPass>>
clientVars  == <<state, clientRes, bound>>
historyVars == <<attempted, accepted, leftAt>>
vars == <<env, uiVars, queue, resVars, m_XmppThread, makers, tpc, readID, clientVars,
          logins, verdicts, historyVars>>

Buttons == {"ulogin", "guest", "next", "last", "close"}
Messages == Buttons \cup {"initOk", "initFail", "success", "failure", "cancel"}
Labels == {"initS", "initErr", "logInit", "logS", "logF"}
ThreadPC == {"none", "failed", "created", "reading", "check", "make", "connect", "connecting",
             "connected", "box", "online", "leaving", "ended"}
LeftAt == {"none", "resource", "managers", "connection"}
Resources == (0 .. MaxLogins) \X (0 .. MaxLogins)

TypeOK ==
  /\ env \in {"running", "done"}
  /\ ui \in {"idle", "resource", "connect", "joining", "waiting", "closed", "crashed"}
  /\ caller \in {"none", "last", "msg"}
  /\ page \in 0 .. 3
  /\ label \in Labels
  /\ queue \in Seq(Messages)
  /\ resID \in 0 .. MaxLogins
  /\ resPass \in 0 .. MaxLogins
  /\ m_XmppThread \in 0 .. MaxLogins
  /\ makers \subseteq Logins
  /\ tpc \in [Logins -> ThreadPC]
  /\ readID \in [Logins -> 0 .. MaxLogins]
  /\ state \in {"null", "disconnected", "connecting", "connected"}
  /\ clientRes \in Resources
  /\ bound \in Resources
  /\ logins \in 0 .. MaxLogins
  /\ verdicts \in 0 .. MaxVerdicts
  /\ attempted \subseteq Logins
  /\ accepted \subseteq Resources
  /\ leftAt \in [Logins -> LeftAt]

\* OnInitDialog has started EnvStartUp and shows page 0.
Init ==
  /\ env = "running"
  /\ ui = "idle"
  /\ caller = "none"
  /\ page = 0
  /\ label = "initS"
  /\ queue = <<>>
  /\ resID = 0
  /\ resPass = 0
  /\ m_XmppThread = 0
  /\ makers = {}
  /\ tpc = [i \in Logins |-> "none"]
  /\ readID = [i \in Logins |-> 0]
  /\ state = "null"
  /\ clientRes = <<0, 0>>
  /\ bound = <<0, 0>>
  /\ logins = 0
  /\ verdicts = 0
  /\ attempted = {}
  /\ accepted = {}
  /\ leftAt = [i \in Logins |-> "none"]

Alive == ui \notin {"closed", "crashed"}

\* An xmpp thread that has neither returned from connect() nor failed to start.
Running(i) == tpc[i] \notin {"none", "failed", "leaving", "ended"}

\* The logins whose thread is not over.
UnderWay == {i \in Logins : tpc[i] \notin {"none", "failed", "ended"}}

\* What every registered CCellConnection, or CCellIqManager, posts for one event.
Each(msg) == [k \in 1 .. Cardinality(makers) |-> msg]

------------------------------------------------------------------------------
(* Messages posted to the dialog by others.                                *)

\* The environment is loaded, or something is missing from config.ini.
EnvStartUp ==
  /\ Alive
  /\ env = "running"
  /\ env' = "done"
  /\ \E msg \in {"initOk", "initFail"} : queue' = Append(queue, msg)
  /\ UNCHANGED <<uiVars, resVars, m_XmppThread, makers, tpc, readID, clientVars, logins,
                 verdicts, historyVars>>

\* The buttons of each page.
OnPage == [p \in 0 .. 3 |-> CASE p = 0 -> {"close"}
                              [] p = 1 -> {"close", "ulogin", "guest"}
                              [] p = 2 -> {"close", "last", "next"}
                              [] p = 3 -> {"close", "last"}]

\* A click on a control posts WM_XBTN_CLICK.  Windows hands out the mouse's
\* messages only when no posted message is left.
Click(button) ==
  /\ ui = "idle"
  /\ queue = <<>>
  /\ button \in OnPage[page]
  /\ button = "close" => page \in ClosePages
  /\ button \in {"next", "guest"} =>
       logins < MaxLogins /\ Cardinality(UnderWay) < MaxUnderWay
  /\ queue' = <<button>>
  /\ UNCHANGED <<env, uiVars, resVars, m_XmppThread, makers, tpc, readID, clientVars,
                 logins, verdicts, historyVars>>

------------------------------------------------------------------------------
(* The dialog's handlers.                                                  *)

\* The UI thread takes message msg from its queue.
Receive(msg) ==
  /\ ui = "idle"
  /\ queue # <<>>
  /\ Head(queue) = msg

OnInitMsg ==
  /\ \/ /\ Receive("initFail")
        /\ label' = "initErr"
        /\ UNCHANGED page
     \/ /\ Receive("initOk")
        /\ page' = 1
        /\ UNCHANGED label
  /\ queue' = Tail(queue)
  /\ UNCHANGED <<env, ui, caller, resVars, m_XmppThread, makers, tpc, readID, clientVars,
                 logins, verdicts, historyVars>>

OnClickClose ==
  /\ Receive("close")
  /\ ui' = "closed"
  /\ queue' = Tail(queue)
  /\ UNCHANGED <<env, caller, page, label, resVars, m_XmppThread, makers, tpc, readID,
                 clientVars, logins, verdicts, historyVars>>

OnClickULogin ==
  /\ Receive("ulogin")
  /\ page' = 2
  /\ queue' = Tail(queue)
  /\ UNCHANGED <<env, ui, caller, label, resVars, m_XmppThread, makers, tpc, readID,
                 clientVars, logins, verdicts, historyVars>>

\* OnClickNext and OnClickGstLogin: the information page, then SetJidResource
\* (the ID, then the password), then Connect.
OnClickLogin ==
  /\ Receive("next") \/ Receive("guest")
  /\ label' = "logInit"
  /\ page' = 3
  /\ logins' = logins + 1
  /\ resID' = logins + 1
  /\ ui' = "resource"
  /\ queue' = Tail(queue)
  /\ UNCHANGED <<env, caller, resPass, m_XmppThread, makers, tpc, readID, clientVars,
                 verdicts, historyVars>>

SetResPass ==
  /\ ui = "resource"
  /\ resPass' = logins
  /\ ui' = "connect"
  /\ UNCHANGED <<env, caller, page, label, queue, resID, m_XmppThread, makers, tpc, readID,
                 clientVars, logins, verdicts, historyVars>>

\* AfxBeginThread starts the xmpp thread, or fails and returns NULL.
Connect ==
  /\ ui = "connect"
  /\ \/ tpc' = [tpc EXCEPT ![logins] = "created"] /\ m_XmppThread' = logins
     \/ tpc' = [tpc EXCEPT ![logins] = "failed"]  /\ m_XmppThread' = 0
  /\ ui' = "idle"
  /\ UNCHANGED <<env, caller, page, label, queue, resVars, makers, readID, clientVars,
                 logins, verdicts, historyVars>>

\* The user leaves the threads under way that he has not left before.
LeftUnderWay ==
  [i \in Logins |-> IF leftAt[i] # "none" \/ ~Running(i) THEN leftAt[i]
                    ELSE IF tpc[i] \in {"created", "reading"} THEN "resource"
                    ELSE IF tpc[i] \in {"check", "make"} THEN "managers"
                    ELSE "connection"]

\* Mutant of DisConnect: the client is not told to disconnect.
DisConnectNot(c, back) ==
  /\ queue' = Tail(queue)
  /\ \/ /\ state = "null"
        /\ ui' = "crashed"
        /\ UNCHANGED <<caller, page, leftAt>>
     \/ /\ state \in {"disconnected", "connecting"}
        /\ page' = back
        /\ leftAt' = LeftUnderWay
        /\ UNCHANGED <<ui, caller>>
     \/ /\ state = "connected"
        /\ caller' = c
        /\ ui' = "joining"
        /\ UNCHANGED <<page, leftAt>>
  /\ UNCHANGED state

\* DisConnect up to the read of m_XmppThread, called from handler c.  It reads
\* m_client->state() before it tests m_client, and leaves the login alone unless
\* the client is connected.  back is the page the caller shows after it.
DisConnect(c, back) ==
  \/ /\ state = "null"
     /\ ui' = "crashed"
     /\ queue' = Tail(queue)
     /\ UNCHANGED <<caller, page, state, leftAt>>
  \/ /\ state \in {"disconnected", "connecting"}
     /\ page' = back
     /\ queue' = Tail(queue)
     /\ leftAt' = LeftUnderWay
     /\ UNCHANGED <<ui, caller, state>>
  \/ /\ state = "connected"
     /\ state' = "disconnected"
     /\ queue' = Tail(queue) \o Each("cancel")
     /\ caller' = c
     /\ ui' = "joining"
     /\ UNCHANGED <<page, leftAt>>

\* Mutant of OnClickLast: DisConnect on the ID page, too.
OnClickLastAnyPage ==
  /\ Receive("last")
  /\ DisConnect("last", page - 1)
  /\ UNCHANGED <<env, label, resVars, m_XmppThread, makers, tpc, readID, clientRes, bound,
                 logins, verdicts, attempted, accepted>>

\* Back from the ID page to the choice page, or out of a session.
OnClickLast ==
  /\ Receive("last")
  /\ \/ /\ page = 2
        /\ page' = 1
        /\ queue' = Tail(queue)
        /\ UNCHANGED <<ui, caller, state, leftAt>>
     \/ /\ page # 2
        /\ DisConnect("last", 2)
  /\ UNCHANGED <<env, label, resVars, m_XmppThread, makers, tpc, readID, clientRes, bound,
                 logins, verdicts, attempted, accepted>>

\* OnXmppMsg for USERLOGIN: a refused login is also disconnected.
OnXmppMsg ==
  /\ \/ /\ Receive("success")
        /\ label' = "logS"
        /\ queue' = Tail(queue)
        /\ UNCHANGED <<ui, caller, page, state, leftAt>>
     \/ /\ Receive("cancel")
        /\ label' = "logF"
        /\ queue' = Tail(queue)
        /\ UNCHANGED <<ui, caller, page, state, leftAt>>
     \/ /\ Receive("failure")
        /\ label' = "logF"
        /\ DisConnect("msg", page)
  /\ UNCHANGED <<env, resVars, m_XmppThread, makers, tpc, readID, clientRes, bound, logins,
                 verdicts, attempted, accepted>>

\* What DisConnect's caller still does.
DisConnected ==
  /\ m_XmppThread' = 0
  /\ page' = IF caller = "last" THEN 2 ELSE page
  /\ caller' = "none"
  /\ ui' = "idle"

\* m_XmppThread->m_hThread.  MFC has deleted the CWinThread of a thread that has
\* ended: the read is undefined, and the wait fails at once or the program ends.
ReadThreadHandle ==
  /\ ui = "joining"
  /\ \/ /\ m_XmppThread = 0
        /\ DisConnected
     \/ /\ m_XmppThread # 0
        /\ tpc[m_XmppThread] # "ended"
        /\ ui' = "waiting"
        /\ UNCHANGED <<m_XmppThread, page, caller>>
     \/ /\ m_XmppThread # 0
        /\ tpc[m_XmppThread] = "ended"
        /\ \/ DisConnected
           \/ ui' = "crashed" /\ UNCHANGED <<m_XmppThread, page, caller>>
  /\ UNCHANGED <<env, label, queue, resVars, makers, tpc, readID, clientVars, logins,
                 verdicts, historyVars>>

\* WaitForSingleObject(.., INFINITE) returns when the thread has ended.
ThreadJoined ==
  /\ ui = "waiting"
  /\ tpc[m_XmppThread] = "ended"
  /\ DisConnected
  /\ UNCHANGED <<env, label, queue, resVars, makers, tpc, readID, clientVars, logins,
                 verdicts, historyVars>>

------------------------------------------------------------------------------
(* An xmpp thread: runConnect and, inside connect(), the client (external).*)

\* Thread i goes from one place to another while the program lives.
Goto(i, from, to) ==
  /\ Alive
  /\ tpc[i] = from
  /\ tpc' = [tpc EXCEPT ![i] = to]

\* JID() or Resource() copies the ID, and then the password, of the resource.
ReadResID(i) ==
  /\ Goto(i, "created", "reading")
  /\ readID' = [readID EXCEPT ![i] = resID]
  /\ UNCHANGED <<env, uiVars, queue, resVars, m_XmppThread, makers, clientVars, logins,
                 verdicts, historyVars>>

\* Mutant of SetClient: a client that exists keeps the resource it has.
SetClientOnce(i) ==
  /\ Goto(i, "reading", "check")
  /\ clientRes' = IF state = "null" THEN <<readID[i], resPass>> ELSE clientRes
  /\ state' = IF state = "null" THEN "disconnected" ELSE state
  /\ UNCHANGED <<env, uiVars, queue, resVars, m_XmppThread, makers, readID, bound, logins,
                 verdicts, historyVars>>

\* The client is created with the JID, or given the JID's resource.
SetClient(i) ==
  /\ Goto(i, "reading", "check")
  /\ clientRes' = <<readID[i], resPass>>
  /\ readID' = [readID EXCEPT ![i] = 0]
  /\ state' = IF state = "null" THEN "disconnected" ELSE state
  /\ UNCHANGED <<env, uiVars, queue, resVars, m_XmppThread, makers, bound, logins,
                 verdicts, historyVars>>

\* Mutant of CheckManagers: no test for managers that are already there.
CheckManagersNever(i) ==
  /\ Goto(i, "check", "make")
  /\ UNCHANGED <<env, uiVars, queue, resVars, m_XmppThread, makers, readID, clientVars,
                 logins, verdicts, historyVars>>

\* The tests of m_motion, m_ConnMgr, m_IqManager and m_TaskMgr, taken together.
CheckManagers(i) ==
  /\ Goto(i, "check", IF makers = {} THEN "make" ELSE "connect")
  /\ UNCHANGED <<env, uiVars, queue, resVars, m_XmppThread, makers, readID, clientVars,
                 logins, verdicts, historyVars>>

\* A motion, a CCellConnection and a CCellIqManager registered with the client,
\* and a CTaskManager running.
MakeManagers(i) ==
  /\ Goto(i, "make", "connect")
  /\ makers' = makers \cup {i}
  /\ UNCHANGED <<env, uiVars, queue, resVars, m_XmppThread, readID, clientVars, logins,
                 verdicts, historyVars>>

\* connect(true) opens a connection, or returns at once if one is open or opening.
OpenConnection(i) ==
  /\ \/ /\ state = "disconnected"
        /\ Goto(i, "connect", "connecting")
        /\ state' = "connecting"
        /\ attempted' = attempted \cup {i}
     \/ /\ state # "disconnected"
        /\ Goto(i, "connect", "leaving")
        /\ UNCHANGED <<state, attempted>>
  /\ UNCHANGED <<env, uiVars, queue, resVars, m_XmppThread, makers, readID, clientRes,
                 bound, logins, verdicts, accepted, leftAt>>

\* The server is reached.
ServerReached(i) ==
  /\ state = "connecting"
  /\ Goto(i, "connecting", "connected")
  /\ state' = "connected"
  /\ UNCHANGED <<env, uiVars, queue, resVars, m_XmppThread, makers, readID, clientRes,
                 bound, logins, verdicts, historyVars>>

\* Authentication binds the client's resource; CViewMotion::handleConnected
\* stops the xmpp thread in a message box.
Authenticated(i) ==
  /\ state = "connected"
  /\ Goto(i, "connected", "box")
  /\ bound' = clientRes
  /\ UNCHANGED <<env, uiVars, queue, resVars, m_XmppThread, makers, readID, state,
                 clientRes, logins, verdicts, historyVars>>

BoxDismissed(i) ==
  /\ Goto(i, "box", "online")
  /\ UNCHANGED <<env, uiVars, queue, resVars, m_XmppThread, makers, readID, clientVars,
                 logins, verdicts, historyVars>>

\* Mutant of HandleLogin: the verdict is not looked at.
HandleLoginAnyway(i) ==
  /\ Alive
  /\ tpc[i] = "online"
  /\ state = "connected"
  /\ verdicts < MaxVerdicts
  /\ verdicts' = verdicts + 1
  /\ queue' = queue \o Each("success")
  /\ accepted' \in {accepted, accepted \cup {bound}}
  /\ UNCHANGED <<env, uiVars, resVars, m_XmppThread, makers, tpc, readID, clientVars,
                 logins, attempted, leftAt>>

\* The server's USERLOGIN reaches CViewMotion::handleLogin.
HandleLogin(i) ==
  /\ Alive
  /\ tpc[i] = "online"
  /\ state = "connected"
  /\ verdicts < MaxVerdicts
  /\ verdicts' = verdicts + 1
  /\ \/ queue' = queue \o Each("success") /\ accepted' = accepted \cup {bound}
     \/ queue' = queue \o Each("failure") /\ UNCHANGED accepted
  /\ UNCHANGED <<env, uiVars, resVars, m_XmppThread, makers, tpc, readID, clientVars,
                 logins, attempted, leftAt>>

\* Mutant of ConnectionLost: onDisconnect tells nobody.
ConnectionLostSilently(i) ==
  /\ state \in {"connecting", "connected"}
  /\ \E from \in {"connecting", "connected", "online"} : Goto(i, from, "leaving")
  /\ state' = "disconnected"
  /\ UNCHANGED <<env, uiVars, queue, resVars, m_XmppThread, makers, readID, clientRes,
                 bound, logins, verdicts, historyVars>>

\* The server cannot be reached, refuses the account or closes the connection:
\* onDisconnect, and CViewMotion::handleDisConnected posts Act_Cancel.
ConnectionLost(i) ==
  /\ state \in {"connecting", "connected"}
  /\ \E from \in {"connecting", "connected", "online"} : Goto(i, from, "leaving")
  /\ state' = "disconnected"
  /\ queue' = queue \o Each("cancel")
  /\ UNCHANGED <<env, uiVars, resVars, m_XmppThread, makers, readID, clientRes, bound,
                 logins, verdicts, historyVars>>

\* The receiving loop finds the connection closed by DisConnect.
ReceiveEnds(i) ==
  /\ state = "disconnected"
  /\ \E from \in {"connected", "online"} : Goto(i, from, "leaving")
  /\ UNCHANGED <<env, uiVars, queue, resVars, m_XmppThread, makers, readID, clientVars,
                 logins, verdicts, historyVars>>

\* ThreadProc returns; MFC deletes the CWinThread.
ThreadEnds(i) ==
  /\ Goto(i, "leaving", "ended")
  /\ UNCHANGED <<env, uiVars, queue, resVars, m_XmppThread, makers, readID, clientVars,
                 logins, verdicts, historyVars>>

------------------------------------------------------------------------------
UIStep == \/ OnInitMsg \/ OnClickClose \/ OnClickULogin \/ OnClickLogin
          \/ SetResPass \/ Connect \/ OnClickLast \/ OnXmppMsg \/ ReadThreadHandle
          \/ ThreadJoined

\* What thread i does by itself, once the user has dismissed the message box.
ThreadStep(i) == \/ ReadResID(i) \/ SetClient(i) \/ CheckManagers(i) \/ MakeManagers(i)
                 \/ OpenConnection(i) \/ BoxDismissed(i) \/ ReceiveEnds(i)
                 \/ ThreadEnds(i)

\* What the network and the server do.
ServerStep(i) == \/ ServerReached(i) \/ Authenticated(i) \/ HandleLogin(i)
                 \/ ConnectionLost(i)

Next == \/ EnvStartUp
        \/ \E button \in Buttons : Click(button)
        \/ UIStep
        \/ \E i \in Logins : ThreadStep(i) \/ ServerStep(i)

Spec == Init /\ [][Next]_vars

\* The threads run, and the user dismisses the message box some time.  Nothing
\* is assumed of the server.
Fairness == WF_vars(UIStep) /\ \A i \in Logins : WF_vars(ThreadStep(i))

FairSpec == Spec /\ Fairness
------------------------------------------------------------------------------
(* Properties.                                                             *)

\* The user who reads "logging in" is not forgotten: with nothing left for the
\* dialog to read, some xmpp thread is still at it, unless Windows had no thread
\* to give to the login.
NeverLeftWaiting ==
  (ui = "idle" /\ page = 3 /\ label = "logInit" /\ queue = <<>>)
    => (\E i \in Logins : Running(i)) \/ tpc[logins] = "failed"

\* The UI thread goes astray only in two ways, both in DisConnect: before the first
\* xmpp thread has made a client, when Back is pressed on the information page at
\* "logging in"; or, when the thread whose handle it reads has ended, after it has
\* ended a session that a login had reached.
CrashIsInDisConnect ==
  ui = "crashed" =>
    \/ state = "null" /\ page = 3 /\ label = "logInit" /\ attempted = {}
    \/ caller # "none" /\ attempted # {} /\ m_XmppThread \in Logins

\* Managers are registered twice with the client, so that what the server says is
\* handled twice, only when the user has left a login before it had its managers.
RegisteredOnce == \A i, j \in makers : i < j => leftAt[i] \in {"resource", "managers"}

\* The session that comes up is of a login asked for, the last one unless the user
\* has left the thread it is of; and it has both halves of that login's resource,
\* unless the user has left a login before it had read the resource.
SessionIsTheOneAsked ==
  \A i \in Logins : tpc[i] \in {"box", "online"} =>
    \/ \E j \in Logins : leftAt[j] = "resource"
    \/ \E n \in i .. logins : /\ bound = <<n, n>>
                              /\ n # logins => leftAt[i] # "none"

\* The user has left no login before login f under way.
NoneLeftBefore(f) == \A i \in 1 .. f - 1 : leftAt[i] = "none"

\* A resource of the last login, or of one since the user first left one under way.
Recent(resource) ==
  \A f \in 1 .. logins : NoneLeftBefore(f) => resource \in (f .. logins) \X (f .. logins)

\* "Login succeeded" is shown only for a resource that the server has accepted: the
\* last login's, unless the user has left a login under way; and then of no login
\* asked for before that one.
SuccessIsTrue == (page = 3 /\ label = "logS") => \E r \in accepted : Recent(r)

\* The UI thread does not wait for ever for an xmpp thread that DisConnect has told
\* to end, unless the user has left a login under way.
WaitEnds ==
  (ui = "waiting" /\ \A j \in Logins : leftAt[j] = "none") ~> ui # "waiting"

\* "do login xmpp" and "start xmpp recv thread" (CellView/CellViewDlg.cpp:560 and
\* 563): the thread that a login starts opens a connection for it.  The code
\* breaks it: DisConnect leaves a login that is still connecting alone, and the
\* next login's connect() finds the client busy and returns at once.
LoginIsMade == \A i \in Logins : tpc[i] = "ended" => i \in attempted
==============================================================================
