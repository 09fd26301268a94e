------------------------------ MODULE IqService ------------------------------
(***************************************************************************)
(* From an IQ to its answer: CCellIqManager::handleIq in the xmpp thread   *)
(* turns an IQ into a message, CViewMotion turns the message into a task,  *)
(* the task manager's worker does the task, posts its progress to the      *)
(* dialog and, in WorkEnd, sends the answer through whatever session the   *)
(* client has by then.                                                     *)
(*                                                                         *)
(* The task manager is what it promises to be (TaskQueue, which            *)
(* TaskManager implements), and one set of managers is registered with the *)
(* client: RegisteredOnce of XmppSession says when there are two, which    *)
(* would handle each IQ twice.                                             *)
(***************************************************************************)
EXTENDS Naturals, Sequences, FiniteSets, SequencesExt

CONSTANTS Ids,           \* ids of IQs; each is used once
          Kinds,         \* the payloads sent, some of AllKinds
          Subtypes,      \* the IQ types sent, some of AllSubtypes
          MaxSessions    \* bound: how often the client comes online

AllKinds == {"userlogin", "docdown", "docplay", "sccut", "sencectrl", "senceupdate"}
AllSubtypes == {"get", "set", "result", "error"}
TaskKinds == {"docdown", "docplay", "sccut"}

ASSUME KindsAssumption == Kinds \subseteq AllKinds /\ Subtypes \subseteq AllSubtypes
ASSUME SessionsAssumption == MaxSessions \in Nat \ {0}

\* An IQ: empty says that it names no document, or no screenshot; session is the
\* one it arrived in.
Iqs == [id : Ids, kind : Kinds, subtype : Subtypes, empty : BOOLEAN,
        session : 1 .. MaxSessions]

\* An answer: what IQ it answers, its type, and the session it leaves in.
Answers == [id : Ids, type : {"result", "error"}, session : 1 .. MaxSessions]

VARIABLES
  online,       \* does the client have a session?
  session,      \* how many sessions it has had
  handled,      \* IQs handled, in that order
  pending, ended, broken,       \* the task manager
  wpc,          \* where the worker is in the first pending task
  worked,       \* what that task's Work has returned
  done,         \* history: ids of the IQs whose task has really been done
  sent,         \* answers sent, in that order
  lost,         \* ids of answers that WorkEnd sent while there was no session
  posted,       \* messages posted to the dialog
  label         \* what the dialog's label tells about tasks

taskVars == <<pending, ended, broken>>
workVars == <<wpc, worked, done>>
sendVars == <<sent, lost>>
vars == <<online, session, handled, taskVars, workVars, sendVars, posted, label>>

Tasks == INSTANCE TaskQueue WITH Tasks <- Iqs

TypeOK ==
  /\ online \in BOOLEAN
  /\ session \in 0 .. MaxSessions
  /\ handled \in Seq(Iqs)
  /\ pending \in Seq(Iqs)
  /\ ended \in Seq(Iqs)
  /\ broken \in BOOLEAN
  /\ wpc \in {"idle", "working", "worked", "stuck", "undefined"}
  /\ worked \in BOOLEAN
  /\ done \subseteq Ids
  /\ sent \in Seq(Answers)
  /\ lost \subseteq Ids
  /\ posted \in Seq({"login", "begin", "success", "play"})
  /\ label \in {"other", "down", "downF"}

Init ==
  /\ online = FALSE
  /\ session = 0
  /\ handled = <<>>
  /\ Tasks!Init
  /\ wpc = "idle"
  /\ worked = FALSE
  /\ done = {}
  /\ sent = <<>>
  /\ lost = {}
  /\ posted = <<>>
  /\ label = "other"

\* The process goes on: neither the task manager nor a task has ended it.
Alive == ~broken /\ wpc # "undefined"

------------------------------------------------------------------------------
(* The session: the client comes and goes.                                 *)

Online ==
  /\ Alive
  /\ ~online
  /\ session < MaxSessions
  /\ online' = TRUE
  /\ session' = session + 1
  /\ UNCHANGED <<handled, taskVars, workVars, sendVars, posted, label>>

Offline ==
  /\ Alive
  /\ online
  /\ online' = FALSE
  /\ UNCHANGED <<session, handled, taskVars, workVars, sendVars, posted, label>>

------------------------------------------------------------------------------
(* handleIq and the motion, in the xmpp thread.                            *)

Fresh == Ids \ {handled[i].id : i \in DOMAIN handled}

\* handleIq looks at the payload alone: neither the IQ's type nor who sent it
\* makes a difference, and it always says that the IQ has been handled.
HandleIq(iq) ==
  /\ Alive
  /\ online
  /\ iq.id \in Fresh
  /\ iq.session = session
  /\ handled' = Append(handled, iq)
  /\ UNCHANGED <<online, session, workVars, sendVars, label>>

\* A user-login verdict goes to the dialog.
HandleLogin(iq) ==
  /\ iq.kind = "userlogin"
  /\ HandleIq(iq)
  /\ posted' = Append(posted, "login")
  /\ UNCHANGED taskVars

\* handleDocDown, handleDocPlay, handleScCap: one task each.
HandleTask(iq) ==
  /\ iq.kind \in TaskKinds
  /\ iq.kind = "docdown" => ~iq.empty
  /\ HandleIq(iq)
  /\ Tasks!Put(iq)
  /\ UNCHANGED posted

\* A download of no documents does not reach the motion; handleSenceCtrl and
\* handleSenceUpdate do nothing.
HandleNothing(iq) ==
  /\ \/ iq.kind = "docdown" /\ iq.empty
     \/ iq.kind \in {"sencectrl", "senceupdate"}
  /\ HandleIq(iq)
  /\ UNCHANGED <<taskVars, posted>>

------------------------------------------------------------------------------
(* The worker: Work and WorkEnd of the first pending task.                 *)

Current == Head(pending)

\* A download tells the dialog that it begins.
WorkBegin ==
  /\ Alive
  /\ wpc = "idle"
  /\ pending # <<>>
  /\ wpc' = "working"
  /\ worked' = FALSE
  /\ posted' = IF Current.kind = "docdown" THEN Append(posted, "begin") ELSE posted
  /\ UNCHANGED <<online, session, handled, taskVars, done, sendVars, label>>

\* Mutant of WorkDownload: success is posted only if every document came.
WorkDownloadHonest ==
  /\ Alive /\ wpc = "working" /\ Current.kind = "docdown"
  /\ \E ok \in BOOLEAN :
       /\ posted' = IF ok THEN Append(posted, "success") ELSE posted
       /\ done' = IF ok THEN done \cup {Current.id} ELSE done
  /\ worked' = TRUE
  /\ wpc' = "worked"
  /\ UNCHANGED <<online, session, handled, taskVars, sendVars, label>>

\* CDocDownTask::Work: whatever becomes of the documents, the dialog hears that
\* the download is over and the task succeeds.
WorkDownload ==
  /\ Alive
  /\ wpc = "working"
  /\ Current.kind = "docdown"
  /\ \E ok \in BOOLEAN : done' = IF ok THEN done \cup {Current.id} ELSE done
  /\ posted' = Append(posted, "success")
  /\ worked' = TRUE
  /\ wpc' = "worked"
  /\ UNCHANGED <<online, session, handled, taskVars, sendVars, label>>

\* A download may never come back: the server stays silent, or the rest of a document
\* does not come.
WorkHangs ==
  /\ Alive
  /\ wpc = "working"
  /\ Current.kind = "docdown"
  /\ wpc' = "stuck"
  /\ UNCHANGED <<online, session, handled, taskVars, worked, done, sendVars, posted, label>>

\* It may end the process, as a screenshot may: DocDownload and ScreenCapture tell when.
WorkAstray ==
  /\ Alive
  /\ wpc = "working"
  /\ Current.kind \in {"docdown", "sccut"}
  /\ wpc' = "undefined"
  /\ UNCHANGED <<online, session, handled, taskVars, worked, done, sendVars, posted, label>>

\* CDocPlayTask::Work: nothing to play is a failure; otherwise the program starts, of
\* which the dialog hears, or not.
WorkPlay ==
  /\ Alive
  /\ wpc = "working"
  /\ Current.kind = "docplay"
  /\ worked' \in IF Current.empty THEN {FALSE} ELSE BOOLEAN
  /\ done' = IF worked' THEN done \cup {Current.id} ELSE done
  /\ posted' = IF worked' THEN Append(posted, "play") ELSE posted
  /\ wpc' = "worked"
  /\ UNCHANGED <<online, session, handled, taskVars, sendVars, label>>

\* CScreenCapTask::Work: no file name is a failure; so is any call before the last.
\* Whether the picture was written in the end nobody looks.
WorkCapture ==
  /\ Alive
  /\ wpc = "working"
  /\ Current.kind = "sccut"
  /\ worked' \in IF Current.empty THEN {FALSE} ELSE BOOLEAN
  /\ \E written \in IF worked' THEN BOOLEAN ELSE {FALSE} :
       done' = IF written THEN done \cup {Current.id} ELSE done
  /\ wpc' = "worked"
  /\ UNCHANGED <<online, session, handled, taskVars, sendVars, posted, label>>

Answer(type) == [id |-> Current.id, type |-> type, session |-> session]

\* Mutants of WorkEnd: only what went well is answered; the answer is always a result;
\* without a session the task goes to the end of the list again.
WorkEndSuccess ==
  /\ Alive /\ wpc = "worked"
  /\ sent' = IF online /\ worked THEN Append(sent, Answer("result")) ELSE sent
  /\ lost' = IF online THEN lost ELSE lost \cup {Current.id}
  /\ wpc' = "idle"
  /\ Tasks!Finish
  /\ UNCHANGED <<online, session, handled, worked, done, posted, label>>

WorkEndAlwaysResult ==
  /\ Alive /\ wpc = "worked"
  /\ sent' = IF online THEN Append(sent, Answer("result")) ELSE sent
  /\ lost' = IF online THEN lost ELSE lost \cup {Current.id}
  /\ wpc' = "idle"
  /\ Tasks!Finish
  /\ UNCHANGED <<online, session, handled, worked, done, posted, label>>

WorkEndRetry ==
  /\ Alive /\ wpc = "worked"
  /\ sent' = IF online THEN Append(sent, Answer(IF worked THEN "result" ELSE "error"))
                       ELSE sent
  /\ wpc' = "idle"
  /\ IF online THEN Tasks!Finish
               ELSE /\ pending' = Append(Tail(pending), Current)
                    /\ UNCHANGED <<ended, broken>>
  /\ UNCHANGED <<online, session, handled, worked, done, lost, posted, label>>

\* WorkEnd answers with the id and the sender the message came with, in the
\* session the client has now; without one the client drops the answer.
WorkEnd ==
  /\ Alive
  /\ wpc = "worked"
  /\ sent' = IF online THEN Append(sent, Answer(IF worked THEN "result" ELSE "error"))
                       ELSE sent
  /\ lost' = IF online THEN lost ELSE lost \cup {Current.id}
  /\ wpc' = "idle"
  /\ Tasks!Finish
  /\ UNCHANGED <<online, session, handled, worked, done, posted, label>>

\* The task manager may fail when it has nothing to do.
ManagerBreaks ==
  /\ wpc = "idle"
  /\ Tasks!Break
  /\ UNCHANGED <<online, session, handled, workVars, sendVars, posted, label>>

------------------------------------------------------------------------------
(* The dialog.                                                             *)

\* OnTaskMsg and OnXmppMsg: a download's begin and end have texts of their own,
\* the "play" that CDocPlayTask posts has none.
OnMessage ==
  /\ Alive
  /\ posted # <<>>
  /\ posted' = Tail(posted)
  /\ label' = CASE Head(posted) = "begin"   -> "down"
                [] Head(posted) = "success" -> "downF"
                [] Head(posted) = "login"   -> "other"
                [] Head(posted) = "play"    -> label
  /\ UNCHANGED <<online, session, handled, taskVars, workVars, sendVars>>

------------------------------------------------------------------------------
WorkerStep == WorkBegin \/ WorkDownload \/ WorkPlay \/ WorkCapture \/ WorkEnd

Next ==
  \/ Online
  \/ Offline
  \/ \E iq \in Iqs : HandleLogin(iq) \/ HandleTask(iq) \/ HandleNothing(iq)
  \/ WorkerStep
  \/ WorkHangs
  \/ WorkAstray
  \/ ManagerBreaks
  \/ OnMessage

Spec == Init /\ [][Next]_vars

\* The worker and the dialog run; nothing is assumed of the server: a task's Work
\* comes back, unless it hangs or ends the process.
FairSpec == Spec /\ WF_vars(WorkerStep) /\ WF_vars(OnMessage)
------------------------------------------------------------------------------
(* Properties.                                                             *)

SeqOfIds(s) == [i \in DOMAIN s |-> s[i].id]

\* The service keeps the promise of AnswerService: one answer to each request that
\* starts a task, in the order of the requests, or none for want of a session.
Service == INSTANCE AnswerService WITH due <- SeqOfIds(pending),
                                       answered <- SeqOfIds(sent), failed <- broken
ServiceSpec == Service!Spec

\* What was done is not answered with an "error", and what was not is not answered with
\* a "result", but for a picture, whose writing nobody checks: the outcome of one task
\* is never reported as another's.  Downloads are left out: they report each document's.
AnswersTrue ==
  \A i \in DOMAIN sent : \A j \in DOMAIN handled :
    (sent[i].id = handled[j].id /\ handled[j].kind # "docdown") =>
      /\ sent[i].id \in done => sent[i].type = "result"
      /\ sent[i].type = "result" => sent[i].id \in done \/ handled[j].kind = "sccut"

\* The dialog does not go on saying "downloading" when no download is under way, or
\* was when the process ended, and it has read all its messages.
LabelNotStuck ==
  (label = "down" /\ posted = <<>>)
    => (wpc \in {"working", "stuck", "undefined"} /\ Current.kind = "docdown")

\* A task's IQ is answered or its answer is lost for want of a session.  The exceptions
\* are all there are: a download that never comes back, at which the worker stays with
\* all that wait behind it; a download or a screenshot that ends the process; and a
\* task manager that fails.
TasksAreAnswered ==
  \A id \in Ids :
    (\E i \in DOMAIN pending : pending[i].id = id)
      ~> \/ \E i \in DOMAIN sent : sent[i].id = id
         \/ id \in lost
         \/ broken
         \/ wpc = "stuck" /\ Current.kind = "docdown"
         \/ wpc = "undefined" /\ Current.kind \in {"docdown", "sccut"}
==============================================================================
