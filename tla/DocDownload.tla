----------------------------- MODULE DocDownload -----------------------------
(***************************************************************************)
(* CDocDownTask (CellView/DocDownTask.cpp): the documents a request names, *)
(* one after the other, each compared with the file of its name and        *)
(* fetched by httpGetFile if the versions differ.  The files outlive the   *)
(* process; its open handles and its queue of tasks do not.                *)
(*                                                                         *)
(* What becomes of one transfer, byte by byte, is HttpGet; here it is what *)
(* HttpGet allows (HttpTransfer): whole, cut short and taken for whole,    *)
(* empty, another than was asked for, undefined, or without an end.        *)
(***************************************************************************)
EXTENDS Naturals, Sequences

CONSTANTS Names,         \* names of documents, and of their files
          Versions,      \* versions a file may carry, but for Zero
          Zero,          \* "0.0.0.0": no file, or none with a version
          Odd,           \* a version spelt in another way than %d.%d.%d.%d
          MaxDocs,       \* bound: documents in a request
          MaxQueued,     \* bound: tasks that are not done
          MaxRequests, MaxPublished, MaxRestarts   \* bounds: how often each happens

ASSUME VersionsAssumption == Zero \notin Versions /\ Odd \notin Versions \cup {Zero}
ASSUME BoundsAssumption == /\ MaxDocs \in Nat \ {0} /\ MaxQueued \in Nat \ {0}
                           /\ MaxRequests \in Nat /\ MaxPublished \in Nat
                           /\ MaxRestarts \in Nat

Carried == Versions \cup {Zero}

\* A document of a request.  good says that its URL has a path, and one that fits
\* the buffer of the HTTP request.
Docs == [name : Names, version : Carried \cup {Odd}, good : BOOLEAN]

\* A file: version is the one GetFileVersion finds in it.  A page is what a server
\* sends to say that it does not have the document.
Files == [state : {"absent", "empty", "page"}, version : {Zero}]
           \cup [state : {"partial", "whole"}, version : Carried]

Empty == [state |-> "empty", version |-> Zero]
Page  == [state |-> "page", version |-> Zero]
Served(version) == [state |-> "whole", version |-> version]

VARIABLES
  files,        \* the local file of each document
  published,    \* the version the server has of each document
  inUse,        \* documents a program has open
  leaked,       \* handles httpGetFile has left open, for each file
  queue,        \* the requests of the tasks that are not done, the current one first
  pc,           \* where the worker is in it
  at,           \* which document it is at
  last,         \* history: what the current task's last document was reported as, and its
                \* file then
  serving,      \* what the server is sending
  cut,          \* history: documents part of which was taken for the whole, or left when
                \* the process ended
  left          \* how many more requests, publications and restarts there may be

environment == <<published, inUse>>
transfer == <<serving, cut>>
vars == <<files, environment, leaked, queue, pc, at, last, transfer, left>>

Reports == [doc : Docs, status : {"success", "failure"}, file : Files,
            fetched : BOOLEAN]

Dead == {"terminated", "undefined"}

TypeOK ==
  /\ files \in [Names -> Files]
  /\ published \in [Names -> Carried]
  /\ inUse \subseteq Names
  /\ leaked \in [Names -> Nat]
  /\ queue \in Seq(Seq(Docs))
  /\ pc \in {"idle", "check", "open", "connect", "header", "body", "stuck"} \cup Dead
  /\ at \in Nat \ {0}
  /\ last \in Seq(Reports)
  /\ serving \in {Served(v) : v \in Carried} \cup {Page}
  /\ cut \subseteq Names
  /\ left \in [{"request", "publish", "restart"} -> Nat]

Init ==
  /\ files \in [Names -> [state : {"absent"}, version : {Zero}]
                           \cup [state : {"whole"}, version : Carried]]
  /\ published \in [Names -> Carried]
  /\ inUse = {}
  /\ leaked = [n \in Names |-> 0]
  /\ queue = <<>>
  /\ pc = "idle"
  /\ at = 1
  /\ last = <<>>
  /\ serving = Page
  /\ cut = {}
  /\ left = [request |-> MaxRequests, publish |-> MaxPublished,
             restart |-> MaxRestarts]

Doc == Head(queue)[at]
Name == Doc.name

------------------------------------------------------------------------------
(* The server, the user and the process.                                   *)

Spend(what) == left[what] > 0 /\ left' = [left EXCEPT ![what] = @ - 1]

\* handleIq and handleDocDown: a request that names documents becomes a task.  Its
\* type is not passed on: a forced download is a normal one.
Request(docs) ==
  /\ Spend("request")
  /\ Len(queue) < MaxQueued
  /\ pc \notin Dead
  /\ queue' = Append(queue, docs)
  /\ UNCHANGED <<files, environment, leaked, pc, at, last, transfer>>

\* What a server announces: the version it has, or that version in another spelling.
Announced == {d \in Docs : d.version \in {published[d.name], Odd}}

Publish(n, v) ==
  /\ Spend("publish")
  /\ published' = [published EXCEPT ![n] = v]
  /\ UNCHANGED <<files, inUse, leaked, queue, pc, at, last, transfer>>

\* A program that runs a document keeps its file from being opened for writing.
Play(n) ==
  /\ files[n].state = "whole"
  /\ leaked[n] = 0
  /\ pc \in {"header", "body", "connect", "stuck"} => n # Name
  /\ inUse' = inUse \cup {n}
  /\ UNCHANGED <<files, published, leaked, queue, pc, at, last, transfer, left>>

StopPlaying(n) ==
  /\ n \in inUse
  /\ inUse' = inUse \ {n}
  /\ UNCHANGED <<files, published, leaked, queue, pc, at, last, transfer, left>>

\* The user ends the program, whatever it is doing, and starts it again: part of a
\* document that was coming stays part of it.
Restart ==
  /\ Spend("restart")
  /\ leaked' = [n \in Names |-> 0]
  /\ queue' = <<>>
  /\ pc' = "idle"
  /\ at' = 1
  /\ last' = <<>>
  /\ cut' = cut \cup {n \in Names : files[n].state = "partial"}
  /\ UNCHANGED <<files, environment, serving>>

------------------------------------------------------------------------------
(* CDocDownTask::Work.                                                     *)

\* The worker takes the task; Act_Begin is posted.
WorkBegin ==
  /\ pc = "idle"
  /\ queue # <<>>
  /\ pc' = "check"
  /\ at' = 1
  /\ UNCHANGED <<files, environment, leaked, queue, last, transfer, left>>

\* The document has this status; on to the next.
Report(status, fetched, file) ==
  /\ last' = <<[doc |-> Doc, status |-> status, fetched |-> fetched, file |-> file]>>
  /\ at' = at + 1
  /\ pc' = "check"

\* CheckFile: the version of the file, "0.0.0.0" when there is none to be found, is
\* compared with the one announced.
CheckFile(n, version) == files[n].version = version

\* Mutant of Check: every document is fetched.
CheckNothing ==
  /\ pc = "check" /\ at <= Len(Head(queue))
  /\ pc' = IF Doc.good THEN "open" ELSE "terminated"
  /\ UNCHANGED <<files, environment, leaked, queue, at, last, transfer, left>>

\* A document whose file has the version announced is there already.  The URL of any
\* other is taken apart by XUrl and put into the HTTP request: one without a path
\* throws out of Work, one too long fails in sprintf_s, and the process ends.
Check ==
  /\ pc = "check"
  /\ at <= Len(Head(queue))
  /\ IF CheckFile(Name, Doc.version)
     THEN Report("success", FALSE, files[Name])
     ELSE /\ pc' = IF Doc.good THEN "open" ELSE "terminated"
          /\ UNCHANGED <<at, last>>
  /\ UNCHANGED <<files, environment, leaked, queue, transfer, left>>

\* fopen_s, which shares with nobody, for writing: the file is emptied.
Open ==
  /\ pc = "open"
  /\ \/ /\ Name \notin inUse /\ leaked[Name] = 0
        /\ files' = [files EXCEPT ![Name] = Empty]
        /\ pc' = "connect"
        /\ UNCHANGED <<at, last>>
     \/ Report("failure", FALSE, files[Name]) /\ UNCHANGED files
  /\ UNCHANGED <<environment, leaked, queue, transfer, left>>

\* Mutants of Connect: the file is opened once more before giving up; a connect that
\* fails is tried again.
ConnectTwice ==
  /\ pc = "connect"
  /\ \/ pc' = "header" /\ UNCHANGED <<leaked, at, last>>
     \/ /\ leaked' = [leaked EXCEPT ![Name] = @ + 2]
        /\ Report("failure", FALSE, files[Name])
  /\ UNCHANGED <<files, environment, queue, transfer, left>>

ConnectRetries ==
  /\ pc = "connect"
  /\ pc' \in {"header", "open"}
  /\ UNCHANGED <<files, environment, leaked, queue, at, last, transfer, left>>

\* A connect that fails returns without closing the file.
Connect ==
  /\ pc = "connect"
  /\ \/ pc' = "header" /\ UNCHANGED <<leaked, at, last>>
     \/ /\ leaked' = [leaked EXCEPT ![Name] = @ + 1]
        /\ Report("failure", FALSE, files[Name])
  /\ UNCHANGED <<files, environment, queue, transfer, left>>

\* The header comes, and with it the first bytes of the body, if any: there is part
\* of it in the file, and maybe its version.  What the status says, the document or a
\* page about an error, is not looked at.  A response without a length, too long a
\* header, or none at all is undefined; one that does not go on is waited for for ever.
Header ==
  /\ pc = "header"
  /\ serving' \in {Served(published[Name]), Page}
  /\ \/ /\ pc' = "body"
        /\ \E v \in {Zero, serving'.version} :
             files' = [files EXCEPT ![Name] = [state |-> "partial", version |-> v]]
     \/ pc' \in {"body", "stuck", "undefined"} /\ UNCHANGED files
  /\ UNCHANGED <<environment, leaked, queue, at, last, cut, left>>

\* httpGetFile returns the length it has read in the header.
Return(file, status) ==
  /\ files' = [files EXCEPT ![Name] = file]
  /\ cut' = IF file = serving THEN cut \ {Name} ELSE cut \cup {Name}
  /\ Report(status, TRUE, file)

\* Mutant of Body: a connection that ends early ends the loop.
BodyGivesUp ==
  /\ pc = "body"
  /\ \/ Return(serving, "success")
     \/ Report("success", TRUE, files[Name]) /\ UNCHANGED <<files, cut>>
  /\ UNCHANGED <<environment, leaked, queue, serving, left>>

\* The rest of the body comes and the file is closed: what the server has sent is
\* there, document or page, unless its header was read short: then a part of it passes
\* for the whole, or its length for 0, which is a failure like that of an empty
\* document.  A connection that is closed early is read for ever, a server that is
\* silent waited for, and a connection that is reset undefined.
Body ==
  /\ pc = "body"
  /\ \/ Return(serving, "success")
     \/ \E v \in {Zero, serving.version} : Return([state |-> "partial", version |-> v], "success")
     \/ Return(files[Name], "failure")
     \/ pc' \in {"stuck", "undefined"} /\ UNCHANGED <<files, at, last, cut>>
  /\ UNCHANGED <<environment, leaked, queue, serving, left>>

\* Act_Success is posted, and WorkEnd sends what became of each document.
WorkEnd ==
  /\ pc = "check"
  /\ at > Len(Head(queue))
  /\ queue' = Tail(queue)
  /\ pc' = "idle"
  /\ at' = 1
  /\ last' = <<>>
  /\ UNCHANGED <<files, environment, leaked, transfer, left>>

------------------------------------------------------------------------------
WorkerStep == WorkBegin \/ Check \/ Open \/ Connect \/ Header \/ Body \/ WorkEnd

Next ==
  \/ \E k \in 1 .. MaxDocs : \E docs \in [1 .. k -> Announced] : Request(docs)
  \/ \E n \in Names, v \in Carried : Publish(n, v)
  \/ \E n \in Names : Play(n) \/ StopPlaying(n)
  \/ Restart
  \/ WorkerStep

Spec == Init /\ [][Next]_vars

\* The task manager's thread runs.
FairSpec == Spec /\ WF_vars(WorkerStep)
------------------------------------------------------------------------------
(* Properties.                                                             *)

\* A document that is reported as there, and has no file or an empty one, was
\* announced as version 0.0.0.0, which is also that of a file that is not there.
SuccessIsThere ==
  \A i \in DOMAIN last :
    (last[i].status = "success" /\ last[i].file.state \in {"absent", "empty"})
      => last[i].doc.version = Zero

\* A document of which only a part is there is reported as there only if a read of
\* its header was short, or the process was ended while it came: the version of the
\* part may be the one announced.
HalfOnlyIfCut ==
  \A i \in DOMAIN last :
    (last[i].status = "success" /\ last[i].file.state = "partial")
      => last[i].doc.name \in cut

\* A document that has an error's page for a file is reported as there when the page
\* has just come, for nobody looks at a response's status; afterwards only if version
\* 0.0.0.0 is announced, which is that of the page.
PageOnlyIfServed ==
  \A i \in DOMAIN last :
    (last[i].status = "success" /\ last[i].file.state = "page")
      => last[i].fetched \/ last[i].doc.version = Zero

\* A whole document that is reported as there has the version announced, unless that
\* is not the spelling GetFileVersion uses, or the server has published another
\* since.
CurrentUnlessPublished ==
  \A i \in DOMAIN last :
    (last[i].status = "success" /\ last[i].file.state = "whole")
      => \/ last[i].file.version = last[i].doc.version
         \/ last[i].doc.version = Odd
         \/ last[i].fetched /\ left["publish"] < MaxPublished

\* The answer may say "success" of a document that is not there: one announced as
\* 0.0.0.0, half of one, an error's page, one of another version.  These cases, each
\* under its condition, are all there are.
FalseReportsAreKnown ==
  SuccessIsThere /\ HalfOnlyIfCut /\ PageOnlyIfServed /\ CurrentUnlessPublished

\* A connect that fails leaves at most one handle to a file, and the file empty,
\* however often the document is asked for again.
LeakedIsEmpty ==
  \A n \in Names : leaked[n] > 0 => leaked[n] = 1 /\ files[n] = Empty

\* A file is opened, and what it held is lost, only for a request that announced
\* another version than its own.
UpToDateIsKept ==
  [][\A n \in Names : (files[n] # Empty /\ files'[n] = Empty)
       => n = Name /\ Doc.version # files[n].version]_vars

\* A file with a leaked handle stays as it is until the process ends: its document
\* cannot be fetched any more.
LeakedStays ==
  [][\A n \in Names : leaked[n] > 0 => files'[n] = files[n]]_vars

\* A task ends, unless the server of a document falls silent or closes early, for whom
\* its transfer waits for ever, or it ends the process.
TasksEnd ==
  queue # <<>> ~> (queue = <<>> \/ pc \in Dead \cup {"stuck"})
==============================================================================
