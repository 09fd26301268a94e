-------------------------- MODULE DocDownloadProofs --------------------------
(***************************************************************************)
(* What holds of downloads for any documents, versions, requests and       *)
(* restarts.                                                               *)
(*                                                                         *)
(* The argument: while the worker is busy with a document, its task is the *)
(* first of the queue (PlaceInv), so that what a request adds at the end   *)
(* changes nothing of it; a file that is being written was opened without  *)
(* a handle left over (OpenInv), because fopen_s does not share; so the    *)
(* handle that Connect leaves open is the only one, and its file empty.    *)
(*                                                                         *)
(* On top of that: until the server publishes something, what it sends is  *)
(* what was asked for, or an error's page (ServedInv); a part of a         *)
(* document is on its way, was taken for the whole, or left when the       *)
(* process ended (PartInv); so of what is reported as there no more is     *)
(* false than FalseReportsAreKnown says.                                   *)
(***************************************************************************)
EXTENDS DocDownload, SequenceTheorems, TLAPS

Busy == {"open", "connect", "header", "body", "stuck"}

\* Where the worker is, there is a document.
PlaceInv ==
  /\ pc = "check" => queue # <<>>
  /\ pc \in Busy => queue # <<>> /\ at <= Len(Head(queue))

\* The file of the document that is being fetched.
OpenInv ==
  /\ pc = "open" => files[Name].version # Doc.version
  /\ pc \in Busy \ {"open"} => leaked[Name] = 0
  /\ pc = "connect" => files[Name] = Empty

\* No more has been published than may be.
SpentInv == left["publish"] <= MaxPublished

\* Until the server publishes something, every document that was asked for has the
\* version the server has, and that is the one it sends.
ServedInv ==
  left["publish"] = MaxPublished =>
    /\ \A i \in DOMAIN queue : \A j \in DOMAIN queue[i] :
         queue[i][j].version \in {published[queue[i][j].name], Odd}
    /\ pc = "body" => serving \in {Served(published[Name]), Page}

\* A part of a document is one that passed for the whole, one that was left when the
\* process ended, or is on its way.
PartInv ==
  \A n \in Names : files[n].state = "partial" =>
    n \in cut \/ (pc \in {"body", "stuck", "undefined"} /\ n = Name)

IInv == TypeOK /\ PlaceInv /\ OpenInv /\ LeakedIsEmpty

------------------------------------------------------------------------------
(* Data.                                                                   *)

\* The document the worker is at.
LEMMA DocAt ==
  ASSUME TypeOK, queue # <<>>, at <= Len(Head(queue))
  PROVE  Doc \in Docs /\ Name \in Names
<1>1. Head(queue) \in Seq(Docs)
  BY HeadTailProperties DEF TypeOK
<1>2. at \in 1 .. Len(Head(queue))
  BY <1>1, LenProperties DEF TypeOK
<1>3. Doc \in Docs
  BY <1>1, <1>2, ElementOfSeq DEF Doc
<1> QED BY <1>3 DEF Name, Docs

\* A request at the end of the queue leaves the first task as it is.
LEMMA HeadOfAppend ==
  ASSUME NEW S, NEW s \in Seq(S), NEW e \in S, s # <<>>
  PROVE  Append(s, e) # <<>> /\ Head(Append(s, e)) = Head(s)
<1>1. Len(s) > 0
  BY EmptySeq
<1> QED BY <1>1, AppendProperties

\* What the code makes of a file is a file.
LEMMA FilesMade ==
  /\ Empty \in Files /\ Page \in Files /\ Page # Empty
  /\ \A v \in Carried : /\ [state |-> "partial", version |-> v] \in Files
                        /\ Served(v) \in Files
                        /\ [state |-> "partial", version |-> v] # Empty
                        /\ Served(v) # Empty
BY DEF Empty, Page, Served, Files, Carried

\* What the server sends is a file, and has a version.
LEMMA ServedIs ==
  ASSUME NEW f \in {Served(v) : v \in Carried} \cup {Page}
  PROVE  /\ f \in Files /\ f # Empty /\ f.version \in Carried
         /\ f.state \in {"whole", "page"}
BY DEF Empty, Page, Served, Files, Carried

\* A report on a document is a report.
LEMMA ReportType ==
  ASSUME NEW s \in {"success", "failure"}, NEW b \in BOOLEAN, NEW f \in Files,
         Doc \in Docs, TypeOK, Report(s, b, f)
  PROVE  last' \in Seq(Reports) /\ at' \in Nat \ {0} /\ pc' = "check"
<1>1. [doc |-> Doc, status |-> s, fetched |-> b, file |-> f] \in Reports
  BY DEF Reports
<1> HIDE DEF Reports
<1>2. last' \in Seq(Reports)
  BY <1>1 DEF Report
<1> QED BY <1>2 DEF Report, TypeOK

------------------------------------------------------------------------------
(* The invariant.                                                          *)

LEMMA InitInv == Init => IInv
<1> SUFFICES ASSUME Init PROVE IInv
  OBVIOUS
<1>1. files \in [Names -> Files]
  BY DEF Init, Files, Carried
<1>2. queue \in Seq(Seq(Docs)) /\ last \in Seq(Reports)
  BY EmptySeq DEF Init
<1>3. left \in [{"request", "publish", "restart"} -> Nat]
  BY BoundsAssumption DEF Init
<1>4. TypeOK
  BY <1>1, <1>2, <1>3 DEF Init, TypeOK, Dead
<1>5. PlaceInv /\ OpenInv
  BY DEF Init, PlaceInv, OpenInv, Busy
<1>6. LeakedIsEmpty
  BY DEF Init, LeakedIsEmpty
<1> QED BY <1>4, <1>5, <1>6 DEF IInv

\* A step that leaves files, handles, queue and worker alone leaves all but the types
\* alone.
LEMMA Elsewhere ==
  ASSUME IInv, UNCHANGED <<files, leaked, queue, pc, at>>
  PROVE  PlaceInv' /\ OpenInv' /\ LeakedIsEmpty'
BY DEF IInv, PlaceInv, OpenInv, LeakedIsEmpty, Doc, Name

LEMMA StepInv == ASSUME IInv, [Next]_vars PROVE IInv'
<1> USE DEF environment, transfer
<1>0. /\ TypeOK /\ PlaceInv /\ OpenInv /\ LeakedIsEmpty
      /\ pc \in Busy => Doc \in Docs /\ Name \in Names
  BY DocAt DEF IInv, PlaceInv
<1>1. ASSUME NEW k \in 1 .. MaxDocs, NEW docs \in [1 .. k -> Announced], Request(docs)
      PROVE  IInv'
  <2>1. docs \in Seq(Docs)
    <3>1. docs \in [1 .. k -> Docs] /\ k \in Nat
      BY DEF Announced
    <3> QED BY <3>1, SeqDef
  <2>2. /\ queue' = Append(queue, docs)
        /\ UNCHANGED <<files, leaked, pc, at, published, inUse, last, serving, cut>>
        /\ left' \in [{"request", "publish", "restart"} -> Nat]
    BY <1>0, <1>1 DEF Request, Spend, TypeOK
  <2>3. queue' \in Seq(Seq(Docs))
    BY <1>0, <2>1, <2>2, AppendProperties DEF TypeOK
  <2>4. TypeOK'
    BY <1>0, <2>2, <2>3 DEF TypeOK
  <2>5. queue # <<>> => queue' # <<>> /\ Head(queue') = Head(queue)
    BY <1>0, <2>1, <2>2, HeadOfAppend DEF TypeOK
  <2>6. PlaceInv' /\ LeakedIsEmpty'
    BY <1>0, <2>2, <2>5 DEF PlaceInv, LeakedIsEmpty, Busy
  <2>7. queue # <<>> => Doc' = Doc /\ Name' = Name
    BY <2>2, <2>5 DEF Doc, Name
  <2>8. OpenInv'
    BY <1>0, <2>2, <2>7 DEF PlaceInv, OpenInv, Busy
  <2> QED BY <2>4, <2>6, <2>8 DEF IInv
<1>2. ASSUME NEW n \in Names, NEW v \in Carried, Publish(n, v)
      PROVE  IInv'
  <2>1. TypeOK'
    BY <1>0, <1>2 DEF Publish, Spend, TypeOK
  <2> QED BY <2>1, <1>2, Elsewhere DEF IInv, Publish
<1>3. ASSUME NEW n \in Names, Play(n) \/ StopPlaying(n)
      PROVE  IInv'
  <2>1. TypeOK'
    BY <1>0, <1>3 DEF Play, StopPlaying, TypeOK
  <2> QED BY <2>1, <1>3, Elsewhere DEF IInv, Play, StopPlaying
<1>4. CASE Restart
  <2>1. /\ queue' \in Seq(Seq(Docs)) /\ last' \in Seq(Reports) /\ cut' \subseteq Names
    BY <1>0, <1>4, EmptySeq DEF Restart, TypeOK
  <2>2. TypeOK'
    BY <1>0, <1>4, <2>1 DEF Restart, Spend, TypeOK
  <2>3. PlaceInv' /\ OpenInv' /\ LeakedIsEmpty'
    BY <1>4 DEF Restart, PlaceInv, OpenInv, LeakedIsEmpty, Busy
  <2> QED BY <2>2, <2>3 DEF IInv
<1>5. CASE WorkBegin
  <2>1. TypeOK'
    BY <1>0, <1>5 DEF WorkBegin, TypeOK
  <2>2. PlaceInv' /\ OpenInv' /\ LeakedIsEmpty'
    BY <1>0, <1>5 DEF WorkBegin, PlaceInv, OpenInv, LeakedIsEmpty, Busy
  <2> QED BY <2>1, <2>2 DEF IInv
<1>6. CASE Check
  <2>1. Doc \in Docs /\ Name \in Names /\ queue # <<>> /\ at <= Len(Head(queue))
    BY <1>0, <1>6, DocAt DEF Check, PlaceInv
  <2>2. UNCHANGED <<files, published, inUse, leaked, queue, serving, cut, left>>
    BY <1>6 DEF Check
  <2>3. CASE Report("success", FALSE, files[Name])
    <3>1. last' \in Seq(Reports) /\ at' \in Nat \ {0} /\ pc' = "check"
      BY <1>0, <2>1, <2>3, ReportType DEF TypeOK
    <3>2. TypeOK'
      BY <1>0, <2>2, <3>1 DEF TypeOK
    <3> QED
      BY <1>0, <2>1, <2>2, <3>1, <3>2 DEF IInv, PlaceInv, OpenInv, LeakedIsEmpty, Busy
  <2>4. CASE /\ ~CheckFile(Name, Doc.version)
             /\ pc' \in {"open", "terminated"}
             /\ UNCHANGED <<at, last>>
    <3>1. TypeOK'
      BY <1>0, <2>2, <2>4 DEF TypeOK, Dead
    <3> QED
      BY <1>0, <2>1, <2>2, <2>4, <3>1
      DEF IInv, PlaceInv, OpenInv, LeakedIsEmpty, Busy, Doc, Name, CheckFile
  <2> QED BY <1>6, <2>3, <2>4 DEF Check
<1>7. CASE Open
  <2>1. /\ pc = "open"
        /\ UNCHANGED <<published, inUse, leaked, queue, serving, cut, left>>
    BY <1>7 DEF Open
  <2>2. CASE /\ leaked[Name] = 0
             /\ files' = [files EXCEPT ![Name] = Empty]
             /\ pc' = "connect"
             /\ UNCHANGED <<at, last>>
    <3>1. TypeOK'
      BY <1>0, <2>1, <2>2, FilesMade DEF TypeOK
    <3>2. Name' = Name /\ files'[Name] = Empty
      BY <1>0, <2>1, <2>2 DEF Name, Doc, TypeOK, Busy
    <3>3. PlaceInv' /\ OpenInv'
      BY <1>0, <2>1, <2>2, <3>2 DEF PlaceInv, OpenInv, Busy
    <3>4. LeakedIsEmpty'
      BY <1>0, <2>1, <2>2 DEF LeakedIsEmpty, TypeOK, Busy
    <3> QED BY <3>1, <3>3, <3>4 DEF IInv
  <2>3. CASE Report("failure", FALSE, files[Name]) /\ UNCHANGED files
    <3>1. last' \in Seq(Reports) /\ at' \in Nat \ {0} /\ pc' = "check"
      BY <1>0, <2>1, <2>3, ReportType DEF TypeOK, Busy
    <3>2. TypeOK'
      BY <1>0, <2>1, <2>3, <3>1 DEF TypeOK
    <3> QED
      BY <1>0, <2>1, <2>3, <3>1, <3>2 DEF IInv, PlaceInv, OpenInv, LeakedIsEmpty, Busy
  <2> QED BY <1>7, <2>2, <2>3 DEF Open
<1>8. CASE Connect
  <2>1. /\ pc = "connect"
        /\ UNCHANGED <<files, published, inUse, queue, serving, cut, left>>
    BY <1>8 DEF Connect
  <2>2. CASE pc' = "header" /\ UNCHANGED <<leaked, at, last>>
    <3>1. TypeOK'
      BY <1>0, <2>1, <2>2 DEF TypeOK
    <3> QED
      BY <1>0, <2>1, <2>2, <3>1
      DEF IInv, PlaceInv, OpenInv, LeakedIsEmpty, Busy, Doc, Name
  <2>3. CASE /\ leaked' = [leaked EXCEPT ![Name] = @ + 1]
             /\ Report("failure", FALSE, files[Name])
    <3>1. last' \in Seq(Reports) /\ at' \in Nat \ {0} /\ pc' = "check"
      BY <1>0, <2>1, <2>3, ReportType DEF TypeOK, Busy
    <3>6. leaked' \in [Names -> Nat]
      BY <1>0, <2>1, <2>3 DEF TypeOK, Busy
    <3>2. TypeOK'
      BY <1>0, <2>1, <3>1, <3>6 DEF TypeOK
    <3>3. leaked'[Name] = 1 /\ files'[Name] = Empty
      BY <1>0, <2>1, <2>3 DEF OpenInv, TypeOK, Busy
    <3>4. LeakedIsEmpty'
      BY <1>0, <2>1, <2>3, <3>3 DEF LeakedIsEmpty, TypeOK
    <3>5. PlaceInv' /\ OpenInv'
      BY <1>0, <2>1, <3>1 DEF PlaceInv, OpenInv, Busy
    <3> QED BY <3>2, <3>4, <3>5 DEF IInv
  <2> QED BY <1>8, <2>2, <2>3 DEF Connect
<1>9. CASE Header
  <2>1. /\ pc = "header"
        /\ serving' \in {Served(v) : v \in Carried} \cup {Page}
        /\ UNCHANGED <<published, inUse, leaked, queue, at, last, cut, left>>
        /\ pc' \in {"body", "stuck", "undefined"}
    BY <1>0, <1>9 DEF Header, TypeOK, Busy
  <2>2. \A n \in Names : n # Name => files'[n] = files[n]
    BY <1>0, <1>9 DEF Header, TypeOK
  <2>3. files' \in [Names -> Files]
    <3>1. CASE UNCHANGED files
      BY <1>0, <3>1 DEF TypeOK
    <3>2. ASSUME NEW v \in {Zero, serving'.version},
                 files' = [files EXCEPT ![Name] = [state |-> "partial", version |-> v]]
          PROVE  files' \in [Names -> Files]
      <4>1. [state |-> "partial", version |-> v] \in Files
        BY <2>1, FilesMade, ServedIs DEF Carried
      <4> QED BY <1>0, <3>2, <4>1 DEF TypeOK
    <3> QED BY <1>9, <3>1, <3>2 DEF Header
  <2>4. TypeOK'
    BY <1>0, <2>1, <2>3 DEF TypeOK, Dead
  <2>5. Name' = Name /\ leaked[Name] = 0
    BY <1>0, <2>1 DEF Name, Doc, OpenInv, Busy
  <2>6. PlaceInv' /\ OpenInv' /\ LeakedIsEmpty'
    BY <1>0, <2>1, <2>2, <2>5 DEF PlaceInv, OpenInv, LeakedIsEmpty, Busy
  <2> QED BY <2>4, <2>6 DEF IInv
<1>10. CASE Body
  <2>1. /\ pc = "body"
        /\ Doc \in Docs /\ Name \in Names /\ leaked[Name] = 0
        /\ UNCHANGED <<published, inUse, leaked, queue, serving, left>>
    BY <1>0, <1>10 DEF Body, OpenInv, Busy
  <2>2. ASSUME NEW f \in Files, NEW s \in {"success", "failure"}, Return(f, s)
        PROVE  IInv'
    <3>1. last' \in Seq(Reports) /\ at' \in Nat \ {0} /\ pc' = "check"
      BY <1>0, <2>1, <2>2, ReportType DEF Return
    <3>2. files' \in [Names -> Files] /\ cut' \subseteq Names
      BY <1>0, <2>1, <2>2 DEF Return, TypeOK
    <3>3. TypeOK'
      BY <1>0, <2>1, <3>1, <3>2 DEF TypeOK
    <3>4. \A n \in Names : n # Name => files'[n] = files[n]
      BY <1>0, <2>2 DEF Return, TypeOK
    <3>5. PlaceInv' /\ OpenInv' /\ LeakedIsEmpty'
      BY <1>0, <2>1, <3>1, <3>4 DEF PlaceInv, OpenInv, LeakedIsEmpty, Busy
    <3> QED BY <3>3, <3>5 DEF IInv
  <2>3. CASE pc' \in {"stuck", "undefined"} /\ UNCHANGED <<files, at, last, cut>>
    <3>1. TypeOK'
      BY <1>0, <2>1, <2>3 DEF TypeOK, Dead
    <3> QED
      BY <1>0, <2>1, <2>3, <3>1
      DEF IInv, PlaceInv, OpenInv, LeakedIsEmpty, Busy, Doc, Name
  <2>4. serving \in Files /\ files[Name] \in Files
    BY <1>0, <2>1, ServedIs DEF TypeOK
  <2>5. \A v \in {Zero, serving.version} : [state |-> "partial", version |-> v] \in Files
    BY <1>0, FilesMade, ServedIs DEF TypeOK, Carried
  <2> QED BY <1>10, <2>2, <2>3, <2>4, <2>5 DEF Body
<1>11. CASE WorkEnd
  <2>1. queue' \in Seq(Seq(Docs)) /\ last' \in Seq(Reports)
    BY <1>0, <1>11, EmptySeq, HeadTailProperties DEF WorkEnd, PlaceInv, TypeOK
  <2>2. TypeOK'
    BY <1>0, <1>11, <2>1 DEF WorkEnd, TypeOK
  <2>3. PlaceInv' /\ OpenInv' /\ LeakedIsEmpty'
    BY <1>0, <1>11 DEF WorkEnd, PlaceInv, OpenInv, LeakedIsEmpty, Busy
  <2> QED BY <2>2, <2>3 DEF IInv
<1>12. CASE UNCHANGED vars
  <2>1. TypeOK'
    BY <1>0, <1>12 DEF vars, TypeOK
  <2> QED BY <2>1, <1>12, Elsewhere DEF IInv, vars
<1> QED
  BY <1>1, <1>2, <1>3, <1>4, <1>5, <1>6, <1>7, <1>8, <1>9, <1>10, <1>11, <1>12
  DEF Next, WorkerStep

LEMMA Invariance == Spec => []IInv
BY InitInv, StepInv, PTL DEF Spec
------------------------------------------------------------------------------
(* Reports.                                                                *)

RInv == SpentInv /\ ServedInv /\ PartInv /\ FalseReportsAreKnown

LEMMA InitReports == Init => RInv
<1> SUFFICES ASSUME Init PROVE RInv
  OBVIOUS
<1>1. SpentInv /\ ServedInv
  BY BoundsAssumption DEF Init, SpentInv, ServedInv
<1>2. PartInv
  BY DEF Init, PartInv
<1>3. FalseReportsAreKnown
  BY DEF Init, FalseReportsAreKnown, SuccessIsThere, HalfOnlyIfCut, PageOnlyIfServed,
         CurrentUnlessPublished
<1> QED BY <1>1, <1>2, <1>3 DEF RInv

\* A report is among those that are known if it is one of failure, one of what CheckFile
\* has found, or one of what has come.
LEMMA ReportIsKnown ==
  ASSUME TypeOK, NEW f \in Files, NEW s \in {"success", "failure"}, NEW b \in BOOLEAN,
         Doc \in Docs, Report(s, b, f),
         s = "success" /\ f.state \in {"absent", "empty"} => Doc.version = Zero,
         s = "success" /\ f.state = "partial" => Name \in cut',
         s = "success" /\ f.state = "page" => b \/ Doc.version = Zero,
         s = "success" /\ f.state = "whole" => \/ f.version = Doc.version
                                               \/ Doc.version = Odd
                                               \/ b /\ left'["publish"] < MaxPublished
  PROVE  FalseReportsAreKnown'
<1>1. /\ DOMAIN last' = {1}
      /\ last'[1].doc = Doc /\ last'[1].status = s /\ last'[1].file = f
      /\ last'[1].fetched = b
  BY DEF Report
<1> QED
  BY <1>1 DEF FalseReportsAreKnown, SuccessIsThere, HalfOnlyIfCut, PageOnlyIfServed,
         CurrentUnlessPublished, Name

\* The files there are, by state.
LEMMA FileStates ==
  ASSUME NEW f \in Files
  PROVE  /\ f.state \in {"absent", "empty", "page"} => f.version = Zero
         /\ f.state \in {"absent", "empty", "page", "partial", "whole"}
         /\ f = Empty => f.state = "empty"
BY DEF Files, Empty

LEMMA StepReports == ASSUME IInv, RInv, [Next]_vars PROVE RInv'
<1> USE DEF environment, transfer
<1>0. /\ TypeOK /\ PlaceInv /\ OpenInv
      /\ SpentInv /\ ServedInv /\ PartInv /\ FalseReportsAreKnown
      /\ pc \in Busy => Doc \in Docs /\ Name \in Names
  BY DocAt DEF IInv, RInv, PlaceInv
<1>a. ASSUME UNCHANGED <<last, cut>>, left'["publish"] <= left["publish"],
             left' \in [{"request", "publish", "restart"} -> Nat]
      PROVE  FalseReportsAreKnown'
  <2>1. left["publish"] < MaxPublished => left'["publish"] < MaxPublished
    BY <1>0, <1>a, BoundsAssumption DEF TypeOK
  <2>2. SuccessIsThere' /\ HalfOnlyIfCut' /\ PageOnlyIfServed' /\ CurrentUnlessPublished'
    BY <1>0, <1>a, <2>1 DEF FalseReportsAreKnown, SuccessIsThere, HalfOnlyIfCut, PageOnlyIfServed,
         CurrentUnlessPublished
  <2> QED BY <2>2 DEF FalseReportsAreKnown
<1>b. UNCHANGED <<left, last, cut>> => FalseReportsAreKnown'
  BY <1>0 DEF FalseReportsAreKnown, SuccessIsThere, HalfOnlyIfCut, PageOnlyIfServed,
         CurrentUnlessPublished
<1>c. UNCHANGED left => SpentInv'
  BY <1>0 DEF SpentInv
<1>d. UNCHANGED <<left, queue, published, serving, at>> /\ pc' # "body" => ServedInv'
  BY <1>0 DEF ServedInv
<1>e. /\ UNCHANGED <<left, files, cut, queue, at>>
      /\ pc \in {"body", "stuck", "undefined"} => pc' \in {"body", "stuck", "undefined"}
      => PartInv'
  BY <1>0 DEF PartInv, Name, Doc
<1>f. pc \notin {"body", "stuck", "undefined"} /\ UNCHANGED <<left, files, cut>> => PartInv'
  BY <1>0 DEF PartInv
<1>g. left' \in [{"request", "publish", "restart"} -> Nat]
  BY <1>0, StepInv DEF IInv, TypeOK
<1>1. ASSUME NEW k \in 1 .. MaxDocs, NEW docs \in [1 .. k -> Announced], Request(docs)
      PROVE  RInv'
  <2>1. /\ docs \in Seq(Docs) /\ DOMAIN docs = 1 .. k
        /\ \A j \in DOMAIN docs : docs[j].version \in {published[docs[j].name], Odd}
    <3>1. docs \in [1 .. k -> Docs] /\ k \in Nat
      BY DEF Announced
    <3> QED BY <3>1, SeqDef DEF Announced
  <2>2. /\ queue' = Append(queue, docs)
        /\ UNCHANGED <<files, pc, at, published, last, serving, cut>>
        /\ pc \notin Dead
        /\ left'["publish"] = left["publish"]
    BY <1>0, <1>1 DEF Request, Spend, TypeOK
  <2>3. pc \in {"body", "stuck"} => Name' = Name
    <3>1. queue # <<>> => Head(queue') = Head(queue)
      BY <1>0, <2>1, <2>2, HeadOfAppend DEF TypeOK
    <3> QED BY <1>0, <2>2, <3>1 DEF PlaceInv, Busy, Name, Doc
  <2>4. SpentInv'
    BY <1>0, <2>2 DEF SpentInv
  <2>5. PartInv'
    BY <1>0, <2>2, <2>3 DEF PartInv, Dead
  <2>6. ServedInv'
    <3>1. \A i \in DOMAIN queue' :
            (i \in DOMAIN queue /\ queue'[i] = queue[i]) \/ queue'[i] = docs
      BY <1>0, <2>1, <2>2, AppendProperties DEF TypeOK
    <3> QED BY <1>0, <2>1, <2>2, <2>3, <3>1 DEF ServedInv
  <2>7. FalseReportsAreKnown'
    BY <1>0, <1>a, <1>g, <2>2 DEF TypeOK
  <2> QED BY <2>4, <2>5, <2>6, <2>7 DEF RInv
<1>2. ASSUME NEW n \in Names, NEW v \in Carried, Publish(n, v)
      PROVE  RInv'
  <2>1. /\ left'["publish"] < left["publish"]
        /\ UNCHANGED <<files, queue, pc, at, last, serving, cut>>
    BY <1>0, <1>2 DEF Publish, Spend, TypeOK
  <2>2. SpentInv' /\ left'["publish"] # MaxPublished
    BY <1>0, <1>g, <2>1, BoundsAssumption DEF SpentInv, TypeOK
  <2>3. PartInv'
    BY <1>0, <2>1 DEF PartInv, Name, Doc
  <2>4. FalseReportsAreKnown'
    BY <1>0, <1>a, <1>g, <2>1 DEF TypeOK
  <2> QED BY <2>2, <2>3, <2>4 DEF RInv, ServedInv
<1>3. ASSUME NEW n \in Names, Play(n) \/ StopPlaying(n)
      PROVE  RInv'
  <2>1. UNCHANGED <<left, files, queue, pc, at, last, serving, cut, published>>
    BY <1>3 DEF Play, StopPlaying
  <2>2. ServedInv'
    BY <1>0, <2>1 DEF ServedInv, Name, Doc
  <2> QED BY <1>b, <1>c, <1>e, <2>1, <2>2 DEF RInv
<1>4. CASE Restart
  <2>1. /\ left'["publish"] = left["publish"] /\ UNCHANGED files
        /\ queue' = <<>> /\ last' = <<>> /\ pc' = "idle"
        /\ \A n \in Names : files[n].state = "partial" => n \in cut'
    BY <1>0, <1>4 DEF Restart, Spend, TypeOK
  <2>2. SpentInv' /\ PartInv'
    BY <1>0, <2>1 DEF SpentInv, PartInv
  <2>3. FalseReportsAreKnown'
    BY <2>1 DEF FalseReportsAreKnown, SuccessIsThere, HalfOnlyIfCut, PageOnlyIfServed,
         CurrentUnlessPublished
  <2>4. ServedInv'
    BY <2>1 DEF ServedInv
  <2> QED BY <2>2, <2>3, <2>4 DEF RInv
<1>5. CASE WorkBegin
  <2>1. /\ UNCHANGED <<left, files, queue, last, serving, cut, published>>
        /\ pc = "idle" /\ pc' = "check"
    BY <1>5 DEF WorkBegin
  <2>2. ServedInv'
    BY <1>0, <2>1 DEF ServedInv
  <2> QED BY <1>b, <1>c, <1>f, <2>1, <2>2 DEF RInv
<1>6. CASE Check
  <2>1. Doc \in Docs /\ Name \in Names
    BY <1>0, <1>6, DocAt DEF Check, PlaceInv
  <2>2. /\ UNCHANGED <<files, published, queue, serving, cut, left>>
        /\ pc = "check" /\ pc' # "body"
    BY <1>6 DEF Check, Report
  <2>3. SpentInv' /\ PartInv' /\ ServedInv'
    <3>1. ServedInv'
      BY <1>0, <2>2 DEF ServedInv
    <3> QED BY <1>c, <1>f, <2>2, <3>1
  <2>4. CASE /\ CheckFile(Name, Doc.version)
             /\ Report("success", FALSE, files[Name])
    <3>1. files[Name] \in Files /\ files[Name].version = Doc.version
      BY <1>0, <2>1, <2>4 DEF TypeOK, CheckFile
    <3>2. files[Name].state = "partial" => Name \in cut'
      BY <1>0, <2>1, <2>2 DEF PartInv
    <3>3. FalseReportsAreKnown'
      BY <1>0, <2>1, <2>4, <3>1, <3>2, FileStates, ReportIsKnown
    <3> QED BY <2>3, <3>3 DEF RInv
  <2>5. CASE UNCHANGED last
    BY <1>b, <2>2, <2>3, <2>5 DEF RInv
  <2> QED BY <1>6, <2>4, <2>5 DEF Check
<1>7. CASE Open
  <2>1. /\ UNCHANGED <<published, queue, serving, cut, left>>
        /\ pc = "open" /\ pc' # "body"
        /\ Doc \in Docs /\ Name \in Names
    BY <1>0, <1>7 DEF Open, Report, Busy
  <2>2. SpentInv' /\ ServedInv'
    BY <1>0, <1>c, <2>1 DEF ServedInv
  <2>3. CASE files' = [files EXCEPT ![Name] = Empty] /\ UNCHANGED last
    <3>1. \A n \in Names : files'[n].state = "partial" => files'[n] = files[n]
      BY <1>0, <2>1, <2>3, FilesMade, FileStates DEF TypeOK
    <3>2. PartInv'
      BY <1>0, <2>1, <3>1 DEF PartInv
    <3> QED BY <1>b, <2>1, <2>2, <2>3, <3>2 DEF RInv
  <2>4. CASE Report("failure", FALSE, files[Name]) /\ UNCHANGED files
    <3>1. FalseReportsAreKnown'
      BY <1>0, <2>1, <2>4, ReportIsKnown DEF TypeOK
    <3> QED BY <1>f, <2>1, <2>2, <2>4, <3>1 DEF RInv
  <2> QED BY <1>7, <2>3, <2>4 DEF Open
<1>8. CASE Connect
  <2>1. /\ UNCHANGED <<files, published, queue, serving, cut, left>>
        /\ pc = "connect" /\ pc' # "body"
        /\ Doc \in Docs /\ Name \in Names
    BY <1>0, <1>8 DEF Connect, Report, Busy
  <2>2. SpentInv' /\ ServedInv' /\ PartInv'
    BY <1>0, <1>c, <1>f, <2>1 DEF ServedInv
  <2>3. CASE UNCHANGED last
    BY <1>b, <2>1, <2>2, <2>3 DEF RInv
  <2>4. CASE Report("failure", FALSE, files[Name])
    <3>1. FalseReportsAreKnown'
      BY <1>0, <2>1, <2>4, ReportIsKnown DEF TypeOK
    <3> QED BY <2>2, <3>1 DEF RInv
  <2> QED BY <1>8, <2>3, <2>4 DEF Connect
<1>9. CASE Header
  <2>1. /\ UNCHANGED <<published, queue, at, last, cut, left>>
        /\ pc = "header" /\ pc' \in {"body", "stuck", "undefined"}
        /\ serving' \in {Served(published[Name]), Page}
        /\ Name' = Name
    BY <1>9 DEF Header, Name, Doc
  <2>2. \A n \in Names : n # Name => files'[n] = files[n]
    BY <1>0, <1>9 DEF Header, TypeOK
  <2>3. PartInv'
    BY <1>0, <2>1, <2>2 DEF PartInv
  <2>4. ServedInv'
    BY <1>0, <2>1 DEF ServedInv
  <2> QED BY <1>b, <1>c, <2>1, <2>3, <2>4 DEF RInv
<1>10. CASE Body
  <2>1. /\ UNCHANGED <<published, queue, serving, left>>
        /\ pc = "body" /\ pc' # "body"
        /\ Doc \in Docs /\ Name \in Names
        /\ files[Name] \in Files /\ serving \in Files
        /\ serving.version \in Carried /\ serving.state \in {"whole", "page"}
    BY <1>0, <1>10, ServedIs DEF Body, Return, Report, Busy, TypeOK
  <2>2. SpentInv' /\ ServedInv'
    BY <1>0, <1>c, <2>1 DEF ServedInv
  <2>3. ASSUME NEW f \in Files, NEW s \in {"success", "failure"}, Return(f, s),
               s = "success" => f.state = "partial" \/ f = serving
        PROVE  RInv'
    <3>1. /\ \A n \in Names : n # Name => files'[n] = files[n]
          /\ files'[Name] = f
          /\ f.state = "partial" => Name \in cut'
          /\ \A n \in cut : n # Name => n \in cut'
      BY <1>0, <2>1, <2>3 DEF Return, TypeOK
    <3>2. PartInv'
      BY <1>0, <2>1, <3>1 DEF PartInv
    <3>3. serving.state = "whole" =>
          \/ serving.version = Doc.version
          \/ Doc.version = Odd
          \/ left'["publish"] < MaxPublished
      <4>1. CASE left["publish"] = MaxPublished
        <5>1. queue # <<>> /\ at <= Len(Head(queue)) /\ Head(queue) = queue[1]
          BY <1>0, <2>1, HeadTailProperties, EmptySeq DEF PlaceInv, Busy, TypeOK
        <5>2. 1 \in DOMAIN queue /\ at \in DOMAIN queue[1]
          BY <1>0, <5>1, EmptySeq, HeadTailProperties DEF TypeOK
        <5>3. Doc.version \in {published[Name], Odd}
          BY <1>0, <4>1, <5>1, <5>2 DEF ServedInv, Doc, Name
        <5> QED BY <1>0, <2>1, <4>1, <5>3 DEF ServedInv, Served, Page
      <4>2. CASE left["publish"] # MaxPublished
        BY <1>0, <2>1, <4>2, BoundsAssumption DEF SpentInv, TypeOK
      <4> QED BY <4>1, <4>2
    <3>4. FalseReportsAreKnown'
      BY <1>0, <2>1, <2>3, <3>1, <3>3, ReportIsKnown DEF Return
    <3> QED BY <2>2, <3>2, <3>4 DEF RInv
  <2>4. CASE pc' \in {"stuck", "undefined"} /\ UNCHANGED <<files, at, last, cut>>
    BY <1>b, <1>e, <2>1, <2>2, <2>4 DEF RInv
  <2>5. \A v \in {Zero, serving.version} :
          /\ [state |-> "partial", version |-> v] \in Files
          /\ [state |-> "partial", version |-> v].state = "partial"
    BY <2>1, FilesMade DEF Carried
  <2> QED BY <1>10, <2>1, <2>3, <2>4, <2>5 DEF Body
<1>11. CASE WorkEnd
  <2>1. /\ UNCHANGED <<files, published, serving, cut, left>>
        /\ pc = "check" /\ pc' = "idle" /\ last' = <<>> /\ queue' = Tail(queue)
        /\ queue # <<>>
    BY <1>0, <1>11 DEF WorkEnd, PlaceInv
  <2>2. FalseReportsAreKnown'
    BY <2>1 DEF FalseReportsAreKnown, SuccessIsThere, HalfOnlyIfCut, PageOnlyIfServed,
         CurrentUnlessPublished
  <2>3. \A i \in DOMAIN queue' : i + 1 \in DOMAIN queue /\ queue'[i] = queue[i + 1]
    BY <1>0, <2>1, HeadTailProperties, EmptySeq DEF TypeOK
  <2>4. ServedInv'
    BY <1>0, <2>1, <2>3 DEF ServedInv
  <2> QED BY <1>c, <1>f, <2>1, <2>2, <2>4 DEF RInv
<1>12. CASE UNCHANGED vars
  <2>1. UNCHANGED <<left, files, queue, pc, at, last, serving, cut, published>>
    BY <1>12 DEF vars
  <2>2. ServedInv'
    BY <1>0, <2>1 DEF ServedInv, Name, Doc
  <2> QED BY <1>b, <1>c, <1>e, <2>1, <2>2 DEF RInv
<1> QED
  BY <1>1, <1>2, <1>3, <1>4, <1>5, <1>6, <1>7, <1>8, <1>9, <1>10, <1>11, <1>12
  DEF Next, WorkerStep

LEMMA ReportsInvariance == Spec => []RInv
<1>1. IInv /\ RInv /\ [Next]_vars => RInv'
  BY StepReports
<1> QED BY <1>1, InitReports, Invariance, PTL DEF Spec
------------------------------------------------------------------------------
(* The properties.                                                         *)

\* Every variable of the download keeps its type, through any number of restarts.
THEOREM TypeCorrect == Spec => []TypeOK
BY Invariance, PTL DEF IInv

\* Connects that fail leave one handle to a file at the most, however many there are,
\* and leave the file empty.
THEOREM LeaksAreEmpty == Spec => []LeakedIsEmpty
BY Invariance, PTL DEF IInv

\* Where the answer says falsely that a document is there, it was announced as version
\* 0.0.0.0, an error's page came in its place, its header was read short or the process
\* ended, or the server has published another version or spells it in another way.
THEOREM FalseReportsKnown == Spec => []FalseReportsAreKnown
BY ReportsInvariance, PTL DEF RInv

\* A handle that httpGetFile has left open keeps its file as it is, for the rest of
\* the process.
THEOREM LeaksStay == Spec => LeakedStays
<1>1. ASSUME IInv, [Next]_vars
      PROVE  [\A n \in Names : leaked[n] > 0 => files'[n] = files[n]]_vars
  <2> SUFFICES ASSUME Next, NEW n \in Names, leaked[n] > 0
               PROVE  files'[n] = files[n]
    BY <1>1
  <2>1. /\ files \in [Names -> Files]
        /\ pc \in Busy \ {"open"} => leaked[Name] = 0
    BY <1>1 DEF IInv, TypeOK, OpenInv
  <2>2. CASE Open
    <3>1. leaked[Name] = 0 => n # Name
      OBVIOUS
    <3>2. /\ n # Name /\ files' = [files EXCEPT ![Name] = Empty]
          => files'[n] = files[n]
      BY <2>1
    <3> QED BY <2>2, <3>1, <3>2 DEF Open
  <2>3. CASE Header
    <3>1. n # Name
      BY <2>1, <2>3 DEF Header, Busy
    <3>2. \A f : files' = [files EXCEPT ![Name] = f] => files'[n] = files[n]
      BY <2>1, <3>1
    <3> QED BY <2>3, <3>2 DEF Header
  <2>4. CASE Body
    <3>1. n # Name
      BY <2>1, <2>4 DEF Body, Busy
    <3>2. \A f, s : Return(f, s) => files'[n] = files[n]
      BY <2>1, <3>1 DEF Return
    <3> QED BY <2>4, <3>2 DEF Body
  <2>5. CASE UNCHANGED files
    BY <2>5
  <2> QED
    BY <2>2, <2>3, <2>4, <2>5
    DEF Next, WorkerStep, Request, Publish, Play, StopPlaying, Restart,
                      WorkBegin, Check, Connect, WorkEnd
<1> QED BY <1>1, Invariance, PTL DEF Spec, LeakedStays

\* What a file holds is given up only for a document whose announced version is not
\* the file's: CheckFile decides on every file that is lost.
THEOREM UpToDateFilesAreKept == Spec => UpToDateIsKept
<1>1. ASSUME IInv, [Next]_vars
      PROVE  [\A n \in Names : (files[n] # Empty /\ files'[n] = Empty)
                => n = Name /\ Doc.version # files[n].version]_vars
  <2> SUFFICES ASSUME Next, NEW n \in Names, files[n] # Empty, files'[n] = Empty
               PROVE  n = Name /\ Doc.version # files[n].version
    BY <1>1
  <2>1. /\ files \in [Names -> Files]
        /\ pc = "open" => files[Name].version # Doc.version
        /\ pc \in Busy => Name \in Names
        /\ serving # Empty /\ serving.version \in Carried
        /\ published \in [Names -> Carried]
    BY <1>1, DocAt, ServedIs DEF IInv, TypeOK, OpenInv, PlaceInv
  <2>2. CASE Open
    BY <2>1, <2>2 DEF Open
  <2>3. CASE Header
    <3>1. serving'.version \in Carried
      BY <2>1, <2>3 DEF Header, Busy, Served, Page, Carried
    <3>2. \A v \in {Zero, serving'.version} :
            files' = [files EXCEPT ![Name] = [state |-> "partial", version |-> v]]
              => files'[n] = files[n] \/ files'[n] # Empty
      BY <2>1, <3>1, FilesMade DEF Carried
    <3> QED BY <2>3, <3>2 DEF Header
  <2>4. CASE Body
    <3>1. \A f, s : Return(f, s) /\ f # Empty => files'[n] # Empty
      BY <2>1 DEF Return
    <3>2. \A s : Return(files[Name], s) => files' = files
      BY <2>1 DEF Return
    <3>3. \A v \in {Zero, serving.version} : [state |-> "partial", version |-> v] # Empty
      BY <2>1, FilesMade DEF Carried
    <3> QED BY <2>1, <2>4, <3>1, <3>2, <3>3 DEF Body
  <2>5. CASE UNCHANGED files
    BY <2>5
  <2> QED
    BY <2>2, <2>3, <2>4, <2>5
    DEF Next, WorkerStep, Request, Publish, Play, StopPlaying, Restart,
        WorkBegin, Check, Connect, WorkEnd
<1> QED BY <1>1, Invariance, PTL DEF Spec, UpToDateIsKept
==============================================================================
