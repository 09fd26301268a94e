--------------------------- MODULE IqServiceProofs ---------------------------
(***************************************************************************)
(* What holds of the service for any number of IQs, kinds and sessions, of *)
(* Send to a list of any length, and of what IQs say, for any texts.       *)
(*                                                                         *)
(* The argument: an IQ's id is used once, so a task that waits has an id   *)
(* of its own that no answer has (IdsInv); therefore what the worker does  *)
(* to one task is neither told of another (DoneInv, AnswersTrue) nor a     *)
(* second answer to a request of AnswerService.  The dialog's text follows *)
(* because every "begin" in its message queue has an end behind it, or a   *)
(* download under way (LabelInv).                                          *)
(*                                                                         *)
(* Send to a list has at most two extensions allocated at any time: the    *)
(* loop's own, which says what the message says or its clone (ExtInv), and *)
(* the one that the current IQ will delete (HeapInv); its copies so far    *)
(* went to the online ones of the members passed (CopiesInv).  What an IQ  *)
(* says is a lemma for each kind of message, which follows it to the tag   *)
(* and back, and one for tags; PayloadInv only says at which point which   *)
(* of them applies.                                                        *)
(***************************************************************************)
EXTENDS IqService, Payload, Broadcast, SequenceTheorems, TLAPS

\* Ids: each was handled once, each task that waits is one of those handled, and no
\* answer is for a task that waits.
IdsInv ==
  /\ \A i, j \in DOMAIN handled : handled[i].id = handled[j].id => i = j
  /\ \A i \in DOMAIN pending : \E j \in DOMAIN handled : handled[j] = pending[i]
  /\ \A i, j \in DOMAIN pending : pending[i].id = pending[j].id => i = j
  /\ \A i \in DOMAIN sent :
       /\ \E j \in DOMAIN handled : handled[j].id = sent[i].id
       /\ \A k \in DOMAIN pending : pending[k].id # sent[i].id
  /\ \A id \in lost \cup done : \E j \in DOMAIN handled : handled[j].id = id

\* The worker is at a task, and an answer has a session to leave in.
WorkerInv ==
  /\ wpc # "idle" => pending # <<>>
  /\ online => session >= 1

\* Of the tasks that wait only the current one may have been done; if it was, worked
\* says so, and only of a picture may worked say so if it was not.
DoneInv ==
  /\ \A k \in DOMAIN pending : pending[k].id \in done => k = 1 /\ wpc = "worked"
  /\ (wpc = "worked" /\ Current.kind # "docdown") =>
       /\ Current.id \in done => worked
       /\ worked => Current.id \in done \/ Current.kind = "sccut"

Downloading == wpc \in {"working", "stuck", "undefined"} /\ Current.kind = "docdown"
End == {"success", "login"}

\* What the dialog has read, and what it is going to read, of a download has an end.
LabelInv ==
  /\ label = "down" => Downloading \/ \E j \in DOMAIN posted : posted[j] \in End
  /\ \A i \in DOMAIN posted : posted[i] = "begin" =>
       Downloading \/ \E j \in DOMAIN posted : j > i /\ posted[j] \in End

IInv == TypeOK /\ WorkerInv /\ IdsInv /\ DoneInv /\ AnswersTrue /\ LabelInv

------------------------------------------------------------------------------
(* Sequences.                                                              *)

\* What Append does to a sequence, index by index.
LEMMA AppendAt ==
  ASSUME NEW S, NEW s \in Seq(S), NEW e \in S
  PROVE  /\ Append(s, e) \in Seq(S)
         /\ DOMAIN s = 1 .. Len(s) /\ Len(s) \in Nat
         /\ Len(Append(s, e)) = Len(s) + 1
         /\ DOMAIN Append(s, e) = DOMAIN s \cup {Len(s) + 1}
         /\ \A i \in DOMAIN s : Append(s, e)[i] = s[i] /\ i # Len(s) + 1
         /\ Append(s, e)[Len(s) + 1] = e
         /\ Append(s, e) # <<>>
         /\ s # <<>> => Head(Append(s, e)) = Head(s)
<1>1. Len(s) \in Nat /\ DOMAIN s = 1 .. Len(s)
  BY LenProperties
<1>2. s # <<>> => Len(s) > 0
  BY EmptySeq
<1> QED BY <1>1, <1>2, AppendProperties

\* What Tail does to one that is not empty.
LEMMA TailAt ==
  ASSUME NEW S, NEW s \in Seq(S), s # <<>>
  PROVE  /\ Tail(s) \in Seq(S)
         /\ Head(s) \in S /\ Head(s) = s[1] /\ 1 \in DOMAIN s
         /\ \A i \in DOMAIN Tail(s) : /\ i \in Nat \ {0} /\ i + 1 \in DOMAIN s
                                      /\ Tail(s)[i] = s[i + 1]
         /\ \A i \in DOMAIN s : i # 1 => i - 1 \in DOMAIN Tail(s) /\ Tail(s)[i - 1] = s[i]
         /\ DOMAIN s \subseteq Nat
<1>1. Len(s) \in Nat \ {0} /\ DOMAIN s = 1 .. Len(s)
  BY EmptySeq, LenProperties
<1> QED BY <1>1, HeadTailProperties

\* The type of an IQ's parts.
LEMMA IqParts ==
  ASSUME NEW iq \in Iqs
  PROVE  iq.id \in Ids /\ iq.kind \in AllKinds /\ iq.session \in 1 .. MaxSessions
BY KindsAssumption DEF Iqs

------------------------------------------------------------------------------
(* The invariant.                                                          *)

LEMMA InitInv == Init => IInv
<1> SUFFICES ASSUME Init PROVE IInv
  OBVIOUS
<1>1. TypeOK
  <2>1. /\ handled \in Seq(Iqs) /\ pending \in Seq(Iqs) /\ ended \in Seq(Iqs)
        /\ sent \in Seq(Answers)
        /\ posted \in Seq({"login", "begin", "success", "play"})
    BY EmptySeq DEF Init, Tasks!Init
  <2>2. session \in 0 .. MaxSessions
    BY SessionsAssumption DEF Init
  <2> QED BY <2>1, <2>2 DEF Init, TypeOK, Tasks!Init
<1>2. WorkerInv /\ IdsInv /\ DoneInv
  BY DEF Init, WorkerInv, IdsInv, DoneInv, Tasks!Init
<1>3. AnswersTrue /\ LabelInv
  BY DEF Init, AnswersTrue, LabelInv
<1> QED BY <1>1, <1>2, <1>3 DEF IInv

\* A message for the dialog goes to the end of its queue.
LEMMA PostType ==
  ASSUME TypeOK, NEW word \in {"login", "begin", "success", "play"},
         posted' = Append(posted, word)
  PROVE  /\ posted' \in Seq({"login", "begin", "success", "play"})
         /\ DOMAIN posted' = DOMAIN posted \cup {Len(posted) + 1}
         /\ \A i \in DOMAIN posted : posted'[i] = posted[i] /\ i < Len(posted) + 1
         /\ posted'[Len(posted) + 1] = word
<1> DEFINE M == {"login", "begin", "success", "play"}
<1>1. posted \in Seq(M)
  BY DEF TypeOK
<1> HIDE DEF M
<1>2. /\ posted' \in Seq(M)
      /\ DOMAIN posted' = DOMAIN posted \cup {Len(posted) + 1}
      /\ \A i \in DOMAIN posted : posted'[i] = posted[i] /\ i \in 1 .. Len(posted)
      /\ posted'[Len(posted) + 1] = word
      /\ Len(posted) \in Nat
  <2>1. word \in M
    BY DEF M
  <2> QED BY <1>1, <2>1, AppendAt
<1> QED BY <1>2 DEF M

\* An IQ with a fresh id is handled, and its task, if it has one, put to the others.
LEMMA HandleInv ==
  ASSUME IInv, NEW iq \in Iqs, HandleIq(iq),
         \/ UNCHANGED <<pending, ended, broken>>
         \/ Tasks!Put(iq),
         \/ UNCHANGED posted
         \/ posted' = Append(posted, "login")
  PROVE  IInv'
<1>0. TypeOK /\ WorkerInv /\ IdsInv /\ DoneInv /\ AnswersTrue /\ LabelInv
  BY DEF IInv
<1>1. /\ handled' = Append(handled, iq)
      /\ \A i \in DOMAIN handled : handled[i].id # iq.id
      /\ UNCHANGED <<online, session, wpc, worked, done, sent, lost, label, ended, broken>>
      /\ UNCHANGED pending \/ pending' = Append(pending, iq)
  BY DEF HandleIq, Alive, Fresh, workVars, sendVars, Tasks!Put
<1>2. /\ handled' \in Seq(Iqs)
      /\ DOMAIN handled' = DOMAIN handled \cup {Len(handled) + 1}
      /\ \A i \in DOMAIN handled : handled'[i] = handled[i] /\ i # Len(handled) + 1
      /\ handled'[Len(handled) + 1] = iq
  BY <1>0, <1>1, AppendAt DEF TypeOK
<1>3. /\ pending' \in Seq(Iqs)
      /\ pending # <<>> => pending' # <<>> /\ Head(pending') = Head(pending)
      /\ DOMAIN pending \subseteq DOMAIN pending'
      /\ \A i \in DOMAIN pending : pending'[i] = pending[i]
      /\ \A i \in DOMAIN pending' : i \notin DOMAIN pending =>
           pending'[i] = iq /\ i = Len(pending) + 1
  <2>1. pending \in Seq(Iqs)
    BY <1>0 DEF TypeOK
  <2>2. CASE UNCHANGED pending
    BY <2>1, <2>2
  <2>3. CASE pending' = Append(pending, iq)
    <3> HIDE DEF Iqs
    <3> QED BY <2>1, <2>3, AppendAt
  <2> QED BY <1>1, <2>2, <2>3
<1>4. /\ posted' \in Seq({"login", "begin", "success", "play"})
      /\ \/ posted' = posted
         \/ /\ DOMAIN posted' = DOMAIN posted \cup {Len(posted) + 1}
            /\ \A i \in DOMAIN posted : posted'[i] = posted[i] /\ i < Len(posted) + 1
            /\ posted'[Len(posted) + 1] = "login"
  <2>1. CASE UNCHANGED posted
    BY <1>0, <2>1 DEF TypeOK
  <2>2. CASE posted' = Append(posted, "login")
    BY <1>0, <2>2, PostType
  <2> QED BY <2>1, <2>2
<1>5. TypeOK'
  BY <1>0, <1>1, <1>2, <1>3, <1>4 DEF TypeOK
<1>6. WorkerInv'
  BY <1>0, <1>1, <1>3 DEF WorkerInv
<1>7. IdsInv'
  <2>1. \A i, j \in DOMAIN handled' : handled'[i].id = handled'[j].id => i = j
    BY <1>0, <1>1, <1>2 DEF IdsInv
  <2>2. \A i \in DOMAIN pending' : \E j \in DOMAIN handled' : handled'[j] = pending'[i]
    BY <1>0, <1>2, <1>3 DEF IdsInv
  <2>3. \A i, j \in DOMAIN pending' : pending'[i].id = pending'[j].id => i = j
    BY <1>0, <1>1, <1>3 DEF IdsInv
  <2>4. \A i \in DOMAIN sent' :
          /\ \E j \in DOMAIN handled' : handled'[j].id = sent'[i].id
          /\ \A k \in DOMAIN pending' : pending'[k].id # sent'[i].id
    <3> SUFFICES ASSUME NEW i \in DOMAIN sent'
                 PROVE  /\ \E j \in DOMAIN handled' : handled'[j].id = sent'[i].id
                        /\ \A k \in DOMAIN pending' : pending'[k].id # sent'[i].id
      OBVIOUS
    <3>1. \E j \in DOMAIN handled' : handled'[j].id = sent'[i].id
      BY <1>0, <1>1, <1>2, <1>3 DEF IdsInv
    <3>2. \A k \in DOMAIN pending' : pending'[k].id # sent'[i].id
      BY <1>0, <1>1, <1>2, <1>3 DEF IdsInv
    <3> QED BY <3>1, <3>2
  <2>5. \A id \in lost' \cup done' : \E j \in DOMAIN handled' : handled'[j].id = id
    BY <1>0, <1>1, <1>2 DEF IdsInv
  <2> QED BY <2>1, <2>2, <2>3, <2>4, <2>5 DEF IdsInv
<1>8. DoneInv'
  <2>1. iq.id \notin done
    BY <1>0, <1>1 DEF IdsInv
  <2>2. wpc # "idle" => Current' = Current
    BY <1>0, <1>3 DEF Current, WorkerInv
  <2> QED BY <1>0, <1>1, <1>3, <2>1, <2>2 DEF DoneInv
<1>9. AnswersTrue'
  BY <1>0, <1>1, <1>2 DEF AnswersTrue, IdsInv
<1>10. LabelInv'
  <2>1. Downloading' <=> Downloading
    BY <1>0, <1>1, <1>3 DEF Downloading, Current, WorkerInv
  <2> QED BY <1>0, <1>1, <1>4, <2>1 DEF LabelInv, End
<1> QED BY <1>5, <1>6, <1>7, <1>8, <1>9, <1>10 DEF IInv

LEMMA StepInv == ASSUME IInv, [Next]_vars PROVE IInv'
<1>0. TypeOK /\ WorkerInv /\ IdsInv /\ DoneInv /\ AnswersTrue /\ LabelInv
  BY DEF IInv
<1> USE DEF taskVars, workVars, sendVars
<1>1. CASE Online \/ Offline
  <2>1. /\ UNCHANGED <<handled, taskVars, workVars, sendVars, posted, label>>
        /\ online' \in BOOLEAN /\ session' \in 0 .. MaxSessions
        /\ online' => session' >= 1
    <3>1. CASE Online
      BY <1>0, <3>1, SessionsAssumption DEF Online, TypeOK
    <3>2. CASE Offline
      BY <1>0, <3>2 DEF Offline, TypeOK
    <3> QED BY <1>1, <3>1, <3>2
  <2>2. TypeOK' /\ WorkerInv'
    BY <1>0, <2>1 DEF TypeOK, WorkerInv
  <2>3. IdsInv' /\ DoneInv' /\ AnswersTrue' /\ LabelInv'
    BY <1>0, <2>1 DEF IdsInv, DoneInv, AnswersTrue, LabelInv, Current, Downloading
  <2> QED BY <2>2, <2>3 DEF IInv
<1>2. ASSUME NEW iq \in Iqs, HandleLogin(iq) \/ HandleTask(iq) \/ HandleNothing(iq)
      PROVE  IInv'
  BY <1>2, HandleInv DEF HandleLogin, HandleTask, HandleNothing
<1>3. CASE WorkBegin
  <2>1. /\ UNCHANGED <<online, session, handled, taskVars, done, sendVars, label>>
        /\ wpc = "idle" /\ wpc' = "working" /\ pending # <<>> /\ worked' = FALSE
        /\ Current' = Current
        /\ posted' = IF Current.kind = "docdown" THEN Append(posted, "begin") ELSE posted
    BY <1>3 DEF WorkBegin, Current
  <2>2. TypeOK' /\ WorkerInv'
    BY <1>0, <2>1, PostType DEF TypeOK, WorkerInv
  <2>3. IdsInv' /\ DoneInv' /\ AnswersTrue'
    BY <1>0, <2>1 DEF IdsInv, DoneInv, AnswersTrue
  <2>4. LabelInv'
    BY <1>0, <2>1, PostType DEF LabelInv, Downloading, End
  <2> QED BY <2>2, <2>3, <2>4 DEF IInv
<1>9. CASE WorkHangs \/ WorkAstray
  <2>1. /\ UNCHANGED <<online, session, handled, taskVars, worked, done, sendVars, posted, label>>
        /\ wpc = "working" /\ wpc' \in {"stuck", "undefined"} /\ Current' = Current
    BY <1>9 DEF WorkHangs, WorkAstray, Current
  <2>2. TypeOK' /\ WorkerInv'
    BY <1>0, <2>1 DEF TypeOK, WorkerInv
  <2>3. IdsInv' /\ DoneInv' /\ AnswersTrue' /\ LabelInv'
    BY <1>0, <2>1 DEF IdsInv, DoneInv, AnswersTrue, LabelInv, Downloading
  <2> QED BY <2>2, <2>3 DEF IInv
<1>4. CASE WorkDownload \/ WorkPlay \/ WorkCapture
  <2>1. /\ UNCHANGED <<online, session, handled, taskVars, sendVars, label>>
        /\ wpc = "working" /\ wpc' = "worked" /\ Current' = Current
        /\ pending # <<>> /\ 1 \in DOMAIN pending /\ Current = pending[1]
        /\ Current \in Iqs
    BY <1>0, <1>4, TailAt DEF WorkDownload, WorkPlay, WorkCapture, Current, WorkerInv, TypeOK
  <2>2. PICK ok \in BOOLEAN :
          /\ done' = IF ok THEN done \cup {Current.id} ELSE done
          /\ worked' \in BOOLEAN
          /\ Current.kind # "docdown" => (ok => worked')
          /\ Current.kind # "docdown" => (worked' => ok \/ Current.kind = "sccut")
    <3>1. CASE WorkDownload
      BY <3>1 DEF WorkDownload
    <3>2. CASE WorkPlay
      <4>1. /\ worked' \in BOOLEAN
            /\ done' = IF worked' THEN done \cup {Current.id} ELSE done
        BY <3>2 DEF WorkPlay
      <4> QED BY <4>1
    <3>3. CASE WorkCapture
      <4>1. /\ Current.kind = "sccut" /\ worked' \in BOOLEAN
            /\ \E written \in BOOLEAN : /\ written => worked'
                                        /\ done' = IF written THEN done \cup {Current.id} ELSE done
        BY <3>3 DEF WorkCapture
      <4> QED BY <4>1
    <3> QED BY <1>4, <3>1, <3>2, <3>3
  <2>3. /\ posted' \in Seq({"login", "begin", "success", "play"})
        /\ DOMAIN posted \subseteq DOMAIN posted'
        /\ \A i \in DOMAIN posted : posted'[i] = posted[i]
        /\ \A i \in DOMAIN posted' : posted'[i] = "begin" => i \in DOMAIN posted
        /\ Downloading => \E j \in DOMAIN posted' :
             posted'[j] = "success" /\ \A i \in DOMAIN posted : i < j
    <3>1. CASE WorkDownload
      BY <1>0, <3>1, PostType DEF WorkDownload
    <3>2. CASE WorkPlay \/ WorkCapture
      <4>1. ~Downloading
        BY <3>2 DEF WorkPlay, WorkCapture, Downloading
      <4>2. CASE posted' = posted
        BY <1>0, <4>1, <4>2 DEF TypeOK
      <4>3. CASE posted' = Append(posted, "play")
        BY <1>0, <4>1, <4>3, PostType
      <4> QED BY <3>2, <4>2, <4>3 DEF WorkPlay, WorkCapture
    <3> QED BY <1>4, <3>1, <3>2
  <2>4. TypeOK' /\ WorkerInv'
    BY <1>0, <2>1, <2>2, <2>3, IqParts DEF TypeOK, WorkerInv
  <2>5. \A id \in done' : id \in done \/ id = pending[1].id
    BY <2>1, <2>2
  <2>6. IdsInv'
    BY <1>0, <2>1, <2>5 DEF IdsInv
  <2>7. DoneInv'
    <3>1. \A k \in DOMAIN pending : pending[k].id \in done' => k = 1
      BY <1>0, <2>1, <2>5 DEF DoneInv, IdsInv
    <3>2. Current.id \notin done
      BY <1>0, <2>1 DEF DoneInv
    <3>3. Current.kind # "docdown" =>
            /\ Current.id \in done' => worked'
            /\ worked' => Current.id \in done' \/ Current.kind = "sccut"
      BY <2>2, <3>2
    <3> QED BY <2>1, <3>1, <3>3 DEF DoneInv
  <2>8. AnswersTrue'
    <3>1. \A i \in DOMAIN sent : sent[i].id \in done' <=> sent[i].id \in done
      BY <1>0, <2>1, <2>2, <2>5 DEF IdsInv
    <3> QED BY <1>0, <2>1, <3>1 DEF AnswersTrue
  <2>9. LabelInv'
    <3>1. ~Downloading'
      BY <2>1 DEF Downloading
    <3>2. \A i \in DOMAIN posted : posted[i] = "begin" =>
            \E j \in DOMAIN posted' : j > i /\ posted'[j] \in End
      BY <1>0, <2>3 DEF LabelInv, End
    <3>3. label = "down" => \E j \in DOMAIN posted' : posted'[j] \in End
      BY <1>0, <2>3 DEF LabelInv, End
    <3> QED BY <2>1, <2>3, <3>1, <3>2, <3>3 DEF LabelInv
  <2> QED BY <2>4, <2>6, <2>7, <2>8, <2>9 DEF IInv
<1>5. CASE WorkEnd
  <2>1. /\ UNCHANGED <<online, session, handled, worked, done, posted, label, broken>>
        /\ wpc = "worked" /\ wpc' = "idle"
        /\ pending # <<>> /\ pending' = Tail(pending) /\ ended' = Append(ended, Current)
        /\ Current = pending[1] /\ 1 \in DOMAIN pending /\ Current \in Iqs
    BY <1>0, <1>5, TailAt DEF WorkEnd, Current, WorkerInv, TypeOK, Tasks!Finish
  <2>2. /\ pending' \in Seq(Iqs) /\ ended' \in Seq(Iqs)
        /\ \A k \in DOMAIN pending' : /\ k + 1 \in DOMAIN pending /\ k + 1 # 1
                                      /\ pending'[k] = pending[k + 1]
        /\ DOMAIN pending' \subseteq Nat
    <3>1. DOMAIN pending' \subseteq Nat
      BY <1>0, <2>1, TailAt DEF TypeOK
    <3> QED BY <1>0, <2>1, <3>1, TailAt, AppendProperties DEF TypeOK
  <2>3. /\ sent' \in Seq(Answers)
        /\ DOMAIN sent \subseteq DOMAIN sent'
        /\ \A i \in DOMAIN sent : sent'[i] = sent[i]
        /\ \A i \in DOMAIN sent' : i \notin DOMAIN sent =>
             /\ sent'[i].id = Current.id
             /\ sent'[i].type = "result" <=> worked
        /\ lost' \in {lost, lost \cup {Current.id}}
    <3>1. CASE /\ online
               /\ sent' = Append(sent, Answer(IF worked THEN "result" ELSE "error"))
               /\ UNCHANGED lost
      <4> DEFINE a == Answer(IF worked THEN "result" ELSE "error")
      <4>1. session \in 1 .. MaxSessions
        BY <1>0, <3>1 DEF TypeOK, WorkerInv
      <4>2. a \in Answers /\ a.id = Current.id /\ (a.type = "result" <=> worked)
        BY <1>0, <2>1, <4>1, IqParts DEF Answer, Answers, TypeOK
      <4> HIDE DEF a
      <4>3. sent' = Append(sent, a) /\ sent \in Seq(Answers)
        BY <1>0, <3>1 DEF a, TypeOK
      <4> QED BY <3>1, <4>2, <4>3, AppendAt
    <3>2. CASE UNCHANGED sent /\ lost' = lost \cup {Current.id}
      BY <1>0, <3>2 DEF TypeOK
    <3> QED BY <1>0, <1>5, <3>1, <3>2 DEF WorkEnd, TypeOK
  <2>4. TypeOK' /\ WorkerInv'
    BY <1>0, <2>1, <2>2, <2>3, IqParts DEF TypeOK, WorkerInv
  <2>5. IdsInv'
    <3>1. \A i \in DOMAIN pending' : \E j \in DOMAIN handled : handled[j] = pending'[i]
      BY <1>0, <2>2 DEF IdsInv
    <3>2. \A i, j \in DOMAIN pending' : pending'[i].id = pending'[j].id => i = j
      BY <1>0, <2>2 DEF IdsInv
    <3>3. /\ \E j \in DOMAIN handled : handled[j].id = Current.id
          /\ \A k \in DOMAIN pending' : pending'[k].id # Current.id
      BY <1>0, <2>1, <2>2 DEF IdsInv
    <3>4. \A i \in DOMAIN sent' :
            /\ \E j \in DOMAIN handled : handled[j].id = sent'[i].id
            /\ \A k \in DOMAIN pending' : pending'[k].id # sent'[i].id
      BY <1>0, <2>2, <2>3, <3>3 DEF IdsInv
    <3>5. \A id \in lost' \cup done : \E j \in DOMAIN handled : handled[j].id = id
      BY <1>0, <2>3, <3>3 DEF IdsInv
    <3>6. \A i, j \in DOMAIN handled : handled[i].id = handled[j].id => i = j
      BY <1>0 DEF IdsInv
    <3> QED BY <2>1, <3>1, <3>2, <3>4, <3>5, <3>6 DEF IdsInv
  <2>6. DoneInv'
    BY <1>0, <2>1, <2>2 DEF DoneInv
  <2>7. AnswersTrue'
    <3>1. ASSUME NEW j \in DOMAIN handled, handled[j].id = Current.id
          PROVE  handled[j] = Current
      BY <1>0, <2>1, <3>1 DEF IdsInv
    <3> QED BY <1>0, <2>1, <2>3, <3>1 DEF AnswersTrue, DoneInv
  <2>8. LabelInv'
    BY <1>0, <2>1 DEF LabelInv, Downloading
  <2> QED BY <2>4, <2>5, <2>6, <2>7, <2>8 DEF IInv
<1>6. CASE ManagerBreaks
  <2>1. /\ UNCHANGED <<online, session, handled, workVars, sendVars, posted, label>>
        /\ UNCHANGED <<pending, ended>> /\ broken' = TRUE
    BY <1>6 DEF ManagerBreaks, Tasks!Break
  <2>2. TypeOK' /\ WorkerInv'
    BY <1>0, <2>1 DEF TypeOK, WorkerInv
  <2>3. IdsInv' /\ DoneInv' /\ AnswersTrue' /\ LabelInv'
    BY <1>0, <2>1 DEF IdsInv, DoneInv, AnswersTrue, LabelInv, Current, Downloading
  <2> QED BY <2>2, <2>3 DEF IInv
<1>7. CASE OnMessage
  <2>1. /\ UNCHANGED <<online, session, handled, taskVars, workVars, sendVars>>
        /\ posted # <<>> /\ posted' = Tail(posted) /\ Current' = Current
    BY <1>7 DEF OnMessage, Current
  <2>2. Head(posted) = "begin" => label' = "down"
    BY <1>7 DEF OnMessage
  <2>3. Head(posted) = "success" => label' = "downF"
    BY <1>7 DEF OnMessage
  <2>4. Head(posted) = "login" => label' = "other"
    BY <1>7 DEF OnMessage
  <2>5. Head(posted) = "play" => label' = label
    BY <1>7 DEF OnMessage
  <2>6. /\ posted' \in Seq({"login", "begin", "success", "play"})
        /\ Head(posted) \in {"login", "begin", "success", "play"}
        /\ Head(posted) = posted[1] /\ 1 \in DOMAIN posted
        /\ DOMAIN posted \subseteq Nat
        /\ \A i \in DOMAIN posted' : /\ i \in Nat \ {0} /\ i + 1 \in DOMAIN posted
                                     /\ posted'[i] = posted[i + 1]
        /\ \A i \in DOMAIN posted :
             i # 1 => i - 1 \in DOMAIN posted' /\ posted'[i - 1] = posted[i]
    BY <1>0, <2>1, TailAt DEF TypeOK
  <2>7. TypeOK' /\ WorkerInv'
    BY <1>0, <2>1, <2>2, <2>3, <2>4, <2>5, <2>6 DEF TypeOK, WorkerInv
  <2>8. IdsInv' /\ DoneInv' /\ AnswersTrue'
    BY <1>0, <2>1 DEF IdsInv, DoneInv, AnswersTrue
  <2>9. LabelInv'
    <3>1. Downloading' <=> Downloading
      BY <2>1 DEF Downloading
    <3>2. ASSUME label' = "down", ~Downloading
          PROVE  \E j \in DOMAIN posted' : posted'[j] \in End
      <4>1. \E j \in DOMAIN posted : posted[j] \in End /\ j # 1
        BY <1>0, <2>2, <2>3, <2>4, <2>5, <2>6, <3>2 DEF LabelInv, End
      <4> QED BY <2>6, <4>1
    <3>3. ASSUME NEW i \in DOMAIN posted', posted'[i] = "begin", ~Downloading
          PROVE  \E j \in DOMAIN posted' : j > i /\ posted'[j] \in End
      <4>1. PICK j \in DOMAIN posted : j > i + 1 /\ posted[j] \in End
        BY <1>0, <2>6, <3>3 DEF LabelInv
      <4>2. j - 1 \in DOMAIN posted' /\ j - 1 > i /\ posted'[j - 1] \in End
        BY <2>6, <4>1
      <4> QED BY <4>2
    <3> QED BY <3>1, <3>2, <3>3 DEF LabelInv
  <2> QED BY <2>7, <2>8, <2>9 DEF IInv
<1>8. CASE UNCHANGED vars
  BY <1>0, <1>8
  DEF vars, IInv, TypeOK, WorkerInv, IdsInv, DoneInv, AnswersTrue, LabelInv, Current,
      Downloading
<1> QED BY <1>1, <1>2, <1>3, <1>4, <1>5, <1>6, <1>7, <1>8, <1>9 DEF Next, WorkerStep

LEMMA Invariance == Spec => []IInv
BY InitInv, StepInv, PTL DEF Spec
------------------------------------------------------------------------------
(* The properties.                                                         *)

\* Every variable of the service keeps its type: an answer leaves in a session that
\* there is, and is a result or an error.
THEOREM TypeCorrect == Spec => []TypeOK
BY Invariance, PTL DEF IInv

\* The outcome of one task is never sent as another's, however many wait: what was done
\* is not answered with an "error", nor what was not with a "result", but for a picture
\* whose writing nobody checks.
THEOREM AnswersAreTrue == Spec => []AnswersTrue
BY Invariance, PTL DEF IInv

\* The dialog's text does not stay at "downloading" when there is no download.
THEOREM LabelIsNotStuck == Spec => []LabelNotStuck
<1>1. IInv => LabelNotStuck
  BY DEF IInv, LabelInv, LabelNotStuck, Downloading
<1> QED BY <1>1, Invariance, PTL

------------------------------------------------------------------------------
(* The abstract specification.                                             *)

\* Ids of a sequence of records that have some.
LEMMA IdsAt ==
  ASSUME NEW S, NEW s \in Seq(S), \A e \in S : e.id \in Ids
  PROVE  /\ SeqOfIds(s) \in Seq(Ids)
         /\ Len(SeqOfIds(s)) = Len(s)
         /\ \A i \in 1 .. Len(s) : SeqOfIds(s)[i] = s[i].id
<1>1. Len(s) \in Nat /\ DOMAIN s = 1 .. Len(s) /\ \A i \in DOMAIN s : s[i] \in S
  BY LenProperties, ElementOfSeq
<1>2. SeqOfIds(s) \in [1 .. Len(s) -> Ids]
  BY <1>1 DEF SeqOfIds
<1>3. SeqOfIds(s) \in Seq(Ids)
  BY <1>1, <1>2, SeqDef
<1>4. \A i \in 1 .. Len(s) : SeqOfIds(s)[i] = s[i].id
  BY <1>1 DEF SeqOfIds
<1>5. Len(SeqOfIds(s)) = Len(s)
  <2>1. DOMAIN SeqOfIds(s) = 1 .. Len(s)
    BY <1>2
  <2> QED BY <1>1, <1>3, <2>1, LenProperties
<1> QED BY <1>3, <1>4, <1>5

\* Ids of an appended sequence, and of a tail.
LEMMA IdsOfAppend ==
  ASSUME NEW S, NEW s \in Seq(S), NEW e \in S, \A f \in S : f.id \in Ids
  PROVE  SeqOfIds(Append(s, e)) = Append(SeqOfIds(s), e.id)
<1>1. /\ Append(s, e) \in Seq(S) /\ Len(Append(s, e)) = Len(s) + 1 /\ Len(s) \in Nat
      /\ \A i \in 1 .. Len(s) : Append(s, e)[i] = s[i]
      /\ Append(s, e)[Len(s) + 1] = e
  BY AppendProperties, LenProperties
<1>2. /\ SeqOfIds(Append(s, e)) \in Seq(Ids) /\ Len(SeqOfIds(Append(s, e))) = Len(s) + 1
      /\ \A i \in 1 .. Len(s) + 1 : SeqOfIds(Append(s, e))[i] = Append(s, e)[i].id
  BY <1>1, IdsAt
<1>3. /\ SeqOfIds(s) \in Seq(Ids) /\ Len(SeqOfIds(s)) = Len(s)
      /\ \A i \in 1 .. Len(s) : SeqOfIds(s)[i] = s[i].id
  BY IdsAt
<1>4. /\ Append(SeqOfIds(s), e.id) \in Seq(Ids)
      /\ Len(Append(SeqOfIds(s), e.id)) = Len(s) + 1
      /\ \A i \in 1 .. Len(s) : Append(SeqOfIds(s), e.id)[i] = s[i].id
      /\ Append(SeqOfIds(s), e.id)[Len(s) + 1] = e.id
  BY <1>3, AppendProperties
<1>5. \A i \in 1 .. Len(s) + 1 :
        SeqOfIds(Append(s, e))[i] = Append(SeqOfIds(s), e.id)[i]
  BY <1>1, <1>2, <1>4
<1> QED BY <1>2, <1>4, <1>5, SeqEqual

LEMMA IdsOfTail ==
  ASSUME NEW S, NEW s \in Seq(S), s # <<>>, \A f \in S : f.id \in Ids
  PROVE  /\ SeqOfIds(Tail(s)) = Tail(SeqOfIds(s))
         /\ Head(SeqOfIds(s)) = Head(s).id
         /\ SeqOfIds(s) # <<>>
<1>1. /\ Tail(s) \in Seq(S) /\ Len(Tail(s)) = Len(s) - 1 /\ Len(s) \in Nat \ {0}
      /\ \A i \in 1 .. Len(s) - 1 : Tail(s)[i] = s[i + 1]
      /\ Head(s) = s[1]
  BY HeadTailProperties, EmptySeq, LenProperties
<1>2. /\ SeqOfIds(Tail(s)) \in Seq(Ids) /\ Len(SeqOfIds(Tail(s))) = Len(s) - 1
      /\ \A i \in 1 .. Len(s) - 1 : SeqOfIds(Tail(s))[i] = s[i + 1].id
  <2>1. /\ SeqOfIds(Tail(s)) \in Seq(Ids) /\ Len(SeqOfIds(Tail(s))) = Len(Tail(s))
        /\ \A i \in 1 .. Len(Tail(s)) : SeqOfIds(Tail(s))[i] = Tail(s)[i].id
    BY <1>1, IdsAt
  <2> QED BY <1>1, <2>1
<1>3. /\ SeqOfIds(s) \in Seq(Ids) /\ Len(SeqOfIds(s)) = Len(s)
      /\ \A i \in 1 .. Len(s) : SeqOfIds(s)[i] = s[i].id
  BY IdsAt
<1>4. SeqOfIds(s) # <<>>
  BY <1>1, <1>3, EmptySeq
<1>5. /\ Tail(SeqOfIds(s)) \in Seq(Ids) /\ Len(Tail(SeqOfIds(s))) = Len(s) - 1
      /\ \A i \in 1 .. Len(s) - 1 : Tail(SeqOfIds(s))[i] = s[i + 1].id
      /\ Head(SeqOfIds(s)) = s[1].id
  BY <1>1, <1>3, <1>4, HeadTailProperties
<1>6. SeqOfIds(Tail(s)) = Tail(SeqOfIds(s))
  BY <1>2, <1>5, SeqEqual
<1> QED BY <1>1, <1>4, <1>5, <1>6

\* The ids of the records there are.
LEMMA HaveIds == (\A e \in Iqs : e.id \in Ids) /\ (\A e \in Answers : e.id \in Ids)
BY DEF Iqs, Answers

LEMMA InitService == Init => Service!Init
BY DEF Init, Tasks!Init, Service!Init, SeqOfIds

LEMMA StepService == ASSUME IInv, [Next]_vars PROVE [Service!Next]_(Service!serviceVars)
<1> USE HaveIds DEF taskVars, workVars, sendVars
<1>0. /\ TypeOK /\ WorkerInv /\ IdsInv
      /\ pending \in Seq(Iqs) /\ sent \in Seq(Answers) /\ handled \in Seq(Iqs)
  BY DEF IInv, TypeOK
<1>1. UNCHANGED <<pending, sent, lost, broken>> => UNCHANGED Service!serviceVars
  BY DEF Service!serviceVars, SeqOfIds
<1>2. ASSUME NEW iq \in Iqs, HandleTask(iq)
      PROVE  Service!Request(iq.id)
  <2>1. /\ ~broken /\ pending' = Append(pending, iq) /\ UNCHANGED <<sent, lost, broken>>
        /\ \A i \in DOMAIN handled : handled[i].id # iq.id
    BY <1>2 DEF HandleTask, HandleIq, Alive, Fresh, Tasks!Put
  <2>2. iq.id \notin Service!Known
    <3>1. /\ \A i \in DOMAIN SeqOfIds(pending) : SeqOfIds(pending)[i] # iq.id
          /\ \A i \in DOMAIN SeqOfIds(sent) : SeqOfIds(sent)[i] # iq.id
      BY <1>0, <2>1 DEF SeqOfIds, IdsInv
    <3>2. iq.id \notin lost
      BY <1>0, <2>1 DEF IdsInv
    <3> QED BY <3>1, <3>2 DEF Service!Known
  <2>3. SeqOfIds(pending') = Append(SeqOfIds(pending), iq.id)
    BY <1>0, <2>1, IdsOfAppend
  <2>4. SeqOfIds(sent') = SeqOfIds(sent)
    BY <2>1
  <2> QED BY <2>1, <2>2, <2>3, <2>4 DEF Service!Request, SeqOfIds
<1>3. ASSUME WorkEnd
      PROVE  Service!Answer \/ Service!Lose
  <2>1. /\ ~broken /\ pending # <<>> /\ pending' = Tail(pending) /\ UNCHANGED broken
        /\ Current = Head(pending) /\ Current \in Iqs
    BY <1>0, <1>3, TailAt DEF WorkEnd, Alive, WorkerInv, Tasks!Finish, Current
  <2>2. /\ SeqOfIds(pending') = Tail(SeqOfIds(pending))
        /\ SeqOfIds(pending) # <<>>
        /\ Head(SeqOfIds(pending)) = Current.id
    BY <1>0, <2>1, IdsOfTail
  <2>3. CASE online
    <3> DEFINE a == Answer(IF worked THEN "result" ELSE "error")
    <3>1. a \in Answers /\ a.id = Current.id
      BY <1>0, <2>1, <2>3, IqParts DEF Answer, Answers, TypeOK, WorkerInv
    <3>2. sent' = Append(sent, a) /\ lost' = lost
      BY <1>3, <2>3 DEF WorkEnd
    <3> HIDE DEF a
    <3>3. SeqOfIds(sent') = Append(SeqOfIds(sent), Current.id)
      BY <1>0, <3>1, <3>2, IdsOfAppend
    <3>4. Service!Answer
      BY <2>1, <2>2, <3>2, <3>3 DEF Service!Answer, SeqOfIds
    <3> QED BY <3>4
  <2>4. CASE ~online
    <3>1. sent' = sent /\ lost' = lost \cup {Current.id}
      BY <1>3, <2>4 DEF WorkEnd
    <3>2. Service!Lose
      BY <2>1, <2>2, <3>1 DEF Service!Lose, SeqOfIds
    <3> QED BY <3>2
  <2> QED BY <2>3, <2>4
<1>4. ASSUME ManagerBreaks
      PROVE  Service!Fail
  <2>1. ~broken /\ pending = <<>> /\ broken' = TRUE /\ UNCHANGED <<pending, sent, lost>>
    BY <1>4 DEF ManagerBreaks, Tasks!Break
  <2> QED BY <2>1 DEF Service!Fail, SeqOfIds
<1>6. ASSUME NEW iq \in Iqs, HandleLogin(iq) \/ HandleNothing(iq)
      PROVE  UNCHANGED <<pending, sent, lost, broken>>
  BY <1>6 DEF HandleLogin, HandleNothing, HandleIq
<1>7. \/ Online \/ Offline \/ OnMessage \/ UNCHANGED vars
      \/ WorkBegin \/ WorkDownload \/ WorkPlay \/ WorkCapture \/ WorkHangs \/ WorkAstray
      => UNCHANGED <<pending, sent, lost, broken>>
  BY DEF Online, Offline, WorkBegin, WorkDownload, WorkPlay, WorkCapture, WorkHangs,
         WorkAstray, OnMessage, vars
<1>8. \A iq \in Iqs : iq.id \in Ids
  OBVIOUS
<1> QED
  BY <1>1, <1>2, <1>3, <1>4, <1>6, <1>7, <1>8 DEF Next, WorkerStep, Service!Next

\* IqService implements AnswerService: a request that starts a task is answered once
\* and in its turn, or its answer is lost.
THEOREM ImplementsService == Spec => ServiceSpec
BY InitService, StepService, Invariance, PTL DEF Spec, ServiceSpec, Service!Spec

------------------------------------------------------------------------------
(* The task manager.                                                       *)

\* Whatever the worker, the sessions and the dialog do besides, they leave the manager
\* the queue that it promises to be: tasks are put in by handleIq alone, and finished by
\* WorkEnd alone, in their order.
LEMMA KeepsTheQueue == Spec => Tasks!Spec
<1>1. Init => Tasks!Init
  BY DEF Init
<1>2. [Next]_vars => [Tasks!Next]_(Tasks!queueVars)
  <2> SUFFICES ASSUME [Next]_vars
               PROVE  [Tasks!Next]_(Tasks!queueVars)
    OBVIOUS
  <2>1. CASE Online \/ Offline \/ OnMessage \/ UNCHANGED vars
    BY <2>1 DEF Online, Offline, OnMessage, vars, taskVars, Tasks!queueVars
  <2>2. ASSUME NEW iq \in Iqs, HandleLogin(iq) \/ HandleNothing(iq)
        PROVE  [Tasks!Next]_(Tasks!queueVars)
    BY <2>2 DEF HandleLogin, HandleNothing, taskVars, Tasks!queueVars
  <2>3. ASSUME NEW iq \in Iqs, HandleTask(iq)
        PROVE  [Tasks!Next]_(Tasks!queueVars)
    BY <2>3 DEF HandleTask, Tasks!Next
  <2>4. CASE \/ WorkBegin \/ WorkDownload \/ WorkPlay \/ WorkCapture
              \/ WorkHangs \/ WorkAstray
    BY <2>4 DEF WorkBegin, WorkDownload, WorkPlay, WorkCapture, WorkHangs, WorkAstray,
                taskVars, Tasks!queueVars
  <2>5. CASE WorkEnd
    BY <2>5 DEF WorkEnd, Tasks!Next
  <2>6. CASE ManagerBreaks
    BY <2>6 DEF ManagerBreaks, Tasks!Next
  <2> QED BY <2>1, <2>2, <2>3, <2>4, <2>5, <2>6 DEF Next, WorkerStep
<1> QED BY <1>1, <1>2, PTL DEF Spec, Tasks!Spec
------------------------------------------------------------------------------
(* Send to a list: Broadcast.                                              *)

LoopTypeInv ==
  /\ msg \in Payloads
  /\ members \in Seq(Members) /\ Len(members) <= MaxMembers
  /\ it \in 0 .. Len(members)
  /\ lpc \in {"fill", "loop", "clone", "cloning", "delete", "returned", "undefined"}
  /\ ext \in 0 .. made /\ iqExt \in 0 .. made
  /\ copies \in Seq(Jids \X Payloads)
  /\ \A e \in DOMAIN heap : heap[e] \in Payloads

\* What is allocated.
HeapInv ==
  /\ made \in Nat /\ made <= Reached + 1
  /\ lpc = "fill" => DOMAIN heap = {} /\ made = 0 /\ it = 0
  /\ lpc = "loop" => ext # 0 /\ DOMAIN heap = {ext}
  /\ lpc \in {"clone", "cloning", "undefined"} =>
       /\ ext # 0 /\ DOMAIN heap = {ext} /\ iqExt = ext
       /\ it < Len(members) /\ made <= it + 1
  /\ lpc = "delete" => ext # 0 /\ iqExt # 0 /\ ext # iqExt /\ DOMAIN heap = {ext, iqExt}
                      /\ it < Len(members)
  /\ lpc = "returned" => /\ DOMAIN heap = {}
                         /\ it = Len(members) \/ (msg.kind = "docplay" /\ ~msg.docs)

\* What the loop's extension says: the message's until it has been given to an IQ and
\* cloned.  Nothing comes after the first IQ unless there is a clone.
ExtInv ==
  /\ lpc = "fill" => copies = <<>>
  /\ lpc = "loop" => heap[ext] = IF copies = <<>> THEN msg ELSE Cloned
  /\ lpc = "clone" => copies # <<>> /\ heap[ext] = IF Len(copies) = 1 THEN msg ELSE Cloned
  /\ lpc = "delete" => copies # <<>> /\ heap[ext] = Cloned
  /\ Len(copies) > 1 => Copyable
  /\ (lpc \in {"loop", "delete"} /\ copies # <<>>) => Copyable
  /\ lpc \in {"cloning", "undefined"} => ~Copyable

\* Which member each copy went to.
CopiesTo(to) ==
  /\ {to[i] : i \in DOMAIN copies} = {k \in 1 .. Reached : members[k].online}
  /\ \A i, j \in DOMAIN copies : i < j => to[i] < to[j]
  /\ \A i \in DOMAIN copies : /\ copies[i][1] = members[to[i]].jid
                              /\ copies[i][2] = IF i = 1 THEN msg ELSE Cloned
CopiesInv == \E to \in [DOMAIN copies -> DOMAIN members] : CopiesTo(to)

LoopInv == LoopTypeInv /\ HeapInv /\ ExtInv /\ CopiesInv

LEMMA LoopInitInv == ASSUME BroadcastInit PROVE LoopInv
<1>1. LoopTypeInv
  BY MembersAssumption DEF BroadcastInit, LoopTypeInv
<1>2. HeapInv
  BY DEF BroadcastInit, HeapInv, Reached
<1>3. CopiesInv
  <2> DEFINE to == [i \in DOMAIN copies |-> 0]
  <2>1. DOMAIN copies = {} /\ it = 0 /\ lpc = "fill"
    BY DEF BroadcastInit
  <2>2. to \in [DOMAIN copies -> DOMAIN members] /\ CopiesTo(to)
    BY <2>1 DEF CopiesTo, Reached
  <2> QED BY <2>2 DEF CopiesInv
<1>4. ExtInv
  BY DEF BroadcastInit, ExtInv
<1> QED BY <1>1, <1>2, <1>3, <1>4 DEF LoopInv

\* A step that sends nothing and passes nobody that is online.
LEMMA CopiesKept ==
  ASSUME CopiesInv, UNCHANGED <<msg, members, copies>>,
         {k \in 1 .. Reached' : members[k].online} = {k \in 1 .. Reached : members[k].online}
  PROVE  CopiesInv'
<1>1. PICK to \in [DOMAIN copies -> DOMAIN members] : CopiesTo(to)
  BY DEF CopiesInv
<1>2. CopiesTo(to)'
  BY <1>1 DEF CopiesTo, Cloned
<1> QED BY <1>2 DEF CopiesInv

LEMMA FillInv == ASSUME LoopInv, FillExtension PROVE LoopInv'
<1>1. LoopTypeInv'
  BY DEF LoopInv, LoopTypeInv, HeapInv, FillExtension, With
<1>2. HeapInv'
  <2>1. lpc = "fill" /\ made = 0 /\ ext = 0 /\ it = 0 /\ it' = 0 /\ DOMAIN heap = {}
    BY DEF LoopInv, LoopTypeInv, HeapInv, FillExtension
  <2>2. CASE lpc' = "returned" /\ UNCHANGED <<heap, made, ext>>
    BY <2>1, <2>2 DEF HeapInv, Reached, FillExtension
  <2>3. CASE lpc' = "loop" /\ made' = 1 /\ ext' = 1 /\ heap' = With(1, msg)
    <3>1. DOMAIN heap' = {1}
      BY <2>1, <2>3 DEF With
    <3> QED BY <2>1, <2>3, <3>1 DEF HeapInv, Reached
  <2> QED BY <2>2, <2>3 DEF FillExtension
<1>3. CopiesInv'
  BY CopiesKept DEF LoopInv, Reached, FillExtension
<1>4. ExtInv'
  BY DEF LoopInv, LoopTypeInv, ExtInv, HeapInv, FillExtension, With, Copyable, Cloned
<1> QED BY <1>1, <1>2, <1>3, <1>4 DEF LoopInv

LEMMA SkipInv == ASSUME LoopInv, Skip PROVE LoopInv'
<1>1. LoopTypeInv'
  BY LenProperties DEF LoopInv, LoopTypeInv, HeapInv, Skip
<1>2. HeapInv'
  BY DEF LoopInv, LoopTypeInv, HeapInv, Reached, Skip
<1>3. CopiesInv'
  <2>1. {k \in 1 .. Reached' : members[k].online} = {k \in 1 .. Reached : members[k].online}
    BY DEF LoopInv, LoopTypeInv, Reached, Skip
  <2> QED BY <2>1, CopiesKept DEF LoopInv, Skip
<1>4. ExtInv'
  BY DEF LoopInv, ExtInv, Skip, Copyable, Cloned
<1> QED BY <1>1, <1>2, <1>3, <1>4 DEF LoopInv

LEMMA SendIqInv == ASSUME LoopInv, SendIq PROVE LoopInv'
<1>1. /\ heap[ext] \in Payloads /\ ext \in DOMAIN heap
      /\ heap[ext] = IF copies = <<>> THEN msg ELSE Cloned
      /\ UNCHANGED <<msg, heap, ext>>
  BY DEF LoopInv, LoopTypeInv, HeapInv, ExtInv, SendIq
<1>2. members[it + 1].jid \in Jids /\ it + 1 \in DOMAIN members
  <2>1. it + 1 \in 1 .. Len(members) /\ DOMAIN members = 1 .. Len(members)
    BY LenProperties DEF LoopInv, LoopTypeInv, SendIq
  <2>2. members[it + 1] \in Members
    BY <2>1, ElementOfSeq DEF LoopInv, LoopTypeInv
  <2> QED BY <2>1, <2>2 DEF Members
<1>3. LoopTypeInv'
  <2>1. <<members[it + 1].jid, heap[ext]>> \in Jids \X Payloads
    BY <1>1, <1>2
  <2>2. copies' \in Seq(Jids \X Payloads)
    BY <2>1, AppendProperties DEF LoopInv, LoopTypeInv, SendIq
  <2> QED BY <2>2 DEF LoopInv, LoopTypeInv, SendIq
<1>4. HeapInv'
  BY DEF LoopInv, LoopTypeInv, HeapInv, Reached, SendIq
<1>5. CopiesInv'
  <2> DEFINE e == <<members[it + 1].jid, heap[ext]>>
             n == Len(copies)
  <2>1. PICK to \in [DOMAIN copies -> DOMAIN members] : CopiesTo(to)
    BY DEF LoopInv, CopiesInv
  <2>2. n \in Nat /\ DOMAIN copies = 1 .. n /\ DOMAIN members = 1 .. Len(members) /\ Len(members) \in Nat
    BY LenProperties DEF LoopInv, LoopTypeInv
  <2>3. /\ DOMAIN copies' = 1 .. n + 1 /\ copies'[n + 1] = e
        /\ \A i \in 1 .. n : copies'[i] = copies[i]
    <3>1. e \in Jids \X Payloads /\ copies \in Seq(Jids \X Payloads) /\ copies' = Append(copies, e)
      BY <1>1, <1>2 DEF LoopInv, LoopTypeInv, SendIq
    <3> HIDE DEF e
    <3> QED BY <2>2, <3>1, AppendProperties, LenProperties
  <2> HIDE DEF n
  <2> PICK to2 : to2 = [i \in 1 .. n + 1 |-> IF i = n + 1 THEN it + 1 ELSE to[i]]
    OBVIOUS
  <2>4. to2 \in [DOMAIN copies' -> DOMAIN members']
    BY <1>2, <2>2, <2>3 DEF SendIq
  <2> DEFINE Ok(f) ==
        /\ {f[i] : i \in DOMAIN copies'} = {k \in 1 .. Reached' : members'[k].online}
        /\ \A i, j \in DOMAIN copies' : i < j => f[i] < f[j]
        /\ \A i \in DOMAIN copies' : /\ copies'[i][1] = members'[f[i]].jid
                                     /\ copies'[i][2] = IF i = 1 THEN msg' ELSE Cloned'
  <2>5. Ok(to2)
    <3>1. /\ Reached = it /\ Reached' = it + 1 /\ it \in Nat
          /\ members[it + 1].online /\ members' = members
      BY DEF LoopInv, LoopTypeInv, Reached, SendIq
    <3>2. \A i \in 1 .. n : to[i] \in 1 .. it
      BY <2>1, <2>2, <3>1 DEF CopiesTo
    <3>3. {to2[i] : i \in DOMAIN copies'} = {k \in 1 .. Reached' : members'[k].online}
      <4>1. {to2[i] : i \in DOMAIN copies'} = {to[i] : i \in 1 .. n} \cup {it + 1}
        <5>1. \A i \in 1 .. n : i \in 1 .. n + 1 /\ to2[i] = to[i]
          BY <2>2, <2>3
        <5>2. n + 1 \in 1 .. n + 1 /\ to2[n + 1] = it + 1
          BY <2>2, <2>3
        <5>3. \A i \in 1 .. n + 1 : i \in 1 .. n \/ i = n + 1
          BY <2>2
        <5> QED BY <2>3, <5>1, <5>2, <5>3
      <4>2. {to[i] : i \in 1 .. n} = {k \in 1 .. it : members[k].online}
        BY <2>1, <2>2, <3>1 DEF CopiesTo
      <4>3. {k \in 1 .. it + 1 : members[k].online} = {k \in 1 .. it : members[k].online} \cup {it + 1}
        BY <3>1
      <4> QED BY <3>1, <4>1, <4>2, <4>3
    <3>4. \A i, j \in DOMAIN copies' : i < j => to2[i] < to2[j]
      BY <2>1, <2>2, <2>3, <3>1, <3>2 DEF CopiesTo
    <3>5. ASSUME NEW i \in DOMAIN copies'
          PROVE  /\ copies'[i][1] = members'[to2[i]].jid
                 /\ copies'[i][2] = IF i = 1 THEN msg' ELSE Cloned'
      <4>1. CASE i = n + 1
        <5>1. to2[i] = it + 1 /\ copies'[i] = e /\ msg' = msg /\ Cloned' = Cloned
          BY <4>1, <2>3 DEF SendIq, Cloned
        <5>2. copies = <<>> <=> n + 1 = 1
          BY <2>2, EmptySeq DEF n, LoopInv, LoopTypeInv
        <5> QED BY <1>1, <3>1, <4>1, <5>1, <5>2
      <4>2. CASE i \in 1 .. n
        <5>1. to2[i] = to[i] /\ copies'[i] = copies[i] /\ msg' = msg /\ Cloned' = Cloned
          BY <4>2, <2>2, <2>3 DEF SendIq, Cloned
        <5>2. /\ copies[i][1] = members[to[i]].jid
              /\ copies[i][2] = IF i = 1 THEN msg ELSE Cloned
          BY <4>2, <2>1, <2>2 DEF CopiesTo
        <5> QED BY <3>1, <5>1, <5>2
      <4> QED BY <4>1, <4>2, <2>2, <2>3
    <3> QED BY <3>3, <3>4, <3>5
  <2>6. CopiesInv' <=> \E f \in [DOMAIN copies' -> DOMAIN members'] : Ok(f)
    BY DEF CopiesInv, CopiesTo
  <2> HIDE DEF Ok
  <2> QED BY <2>4, <2>5, <2>6
<1>6. ExtInv'
  <2>1. lpc = "loop" /\ lpc' = "clone" /\ copies' = Append(copies, <<members[it + 1].jid, heap[ext]>>)
    BY DEF SendIq
  <2>2. /\ copies \in Seq(Jids \X Payloads) /\ <<members[it + 1].jid, heap[ext]>> \in Jids \X Payloads
        /\ Len(copies) \in Nat
    BY <1>1, <1>2, LenProperties DEF LoopInv, LoopTypeInv
  <2>3. copies' # <<>> /\ Len(copies') = Len(copies) + 1
    BY <2>1, <2>2, AppendProperties
  <2>4. copies = <<>> <=> Len(copies') = 1
    BY <2>2, <2>3, EmptySeq
  <2>5. Copyable' = Copyable /\ Cloned' = Cloned
    BY <1>1 DEF Copyable, Cloned
  <2>6. copies # <<>> => Copyable
    BY <2>1 DEF LoopInv, ExtInv
  <2>7. Len(copies') > 1 => Copyable'
    BY <2>2, <2>3, <2>4, <2>5, <2>6
  <2> QED BY <1>1, <2>1, <2>3, <2>4, <2>5, <2>7 DEF ExtInv
<1> QED BY <1>3, <1>4, <1>5, <1>6 DEF LoopInv

LEMMA CloneInv == ASSUME LoopInv, Clone PROVE LoopInv'
<1>1. /\ heap[ext] \in Payloads /\ ext \in DOMAIN heap /\ made \in Nat
      /\ heap[ext] = msg \/ heap[ext] = Cloned
      /\ copies # <<>>
      /\ Len(copies) > 1 => Copyable
      /\ UNCHANGED <<msg, members, it, iqExt, copies>> /\ lpc = "clone"
  BY DEF LoopInv, LoopTypeInv, HeapInv, ExtInv, Clone
<1>2. CopiesInv'
  BY CopiesKept DEF LoopInv, Reached, Clone
<1>3. Copyable' = Copyable /\ Cloned' = Cloned
  BY <1>1 DEF Copyable, Cloned
<1>4. heap[ext].kind = msg.kind /\ heap[ext].docs = msg.docs /\ msg \in Payloads
  BY <1>1 DEF Cloned, Payloads, LoopInv, LoopTypeInv
<1>5. ASSUME UNCHANGED <<heap, made, ext>>, lpc' \in {"undefined", "cloning"}, ~Copyable
      PROVE  LoopInv'
  <2>1. LoopTypeInv' /\ HeapInv'
    BY <1>1, <1>5 DEF LoopInv, LoopTypeInv, HeapInv, Reached
  <2>2. ExtInv'
    BY <1>1, <1>3, <1>5 DEF ExtInv
  <2> QED BY <1>2, <2>1, <2>2 DEF LoopInv
<1>6. ASSUME Cloned \in Payloads, heap' = With(made + 1, Cloned),
             made' = made + 1, ext' = made + 1, lpc' = "delete", Copyable
      PROVE  LoopInv'
  <2>1. LoopTypeInv'
    BY <1>1, <1>6 DEF LoopInv, LoopTypeInv, With
  <2>2. HeapInv'
    BY <1>1, <1>6 DEF LoopInv, LoopTypeInv, HeapInv, Reached, With
  <2>3. ExtInv'
    <3>1. heap'[ext'] = Cloned
      BY <1>6 DEF With
    <3>2. copies' = copies /\ copies # <<>>
      BY <1>1
    <3>3. Copyable'
      BY <1>3, <1>6, Zenon
    <3> QED BY <1>3, <1>6, <3>1, <3>2, <3>3 DEF ExtInv
  <2> QED BY <1>2, <2>1, <2>2, <2>3 DEF LoopInv
<1>7. CASE msg.kind \in {"sencectrl", "senceupdate"}
  BY <1>4, <1>5, <1>7 DEF Clone, Copyable
<1>8. CASE msg.kind = "docdown" /\ msg.docs
  BY <1>4, <1>5, <1>8 DEF Clone, Copyable
<1>9. CASE msg.kind = "docdown" /\ ~msg.docs
  <2>1. Cloned = [msg EXCEPT !.type = "normal"] /\ Copyable
    BY <1>9 DEF Cloned, Copyable
  <2>2. Cloned \in Payloads /\ [heap[ext] EXCEPT !.type = "normal"] = Cloned
    BY <1>1, <1>4, <2>1 DEF Payloads
  <2>3. /\ heap' = With(made + 1, [heap[ext] EXCEPT !.type = "normal"])
        /\ made' = made + 1 /\ ext' = made + 1 /\ lpc' = "delete"
    BY <1>4, <1>9 DEF Clone
  <2> QED BY <1>6, <2>1, <2>2, <2>3
<1>10. CASE msg.kind \in {"userlogin", "docplay", "sccut"}
  <2>1. Cloned = msg /\ Copyable /\ heap[ext] = msg
    BY <1>1, <1>10 DEF Cloned, Copyable
  <2>2. /\ heap' = With(made + 1, heap[ext])
        /\ made' = made + 1 /\ ext' = made + 1 /\ lpc' = "delete"
    BY <1>4, <1>10 DEF Clone
  <2> QED BY <1>4, <1>6, <2>1, <2>2
<1> QED BY <1>4, <1>7, <1>8, <1>9, <1>10 DEF Payloads, MsgKinds

LEMMA DeleteIqInv == ASSUME LoopInv, DeleteIq PROVE LoopInv'
<1>1. LoopTypeInv'
  BY LenProperties DEF LoopInv, LoopTypeInv, HeapInv, DeleteIq, Without
<1>2. HeapInv'
  BY DEF LoopInv, LoopTypeInv, HeapInv, Reached, DeleteIq, Without
<1>3. CopiesInv'
  BY CopiesKept DEF LoopInv, Reached, DeleteIq
<1>4. ExtInv'
  <2>1. ext # iqExt /\ ext \in DOMAIN heap
    BY DEF LoopInv, HeapInv, DeleteIq
  <2> QED BY <2>1 DEF LoopInv, ExtInv, DeleteIq, Without, Copyable, Cloned
<1> QED BY <1>1, <1>2, <1>3, <1>4 DEF LoopInv

LEMMA ReturnInv == ASSUME LoopInv, Return PROVE LoopInv'
<1>1. LoopTypeInv'
  BY DEF LoopInv, LoopTypeInv, HeapInv, Return, Without
<1>2. HeapInv'
  BY DEF LoopInv, LoopTypeInv, HeapInv, Reached, Return, Without
<1>3. CopiesInv'
  BY CopiesKept DEF LoopInv, Reached, Return
<1>4. ExtInv'
  BY DEF LoopInv, ExtInv, Return, Copyable, Cloned
<1> QED BY <1>1, <1>2, <1>3, <1>4 DEF LoopInv

LEMMA LoopNextInv == LoopInv /\ [BroadcastNext]_broadcastVars => LoopInv'
<1> SUFFICES ASSUME LoopInv, [BroadcastNext]_broadcastVars PROVE LoopInv'
  OBVIOUS
<1>1. CASE UNCHANGED broadcastVars
  <2>1. UNCHANGED <<msg, members, it, lpc, heap, made, ext, iqExt, copies>>
    BY <1>1 DEF broadcastVars
  <2>2. LoopTypeInv' /\ HeapInv'
    BY <2>1 DEF LoopInv, LoopTypeInv, HeapInv, Reached
  <2>3. CopiesInv'
    BY <2>1, CopiesKept DEF LoopInv, Reached
  <2>4. ExtInv'
    BY <2>1 DEF LoopInv, ExtInv, Copyable, Cloned
  <2> QED BY <2>2, <2>3, <2>4 DEF LoopInv
<1> QED
  BY <1>1, FillInv, SkipInv, SendIqInv, CloneInv, DeleteIqInv, ReturnInv DEF BroadcastNext

LEMMA LoopInvariance == BroadcastSpec => []LoopInv
<1>1. BroadcastInit => LoopInv
  BY LoopInitInv
<1> QED BY <1>1, LoopNextInv, PTL DEF BroadcastSpec

\* The loop allocates at most one extension more than the list has members.
THEOREM LoopTypeCorrect == BroadcastSpec => []BroadcastTypeOK
<1>1. LoopInv => BroadcastTypeOK
  <2> SUFFICES ASSUME LoopInv PROVE BroadcastTypeOK
    OBVIOUS
  <2>1. made \in 0 .. MaxMembers + 1
    BY MembersAssumption, LenProperties DEF LoopInv, LoopTypeInv, HeapInv, Reached
  <2>2. DOMAIN heap \subseteq 1 .. made
    BY DEF LoopInv, LoopTypeInv, HeapInv
  <2> QED BY <2>1, <2>2 DEF LoopInv, LoopTypeInv, BroadcastTypeOK
<1> QED BY <1>1, LoopInvariance, PTL

\* Whatever the loop gives to an IQ, clones or deletes is allocated, and what it holds
\* after the clone is not what the IQ is about to delete.
THEOREM NothingUsedAfterDelete == BroadcastSpec => []NoUseAfterDelete
<1>1. LoopInv => NoUseAfterDelete
  BY DEF LoopInv, LoopTypeInv, HeapInv, NoUseAfterDelete
<1> QED BY <1>1, LoopInvariance, PTL

\* Send to a list of any length leaves no extension behind.
THEOREM NoneLeaked == BroadcastSpec => []NothingIsLeaked
<1>1. LoopInv => NothingIsLeaked
  BY DEF LoopInv, HeapInv, NothingIsLeaked
<1> QED BY <1>1, LoopInvariance, PTL

\* At every point of Send to a list of any length the online members passed have been
\* sent one IQ each, in the order of the list, the first with the message and the others
\* with its clone; those behind are sent theirs before Send returns, unless the message
\* is one that cannot be cloned: then one member gets it.
THEOREM OnlineServed == BroadcastSpec => []OnlineServedInTurn
<1>1. LoopInv => OnlineServedInTurn
  <2> SUFFICES ASSUME LoopInv PROVE OnlineServedInTurn
    OBVIOUS
  <2>1. PICK to \in [DOMAIN copies -> DOMAIN members] : CopiesTo(to)
    BY DEF LoopInv, CopiesInv
  <2>2. lpc = "returned" => Reached = Len(members) \/ (msg.kind = "docplay" /\ ~msg.docs)
    BY DEF LoopInv, HeapInv, Reached
  <2>3. (lpc \in {"cloning", "undefined"} => ~Copyable) /\ (~Copyable => Len(copies) <= 1)
    <3>1. Len(copies) \in Nat
      BY LenProperties DEF LoopInv, LoopTypeInv
    <3> QED BY <3>1 DEF LoopInv, ExtInv
  <2> QED BY <2>1, <2>2, <2>3 DEF CopiesTo, OnlineServedInTurn
<1> QED BY <1>1, LoopInvariance, PTL

------------------------------------------------------------------------------
(* What an IQ says: Payload.                                               *)


\* What a message says of a request.
SaysOf(m, t) ==
  /\ m.kind = t.kind /\ m.kind \in {"docdown", "docplay", "sccut"}
  /\ m.kind = "docdown" =>
       /\ DOMAIN m.docs = DOMAIN t.docs
       /\ \A i \in DOMAIN m.docs :
            /\ m.docs[i].status \in {"success", "failure"}
            /\ m.docs[i] = [AnsiDoc(t.docs[i]) EXCEPT !.status = m.docs[i].status]
  /\ m.kind = "docplay" => m.name = Ansi(t.name)
  /\ m.kind = "sccut" => m.number = Ansi(t.status)

\* Every message is of one of five forms.
LEMMA MessageForms ==
  ASSUME NEW m \in Messages
  PROVE  \/ m.kind = "userlogin" /\ m \in [kind : {"userlogin"}, type : {0, 1}]
         \/ m.kind = "docdown" /\ m \in [kind : {"docdown"}, type : {0, 1}, docs : DocListsOf(DocTexts \ Foreign)]
         \/ m.kind = "docplay" /\ m \in [kind : {"docplay"}, name : Texts \ Foreign, status : {"start", "stop"}]
         \/ m.kind = "sccut" /\ m \in [kind : {"sccut"}, number : Texts \ Foreign]
         \/ m.kind \in SenceKinds /\ m \in [kind : SenceKinds, info : InfosOf(Texts \ Foreign)]
BY DEF Messages

LEMMA TagForms ==
  ASSUME NEW t \in Tags
  PROVE  \/ t.kind = "userlogin" /\ t \in [kind : {"userlogin"}, type : {"success", "failure"}]
         \/ t.kind = "docdown" /\ t \in [kind : {"docdown"}, type : {"normal", "force"}, docs : DocListsOf(DocTexts)]
         \/ t.kind = "docplay" /\ t \in [kind : {"docplay"}, child : BOOLEAN, name : Texts, status : {"start", "stop"}]
         \/ t.kind = "sccut" /\ t \in [kind : {"sccut"}, status : Texts]
         \/ t.kind \in SenceKinds /\ t \in [kind : SenceKinds, child : BOOLEAN, info : InfosOf(Texts)]
BY DEF Tags

\* A list of documents.
LEMMA DocLists ==
  ASSUME NEW T, NEW d
  PROVE  d \in DocListsOf(T) <=> \E n \in 0 .. MaxDocs : d \in [1 .. n -> DocsOf(T)]
BY DocsAssumption DEF DocListsOf

LEMMA AnsiIs ==
  /\ \A t \in Texts : Ansi(t) \in Texts \ Foreign
  /\ \A t \in DocTexts : Ansi(t) \in DocTexts \ Foreign
  /\ \A t \in Texts \ Foreign : Ansi(t) = t
BY TextsAssumption DEF Ansi

LEMMA OtherKinds ==
  /\ "userlogin" \notin SenceKinds /\ "docdown" \notin SenceKinds
  /\ "docplay" \notin SenceKinds /\ "sccut" \notin SenceKinds
BY DEF SenceKinds

\* A message that is written and read.
LEMMA LoginSurvives ==
  ASSUME NEW m \in [kind : {"userlogin"}, type : {0, 1}]
  PROVE  /\ ToTag(Fill(m)).kind = m.kind
         /\ ToTag(Fill(m)) \in Tags
         /\ ~Unreadable(ToTag(Fill(m)))
         /\ ToMessage(NewInstance(ToTag(Fill(m)))) = Received(m)
<1>0. m.kind = "userlogin" /\ m = [kind |-> "userlogin", type |-> m.type] /\ m.type \in {0, 1}
  OBVIOUS
<1>1. Fill(m) = [kind |-> "userlogin", m_Type |-> m.type]
  BY <1>0, Zenon DEF Fill, SenceKinds
<1> DEFINE e == [kind |-> "userlogin", m_Type |-> m.type]
           t == [kind |-> "userlogin", type |-> IF m.type # 0 THEN "success" ELSE "failure"]
<1>2. ToTag(e) = t
  BY DEF ToTag, SenceKinds
<1>3. NewInstance(t) = e
  BY Zenon DEF NewInstance, SenceKinds
<1>4. ToMessage(e) = m
  BY <1>0, Zenon DEF ToMessage, SenceKinds
<1>5. Received(m) = m
  BY DEF Received
<1>6. ~Unreadable(t)
  BY DEF Unreadable, SenceKinds
<1>7. t \in Tags
  BY DEF Tags
<1> HIDE DEF e
<1> QED BY <1>1, <1>2, <1>3, <1>4, <1>5, <1>6, <1>7 DEF e

LEMMA DocDownSurvives ==
  ASSUME NEW m \in [kind : {"docdown"}, type : {0, 1}, docs : DocListsOf(DocTexts \ Foreign)]
  PROVE  /\ ToTag(Fill(m)).kind = m.kind
         /\ ToTag(Fill(m)).docs = m.docs
         /\ ToTag(Fill(m)) \in Tags
         /\ ~Unreadable(ToTag(Fill(m)))
         /\ ToMessage(NewInstance(ToTag(Fill(m)))) = Received(m)
<1> DEFINE d == m.docs
           e == [kind |-> "docdown", m_Type |-> m.type, m_Docs |-> d]
           t == [kind |-> "docdown", type |-> IF m.type = 0 THEN "normal" ELSE "force", docs |-> d]
<1>0. m.kind = "docdown" /\ m = [kind |-> "docdown", type |-> m.type, docs |-> d] /\ m.type \in {0, 1}
  OBVIOUS
<1>1. PICK n \in 0 .. MaxDocs : d \in [1 .. n -> DocsOf(DocTexts \ Foreign)]
  BY DocLists
<1>2. [i \in DOMAIN d |-> Utf8Doc(d[i])] = d
  <2>1. ASSUME NEW i \in DOMAIN d PROVE Utf8Doc(d[i]) = d[i]
    BY <1>1 DEF Utf8Doc, Utf8, DocsOf
  <2> QED BY <1>1, <2>1
<1>3. [i \in DOMAIN d |-> AnsiDoc(d[i])] = d
  <2>1. ASSUME NEW i \in DOMAIN d PROVE AnsiDoc(d[i]) = d[i]
    <3>1. d[i] \in DocsOf(DocTexts \ Foreign)
      BY <1>1
    <3>2. \A x \in DocTexts \ Foreign : Ansi(x) = x
      BY TextsAssumption, AnsiIs
    <3> QED BY <3>1, <3>2 DEF AnsiDoc, DocsOf
  <2> QED BY <1>1, <2>1
<1> HIDE DEF d
<1>4. Fill(m) = [kind |-> "docdown", m_Type |-> m.type, m_Docs |-> [i \in DOMAIN d |-> Utf8Doc(d[i])]]
  BY <1>0, Zenon DEF Fill, SenceKinds, d
<1>5. Fill(m) = e
  BY <1>2, <1>4
<1>6. ToTag(e) = t
  BY <1>0, Zenon DEF ToTag, SenceKinds
<1>7. ~Unreadable(t)
  BY DEF Unreadable, SenceKinds
<1> DEFINE e2 == [kind |-> "docdown", m_Type |-> IF t.type = "force" THEN 1 ELSE 0, m_Docs |-> d]
<1>8. NewInstance(t) = e2
  BY Zenon DEF NewInstance, SenceKinds
<1>9. ToMessage(e2) = Received(m)
  <2>1. CASE d # <<>>
    <3>1. ToMessage(e2) = [kind |-> "docdown", type |-> 0, docs |-> [i \in DOMAIN d |-> AnsiDoc(d[i])]]
      BY <2>1, Zenon DEF ToMessage, SenceKinds
    <3>2. Received(m) = [m EXCEPT !.type = 0]
      BY <1>0, <2>1, Zenon DEF Received, d
    <3> QED BY <1>0, <1>3, <3>1, <3>2
  <2>2. CASE d = <<>>
    <3>1. ToMessage(e2) = None
      BY <2>2, Zenon DEF ToMessage, SenceKinds
    <3>2. Received(m) = None
      BY <1>0, <2>2, Zenon DEF Received, d
    <3> QED BY <3>1, <3>2
  <2> QED BY <2>1, <2>2
<1> HIDE DEF e, e2, t
<1>10. ToTag(Fill(m)) = t
  BY <1>5, <1>6
<1>11. t \in Tags
  <2>1. d \in DocListsOf(DocTexts)
    <3>1. d \in [1 .. n -> DocsOf(DocTexts)]
      BY <1>1 DEF DocsOf
    <3> QED BY <3>1, DocLists
  <2> QED BY <2>1 DEF Tags, t
<1> QED BY <1>0, <1>7, <1>8, <1>9, <1>10, <1>11 DEF t, d

LEMMA DocPlaySurvives ==
  ASSUME NEW m \in [kind : {"docplay"}, name : Texts \ Foreign, status : {"start", "stop"}]
  PROVE  /\ ToTag(Fill(m)).kind = m.kind
         /\ ToTag(Fill(m)).name = m.name
         /\ ToTag(Fill(m)) \in Tags
         /\ ~Unreadable(ToTag(Fill(m)))
         /\ ToMessage(NewInstance(ToTag(Fill(m)))) = Received(m)
<1> DEFINE e == [kind |-> "docplay", m_Name |-> m.name, m_Action |-> FALSE]
           t == [kind |-> "docplay", child |-> TRUE, name |-> m.name, status |-> "stop"]
<1>0. m.kind = "docplay" /\ m = [kind |-> "docplay", name |-> m.name, status |-> m.status]
      /\ m.name \in Texts \ Foreign
  OBVIOUS
<1>1. Fill(m) = e
  BY <1>0, Zenon DEF Fill, Utf8, SenceKinds
<1>2. ToTag(e) = t
  BY Zenon DEF ToTag, SenceKinds
<1>3. NewInstance(t) = e
  <2>1. ("stop" = "start") = FALSE
    OBVIOUS
  <2>2. NewInstance(t) = [kind |-> "docplay", m_Name |-> m.name, m_Action |-> (t.status = "start")]
    BY Zenon DEF NewInstance, SenceKinds
  <2> QED BY <2>1, <2>2
<1>4. ToMessage(e) = [kind |-> "docplay", name |-> Ansi(m.name), status |-> "stop"]
  BY Zenon DEF ToMessage, SenceKinds
<1>5. Ansi(m.name) = m.name
  BY <1>0, AnsiIs
<1>6. Received(m) = [m EXCEPT !.status = "stop"]
  BY <1>0, Zenon DEF Received
<1>7. ToMessage(e) = Received(m)
  BY <1>0, <1>4, <1>5, <1>6
<1>8. ~Unreadable(t)
  BY DEF Unreadable, SenceKinds
<1>9. t \in Tags
  BY <1>0 DEF Tags
<1> HIDE DEF e, t
<1>10. ToTag(Fill(m)) = t
  BY <1>1, <1>2
<1> QED BY <1>0, <1>3, <1>7, <1>8, <1>9, <1>10 DEF t

LEMMA ScCutSurvives ==
  ASSUME NEW m \in [kind : {"sccut"}, number : Texts \ Foreign]
  PROVE  /\ ToTag(Fill(m)).kind = m.kind
         /\ ToTag(Fill(m)).status = m.number
         /\ ToTag(Fill(m)) \in Tags
         /\ ~Unreadable(ToTag(Fill(m)))
         /\ ToMessage(NewInstance(ToTag(Fill(m)))) = Received(m)
<1> DEFINE e == [kind |-> "sccut", m_Number |-> m.number]
           t == [kind |-> "sccut", status |-> m.number]
<1>0. m.kind = "sccut" /\ m = [kind |-> "sccut", number |-> m.number] /\ m.number \in Texts \ Foreign
  OBVIOUS
<1>1. Fill(m) = e
  BY <1>0, Zenon DEF Fill, Utf8, SenceKinds
<1>2. ToTag(e) = t
  BY Zenon DEF ToTag, SenceKinds
<1>3. NewInstance(t) = e
  BY Zenon DEF NewInstance, SenceKinds
<1>4. ToMessage(e) = [kind |-> "sccut", number |-> Ansi(m.number)]
  BY Zenon DEF ToMessage, SenceKinds
<1>5. Ansi(m.number) = m.number
  BY <1>0, AnsiIs
<1>6. Received(m) = m
  BY <1>0, Zenon DEF Received
<1>7. ToMessage(e) = Received(m)
  BY <1>0, <1>4, <1>5, <1>6
<1>8. ~Unreadable(t)
  BY DEF Unreadable, SenceKinds
<1>9. t \in Tags
  BY <1>0 DEF Tags
<1> HIDE DEF e, t
<1>10. ToTag(Fill(m)) = t
  BY <1>1, <1>2
<1> QED BY <1>0, <1>3, <1>7, <1>8, <1>9, <1>10 DEF t

LEMMA SenceSurvives ==
  ASSUME NEW m \in [kind : SenceKinds, info : InfosOf(Texts \ Foreign)], FitsInfo(m.info)
  PROVE  /\ ToTag(Fill(m)).kind = m.kind
         /\ ToTag(Fill(m)) \in Tags
         /\ ~Unreadable(ToTag(Fill(m)))
         /\ ToMessage(NewInstance(ToTag(Fill(m)))) = Received(m)
<1> DEFINE k == m.kind
           f == m.info
           e == [kind |-> k, m_info |-> f]
           t == [kind |-> k, child |-> TRUE, info |-> f]
<1>0. /\ k \in SenceKinds /\ m = [kind |-> k, info |-> f] /\ f \in InfosOf(Texts \ Foreign)
      /\ k # "userlogin" /\ k # "docdown" /\ k # "docplay" /\ k # "sccut"
  BY OtherKinds
<1>1. Utf8Info(f) = f
  BY <1>0 DEF Utf8Info, Utf8, InfosOf
<1>2. AnsiInfo(f) = f
  <2>1. \A x \in Texts \ Foreign : Ansi(x) = x
    BY AnsiIs
  <2> QED BY <1>0, <2>1 DEF AnsiInfo, InfosOf
<1>3. FitsInfo(f)
  OBVIOUS
<1> HIDE DEF f
<1>4. Fill(m) = [kind |-> k, m_info |-> Utf8Info(f)]
  BY <1>0, Zenon DEF Fill, f
<1> HIDE DEF k
<1>5. Fill(m) = e
  BY <1>1, <1>4
<1>6. ToTag(e) = t
  BY <1>0, Zenon DEF ToTag
<1>7. NewInstance(t) = e
  BY <1>0, Zenon DEF NewInstance
<1>8. ToMessage(e) = [kind |-> k, info |-> AnsiInfo(f)]
  BY <1>0, Zenon DEF ToMessage
<1>9. Received(m) = m
  BY <1>0, Zenon DEF Received
<1>10. ToMessage(e) = Received(m)
  BY <1>0, <1>2, <1>8, <1>9
<1>11. ~Unreadable(t)
  BY <1>0, <1>3 DEF Unreadable
<1>12. t \in Tags
  <2>1. f \in InfosOf(Texts)
    BY <1>0 DEF InfosOf
  <2> QED BY <1>0, <2>1 DEF Tags
<1> HIDE DEF e, t
<1>13. ToTag(Fill(m)) = t
  BY <1>5, <1>6
<1> QED BY <1>7, <1>10, <1>11, <1>12, <1>13 DEF t, k

\* What a task has been told of a request.
IsOf(m, t) ==
  /\ m.kind = t.kind /\ m.kind \in {"docdown", "docplay", "sccut"}
  /\ m.kind = "docdown" => /\ DOMAIN m.docs = DOMAIN t.docs
                           /\ \A i \in DOMAIN m.docs : m.docs[i] = AnsiDoc(t.docs[i])
  /\ m.kind = "docplay" => m.name = Ansi(t.name)
  /\ m.kind = "sccut" => m.number = Ansi(t.status)

PayloadInv ==
  /\ pc \in {"idle", "task", "send", "sent", "undefined"}
  /\ pc \in {"idle", "task"} => answer = None /\ reply = None
  /\ pc = "idle" => request = None
  /\ pc = "task" => message \in Messages /\ IsOf(message, request)
  /\ pc = "send" => \/ answer = None
                    \/ answer \in Messages /\ (request # None => SaysOf(answer, request))
  /\ pc = "sent" => \/ answer = None /\ reply = None
                    \/ /\ answer \in Messages /\ reply = ToTag(Fill(answer))
                       /\ answer.kind \in SenceKinds => FitsInfo(answer.info)
                       /\ request # None => SaysOf(answer, request)

LEMMA NoneIsNoMessage == None.kind = "none" /\ None \notin Messages
<1>1. \A m \in Messages : m.kind # "none"
  <2>1. ASSUME NEW m \in Messages PROVE m.kind # "none"
    BY MessageForms DEF SenceKinds
  <2> QED BY <2>1
<1>2. None.kind = "none"
  BY DEF None
<1> QED BY <1>1, <1>2

\* The message of a tag.
LEMMA Receives ==
  ASSUME NEW t \in Tags, NEW m, m = ToMessage(NewInstance(t))
  PROVE  /\ m \in Messages \cup {None}
         /\ m.kind \in {"docdown", "docplay", "sccut"} => m \in Messages /\ IsOf(m, t)
<1>1. CASE t.kind = "userlogin"
  <2> DEFINE e == [kind |-> t.kind, m_Type |-> IF t.type = "success" THEN 1 ELSE 0]
  <2>1. NewInstance(t) = e
    BY <1>1, Zenon DEF NewInstance, SenceKinds
  <2>2. e.kind = "userlogin"
    BY <1>1
  <2> HIDE DEF e
  <2>3. ToMessage(e) = [kind |-> e.kind, type |-> e.m_Type]
    BY <2>2, Zenon DEF ToMessage, SenceKinds
  <2>4. e.m_Type \in {0, 1}
    BY DEF e
  <2>5. m \in Messages
    BY <2>1, <2>2, <2>3, <2>4 DEF Messages
  <2> QED BY <2>1, <2>2, <2>3, <2>5
<1>2. CASE t.kind = "docdown"
  <2> DEFINE e == [kind |-> t.kind, m_Type |-> IF t.type = "force" THEN 1 ELSE 0, m_Docs |-> t.docs]
             d == [i \in DOMAIN t.docs |-> AnsiDoc(t.docs[i])]
  <2>1. NewInstance(t) = e
    BY <1>2, Zenon DEF NewInstance, SenceKinds
  <2>2. e.kind = "docdown" /\ e.m_Docs = t.docs
    BY <1>2
  <2> HIDE DEF e
  <2>3. CASE t.docs = <<>>
    <3>1. ToMessage(e) = None
      BY <2>2, <2>3, Zenon DEF ToMessage, SenceKinds
    <3> QED BY <2>1, <3>1, NoneIsNoMessage
  <2>4. CASE t.docs # <<>>
    <3>1. ToMessage(e) = [kind |-> e.kind, type |-> 0,
                            docs |-> [i \in DOMAIN e.m_Docs |-> AnsiDoc(e.m_Docs[i])]]
      BY <2>2, <2>4, Zenon DEF ToMessage, SenceKinds
    <3>2. m = [kind |-> "docdown", type |-> 0, docs |-> d]
      BY <2>1, <2>2, <3>1
    <3>3. PICK n \in 0 .. MaxDocs : t.docs \in [1 .. n -> DocsOf(DocTexts)]
      <4>1. t.docs \in DocListsOf(DocTexts)
        BY <1>2, TagForms, OtherKinds
      <4> QED BY <4>1, DocLists
    <3>4. d \in [1 .. n -> DocsOf(DocTexts \ Foreign)]
      <4>1. ASSUME NEW i \in 1 .. n PROVE AnsiDoc(t.docs[i]) \in DocsOf(DocTexts \ Foreign)
        <5>1. t.docs[i] \in DocsOf(DocTexts)
          BY <3>3
        <5>2. \A x \in DocTexts : Ansi(x) \in DocTexts \ Foreign
          BY AnsiIs
        <5> QED BY <5>1, <5>2 DEF AnsiDoc, DocsOf
      <4> QED BY <3>3, <4>1
    <3>5. d \in DocListsOf(DocTexts \ Foreign)
      BY <3>4, DocLists
    <3>6. DOMAIN d = DOMAIN t.docs /\ \A i \in DOMAIN d : d[i] = AnsiDoc(t.docs[i])
      OBVIOUS
    <3> HIDE DEF d
    <3>7. m \in Messages
      BY <3>2, <3>5 DEF Messages
    <3> QED BY <1>2, <3>2, <3>6, <3>7 DEF IsOf
  <2> QED BY <2>3, <2>4
<1>3. CASE t.kind = "docplay"
  <2> DEFINE e == [kind |-> t.kind, m_Name |-> t.name, m_Action |-> (t.status = "start")]
  <2>1. NewInstance(t) = e
    BY <1>3, Zenon DEF NewInstance, SenceKinds
  <2>2. e.kind = "docplay" /\ e.m_Name = t.name
    BY <1>3
  <2> HIDE DEF e
  <2>3. ToMessage(e) = [kind |-> e.kind, name |-> Ansi(e.m_Name),
                          status |-> IF e.m_Action THEN "start" ELSE "stop"]
    BY <2>2, Zenon DEF ToMessage, SenceKinds
  <2>4. m.kind = "docplay" /\ m.name = Ansi(t.name)
    BY <2>1, <2>2, <2>3
  <2>5. m \in Messages
    <3>1. t.name \in Texts
      BY <1>3, TagForms, OtherKinds
    <3>2. Ansi(t.name) \in Texts \ Foreign
      BY <3>1, AnsiIs
    <3>3. (IF e.m_Action THEN "start" ELSE "stop") \in {"start", "stop"}
      OBVIOUS
    <3> QED BY <2>1, <2>2, <2>3, <3>2, <3>3 DEF Messages
  <2> QED BY <1>3, <2>4, <2>5 DEF IsOf
<1>4. CASE t.kind = "sccut"
  <2> DEFINE e == [kind |-> t.kind, m_Number |-> t.status]
  <2>1. NewInstance(t) = e
    BY <1>4, Zenon DEF NewInstance, SenceKinds
  <2>2. e.kind = "sccut" /\ e.m_Number = t.status
    BY <1>4
  <2> HIDE DEF e
  <2>3. ToMessage(e) = [kind |-> e.kind, number |-> Ansi(e.m_Number)]
    BY <2>2, Zenon DEF ToMessage, SenceKinds
  <2>4. m = [kind |-> "sccut", number |-> Ansi(t.status)]
    BY <2>1, <2>2, <2>3
  <2>5. Ansi(t.status) \in Texts \ Foreign
    <3>1. t.status \in Texts
      BY <1>4, TagForms, OtherKinds
    <3> QED BY <3>1, AnsiIs
  <2> QED BY <1>4, <2>4, <2>5 DEF IsOf, Messages
<1>5. CASE t.kind \in SenceKinds
  <2> DEFINE e == [kind |-> t.kind, m_info |-> t.info]
  <2>1. NewInstance(t) = e
    BY <1>5, OtherKinds, Zenon DEF NewInstance
  <2>2. e.kind \in SenceKinds
    BY <1>5
  <2> HIDE DEF e
  <2>3. ToMessage(e) = [kind |-> e.kind, info |-> AnsiInfo(e.m_info)]
    BY <2>2, OtherKinds, Zenon DEF ToMessage
  <2>4. AnsiInfo(e.m_info) \in InfosOf(Texts \ Foreign)
    <3>1. e.m_info \in InfosOf(Texts)
      BY <1>5, TagForms, OtherKinds DEF e
    <3>2. \A x \in Texts : Ansi(x) \in Texts \ Foreign
      BY AnsiIs
    <3> QED BY <3>1, <3>2 DEF AnsiInfo, InfosOf
  <2>5. m \in Messages
    BY <2>1, <2>2, <2>3, <2>4 DEF Messages
  <2> QED BY <2>1, <2>2, <2>3, <2>5, OtherKinds
<1> QED BY <1>1, <1>2, <1>3, <1>4, <1>5, TagForms

LEMMA PayloadInitInv == ASSUME PayloadInit PROVE PayloadInv
BY DEF PayloadInit, PayloadInv

LEMMA ReceiveInv == ASSUME PayloadInv, Receive PROVE PayloadInv'
<1>1. pc = "idle" /\ request' \in Tags /\ UNCHANGED <<answer, reply>> /\ answer = None /\ reply = None
  BY DEF Receive, PayloadInv
<1>2. CASE pc' = "undefined"
  BY <1>1, <1>2 DEF PayloadInv
<1>3. CASE pc' = "sent"
  BY <1>1, <1>3 DEF PayloadInv
<1>4. CASE pc' = "task"
  <2>1. message' = ToMessage(NewInstance(request')) /\ message'.kind \in {"docdown", "docplay", "sccut"}
    BY <1>4 DEF Receive
  <2>2. message' \in Messages /\ IsOf(message', request')
    BY <1>1, <2>1, Receives
  <2> QED BY <1>1, <1>4, <2>2 DEF PayloadInv, IsOf
<1> QED BY <1>2, <1>3, <1>4 DEF Receive

LEMMA TaskEndInv == ASSUME PayloadInv, TaskEnd PROVE PayloadInv'
<1>1. pc = "task" /\ pc' = "send" /\ request' = request /\ message \in Messages /\ IsOf(message, request)
  BY DEF TaskEnd, PayloadInv
<1>2. CASE answer' = None
  BY <1>1, <1>2 DEF PayloadInv
<1>3. CASE answer' \in Messages /\ SaysOf(answer', request)
  BY <1>1, <1>3 DEF PayloadInv, SaysOf
<1>4. CASE message.kind = "docdown"
  <2>1. PICK outcome \in [DOMAIN message.docs -> {"success", "failure"}] :
               answer' = [message EXCEPT !.docs =
                 [i \in DOMAIN message.docs |-> [message.docs[i] EXCEPT !.status = outcome[i]]]]
    BY <1>4 DEF TaskEnd
  <2> DEFINE d == [i \in DOMAIN message.docs |-> [message.docs[i] EXCEPT !.status = outcome[i]]]
  <2>2. message \in [kind : {"docdown"}, type : {0, 1}, docs : DocListsOf(DocTexts \ Foreign)]
    BY <1>1, <1>4, MessageForms, OtherKinds
  <2>3. PICK n \in 0 .. MaxDocs : message.docs \in [1 .. n -> DocsOf(DocTexts \ Foreign)]
    BY <2>2, DocLists
  <2>4. ASSUME NEW i \in 1 .. n
        PROVE  /\ d[i] \in DocsOf(DocTexts \ Foreign)
               /\ d[i].status \in {"success", "failure"}
               /\ d[i] = [AnsiDoc(request.docs[i]) EXCEPT !.status = d[i].status]
    <3>1. message.docs[i] \in DocsOf(DocTexts \ Foreign) /\ outcome[i] \in {"success", "failure"}
          /\ d[i] = [message.docs[i] EXCEPT !.status = outcome[i]]
      BY <2>3
    <3>2. d[i] \in DocsOf(DocTexts \ Foreign) /\ d[i].status = outcome[i]
      BY <3>1 DEF DocsOf, Statuses
    <3>3. message.docs[i] = AnsiDoc(request.docs[i])
      BY <1>1, <1>4, <2>3 DEF IsOf
    <3> QED BY <3>1, <3>2, <3>3
  <2>5. d \in DocListsOf(DocTexts \ Foreign)
    <3>1. d \in [1 .. n -> DocsOf(DocTexts \ Foreign)]
      BY <2>3, <2>4
    <3> QED BY <3>1, DocLists
  <2>6. DOMAIN d = 1 .. n /\ DOMAIN request.docs = 1 .. n /\ request.kind = "docdown"
    BY <1>1, <1>4, <2>3 DEF IsOf
  <2> HIDE DEF d
  <2>7. answer' = [kind |-> "docdown", type |-> message.type, docs |-> d] /\ message.type \in {0, 1}
    BY <2>1, <2>2 DEF d
  <2>8. answer' \in Messages
    BY <2>5, <2>7 DEF Messages
  <2>9. SaysOf(answer', request)
    BY <2>4, <2>6, <2>7 DEF SaysOf
  <2> QED BY <1>3, <2>8, <2>9
<1>5. CASE message.kind \in {"docplay", "sccut"}
  <2>1. answer' = None \/ answer' = message
    BY <1>5 DEF TaskEnd
  <2>2. SaysOf(message, request)
    BY <1>1, <1>5 DEF IsOf, SaysOf
  <2> QED BY <1>1, <1>2, <1>3, <2>1, <2>2
<1> QED BY <1>1, <1>4, <1>5 DEF IsOf

LEMMA ComposeInv == ASSUME PayloadInv, Compose PROVE PayloadInv'
BY DEF PayloadInv, Compose

LEMMA SendInv == ASSUME PayloadInv, Send PROVE PayloadInv'
<1>1. /\ pc = "send" /\ UNCHANGED <<request, answer>>
      /\ answer = None \/ (answer \in Messages /\ (request # None => SaysOf(answer, request)))
  BY DEF PayloadInv, Send
<1>2. CASE pc' = "undefined"
  BY <1>1, <1>2 DEF PayloadInv
<1>3. CASE pc' = "sent"
  <2>1. /\ answer.kind \in SenceKinds => FitsInfo(answer.info)
        /\ reply' = IF answer = None THEN None ELSE ToTag(Fill(answer))
    BY <1>3 DEF Send
  <2>2. CASE answer = None
    BY <1>1, <1>3, <2>1, <2>2 DEF PayloadInv
  <2>3. CASE answer # None
    <3>1. reply' = ToTag(Fill(answer'))
      BY <1>1, <2>1, <2>3
    <3>2. answer' \in Messages /\ (answer'.kind \in SenceKinds => FitsInfo(answer'.info))
      BY <1>1, <2>1, <2>3
    <3>3. request' # None => SaysOf(answer', request')
      BY <1>1, <2>3
    <3> QED BY <1>3, <3>1, <3>2, <3>3 DEF PayloadInv, SaysOf
  <2> QED BY <2>2, <2>3
<1> QED BY <1>2, <1>3 DEF Send

LEMMA DeleteInv == ASSUME PayloadInv, Delete PROVE PayloadInv'
BY DEF PayloadInv, Delete

LEMMA PayloadNextInv ==
  PayloadInv /\ [PayloadNext]_payloadVars => PayloadInv'
<1> SUFFICES ASSUME PayloadInv, [PayloadNext]_payloadVars PROVE PayloadInv'
  OBVIOUS
<1>1. CASE UNCHANGED payloadVars
  BY <1>1 DEF payloadVars, PayloadInv, IsOf, SaysOf
<1> QED
  BY <1>1, ReceiveInv, TaskEndInv, ComposeInv, SendInv, DeleteInv DEF PayloadNext

LEMMA PayloadInvariance == PayloadSpec => []PayloadInv
<1>1. PayloadInit => PayloadInv
  BY PayloadInitInv
<1>2. PayloadInv /\ [PayloadNext]_payloadVars => PayloadInv'
  BY PayloadNextInv
<1> QED BY <1>1, <1>2, PTL DEF PayloadSpec

\* The tag of a message.
LEMMA Replies ==
  ASSUME NEW m \in Messages, m.kind \in SenceKinds => FitsInfo(m.info)
  PROVE  ToTag(Fill(m)) \in Tags
<1>1. CASE m.kind = "userlogin"
  BY <1>1, MessageForms, OtherKinds, LoginSurvives
<1>2. CASE m.kind = "docdown"
  BY <1>2, MessageForms, OtherKinds, DocDownSurvives
<1>3. CASE m.kind = "docplay"
  BY <1>3, MessageForms, OtherKinds, DocPlaySurvives
<1>4. CASE m.kind = "sccut"
  BY <1>4, MessageForms, OtherKinds, ScCutSurvives
<1>5. CASE m.kind \in SenceKinds
  BY <1>5, MessageForms, OtherKinds, SenceSurvives
<1> QED BY <1>1, <1>2, <1>3, <1>4, <1>5, MessageForms

\* Whatever comes in, what is handed on is one of the messages that the motion and the
\* tasks know, in this machine's code page, and what goes out is one of the tags.
THEOREM PayloadTypeCorrect == PayloadSpec => []PayloadTypeOK
<1>1. PayloadInit => PayloadTypeOK
  BY DEF PayloadInit, PayloadTypeOK
<1>2. PayloadTypeOK /\ PayloadInv /\ [PayloadNext]_payloadVars => PayloadTypeOK'
  <2> SUFFICES ASSUME PayloadTypeOK, PayloadInv, [PayloadNext]_payloadVars
               PROVE  PayloadTypeOK'
    OBVIOUS
  <2>1. PayloadInv'
    BY PayloadNextInv
  <2>2. CASE Receive
    <3>1. request' \in Tags
      BY <2>2 DEF Receive
    <3>2. message' = None \/ message' = ToMessage(NewInstance(request'))
      BY <2>2 DEF Receive
    <3>3. message' \in Messages \cup {None}
      BY <3>1, <3>2, Receives
    <3> QED BY <2>2, <3>1, <3>3 DEF PayloadTypeOK, Receive
  <2>3. CASE TaskEnd
    <3>1. answer' \in Messages \cup {None}
      BY <2>1, <2>3 DEF TaskEnd, PayloadInv
    <3> QED BY <2>3, <3>1 DEF PayloadTypeOK, TaskEnd
  <2>4. CASE Compose
    BY <2>4 DEF PayloadTypeOK, Compose
  <2>5. CASE Send
    <3>1. ASSUME answer # None, pc' = "sent" PROVE reply' \in Tags
      <4>1. answer \in Messages /\ (answer.kind \in SenceKinds => FitsInfo(answer.info))
            /\ reply' = ToTag(Fill(answer))
        BY <2>5, <3>1 DEF PayloadTypeOK, Send
      <4> QED BY <4>1, Replies
    <3>2. reply' \in Tags \cup {None}
      BY <2>5, <3>1 DEF Send
    <3> QED BY <2>5, <3>2 DEF PayloadTypeOK, Send
  <2>6. CASE Delete
    BY <2>6 DEF PayloadTypeOK, Delete
  <2>7. CASE UNCHANGED payloadVars
    BY <2>7 DEF PayloadTypeOK, payloadVars
  <2> QED BY <2>2, <2>3, <2>4, <2>5, <2>6, <2>7 DEF PayloadNext
<1> QED BY <1>1, <1>2, PayloadInvariance, PTL DEF PayloadSpec

\* What a task answers is about the documents, the program or the picture that the
\* request named, in its order, whatever the texts and however many documents.
THEOREM RepliesAreAboutRequests == PayloadSpec => []ReplyIsAboutRequest
<1>1. PayloadInv => ReplyIsAboutRequest
  <2> SUFFICES ASSUME PayloadInv, pc = "sent", request # None, reply # None
               PROVE  ReplyIsAboutRequest
    BY DEF ReplyIsAboutRequest
  <2>1. answer \in Messages /\ reply = ToTag(Fill(answer)) /\ SaysOf(answer, request)
    BY DEF PayloadInv
  <2>2. CASE answer.kind = "docdown"
    <3>1. answer \in [kind : {"docdown"}, type : {0, 1}, docs : DocListsOf(DocTexts \ Foreign)]
      BY <2>1, <2>2, MessageForms, OtherKinds
    <3>2. reply.kind = "docdown" /\ reply.docs = answer.docs
      BY <2>1, <2>2, <3>1, DocDownSurvives
    <3> QED BY <2>1, <2>2, <3>2 DEF SaysOf, ReplyIsAboutRequest
  <2>3. CASE answer.kind = "docplay"
    <3>1. answer \in [kind : {"docplay"}, name : Texts \ Foreign, status : {"start", "stop"}]
      BY <2>1, <2>3, MessageForms, OtherKinds
    <3>2. reply.kind = "docplay" /\ reply.name = answer.name
      BY <2>1, <2>3, <3>1, DocPlaySurvives
    <3> QED BY <2>1, <2>3, <3>2 DEF SaysOf, ReplyIsAboutRequest
  <2>4. CASE answer.kind = "sccut"
    <3>1. answer \in [kind : {"sccut"}, number : Texts \ Foreign]
      BY <2>1, <2>4, MessageForms, OtherKinds
    <3>2. reply.kind = "sccut" /\ reply.status = answer.number
      BY <2>1, <2>4, <3>1, ScCutSurvives
    <3> QED BY <2>1, <2>4, <3>2 DEF SaysOf, ReplyIsAboutRequest
  <2> QED BY <2>1, <2>2, <2>3, <2>4 DEF SaysOf
<1> QED BY <1>1, PayloadInvariance, PTL

\* A message that is sent can be read, and is read as it was, but for the three things
\* that the code drops.
THEOREM MessagesSurvive == PayloadSpec => []MessageSurvives
<1>1. PayloadInv => MessageSurvives
  <2> SUFFICES ASSUME PayloadInv, pc = "sent", answer # None
               PROVE  ~Unreadable(reply) /\ ToMessage(NewInstance(reply)) = Received(answer)
    BY DEF MessageSurvives
  <2>1. /\ answer \in Messages /\ reply = ToTag(Fill(answer))
        /\ answer.kind \in SenceKinds => FitsInfo(answer.info)
    BY DEF PayloadInv
  <2>2. \/ answer \in [kind : {"userlogin"}, type : {0, 1}]
        \/ answer \in [kind : {"docdown"}, type : {0, 1}, docs : DocListsOf(DocTexts \ Foreign)]
        \/ answer \in [kind : {"docplay"}, name : Texts \ Foreign, status : {"start", "stop"}]
        \/ answer \in [kind : {"sccut"}, number : Texts \ Foreign]
        \/ answer.kind \in SenceKinds /\ answer \in [kind : SenceKinds, info : InfosOf(Texts \ Foreign)]
    BY <2>1, MessageForms
  <2>3. CASE answer \in [kind : {"userlogin"}, type : {0, 1}]
    BY <2>1, <2>3, LoginSurvives
  <2>4. CASE answer \in [kind : {"docdown"}, type : {0, 1}, docs : DocListsOf(DocTexts \ Foreign)]
    BY <2>1, <2>4, DocDownSurvives
  <2>5. CASE answer \in [kind : {"docplay"}, name : Texts \ Foreign, status : {"start", "stop"}]
    BY <2>1, <2>5, DocPlaySurvives
  <2>6. CASE answer \in [kind : {"sccut"}, number : Texts \ Foreign]
    BY <2>1, <2>6, ScCutSurvives
  <2>7. CASE answer.kind \in SenceKinds /\ answer \in [kind : SenceKinds, info : InfosOf(Texts \ Foreign)]
    BY <2>1, <2>7, SenceSurvives
  <2> QED BY <2>2, <2>3, <2>4, <2>5, <2>6, <2>7
<1> QED BY <1>1, PayloadInvariance, PTL
==============================================================================
