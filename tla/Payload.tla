------------------------------- MODULE Payload -------------------------------
(***************************************************************************)
(* What an IQ carries, on its way in and out: the stanza extensions        *)
(* (addition/Ext*.cpp), which are made from a tag and make one, handleIq   *)
(* and FillExtension (addition/CellIqManager.cpp), which turn extensions   *)
(* into messages and back, and the three tasks' answers (CellView).        *)
(*                                                                         *)
(* When and in what order IQs are answered is IqService's subject; here is *)
(* what one answer says.  A tag, an extension and a message are records    *)
(* named by their kind, with the fields that this kind has.                *)
(***************************************************************************)
EXTENDS Naturals, Sequences

CONSTANTS Texts,        \* what an attribute may say, in UTF-8
          Size,         \* bytes of each
          DocTexts,     \* those of a document's name, URL and version
          MaxDocs,      \* bound: documents of a download
          Empty,        \* the empty text
          Foreign,      \* texts that the machine's code page cannot say,
          Lossy         \* and what they become

ASSUME TextsAssumption ==
  /\ DocTexts \subseteq Texts /\ Foreign \subseteq Texts
  /\ Empty \in Texts \ Foreign
  /\ Lossy \in DocTexts \ Foreign
  /\ Size \in [Texts -> Nat]
ASSUME DocsAssumption == MaxDocs \in Nat

\* X_Utf82Ansi and X_Ansi2Utf8: the way back gives what the code page could say.
Ansi(t) == IF t \in Foreign THEN Lossy ELSE t
Utf8(t) == t

Statuses == {"begin", "cancel", "success", "failure"}
DocsOf(T) == [name : T, url : T, status : Statuses, version : T]
DocListsOf(T) == UNION {[1..n -> DocsOf(T)] : n \in 0..MaxDocs}
InfosOf(T) == [course : T, sence : T, gate : T, life : T]
SenceKinds == {"sencectrl", "senceupdate"}

\* The tags of an IQ, with or without their child.
Tags ==
  [kind : {"userlogin"}, type : {"success", "failure"}]
    \cup [kind : {"docdown"}, type : {"normal", "force"}, docs : DocListsOf(DocTexts)]
    \cup [kind : {"docplay"}, child : BOOLEAN, name : Texts, status : {"start", "stop"}]
    \cup [kind : {"sccut"}, status : Texts]
    \cup [kind : SenceKinds, child : BOOLEAN, info : InfosOf(Texts)]

\* Messages, in this machine's code page; those of plays have a document.
Messages ==
  LET T == Texts \ Foreign IN
  [kind : {"userlogin"}, type : {0, 1}]
    \cup [kind : {"docdown"}, type : {0, 1}, docs : DocListsOf(DocTexts \ Foreign)]
    \cup [kind : {"docplay"}, name : T, status : {"start", "stop"}]
    \cup [kind : {"sccut"}, number : T]
    \cup [kind : SenceKinds, info : InfosOf(T)]

None == [kind |-> "none"]

VARIABLES
  pc,
  request,    \* the tag that came
  message,    \* the message made from it
  answer,     \* the message to be sent
  reply       \* the tag sent

payloadVars == <<pc, request, message, answer, reply>>

------------------------------------------------------------------------------
(* Tag to extension.                                                       *)

FitsInfo(i) == Size[i.course] < 128 /\ Size[i.sence] < 128 /\ Size[i.gate] < 64
                 /\ Size[i.life] < 64

\* Tags that an extension cannot be made from: CDocPlay reads its child without
\* looking whether there is one; SenceInfo leaves its four fields as they are if there
\* is none, and copies into them what may not fit.
Unreadable(t) ==
  \/ t.kind = "docplay" /\ ~t.child
  \/ t.kind \in SenceKinds /\ (~t.child \/ ~FitsInfo(t.info))

\* Mutant of NewInstance: documents come out in the order of another list.
NewInstanceReversed(t) ==
  CASE t.kind = "userlogin" -> [kind |-> t.kind, m_Type |-> IF t.type = "success" THEN 1 ELSE 0]
    [] t.kind = "docdown"   -> [kind |-> t.kind, m_Type |-> IF t.type = "force" THEN 1 ELSE 0,
                                m_Docs |-> [i \in DOMAIN t.docs |-> t.docs[Len(t.docs) + 1 - i]]]
    [] t.kind = "docplay"   -> [kind |-> t.kind, m_Name |-> t.name, m_Action |-> (t.status = "start")]
    [] t.kind = "sccut"     -> [kind |-> t.kind, m_Number |-> t.status]
    [] t.kind \in SenceKinds -> [kind |-> t.kind, m_info |-> t.info]

\* newInstance of each extension, for a tag that is readable.
NewInstance(t) ==
  CASE t.kind = "userlogin" -> [kind |-> t.kind, m_Type |-> IF t.type = "success" THEN 1 ELSE 0]
    [] t.kind = "docdown"   -> [kind |-> t.kind, m_Type |-> IF t.type = "force" THEN 1 ELSE 0,
                                m_Docs |-> t.docs]
    [] t.kind = "docplay"   -> [kind |-> t.kind, m_Name |-> t.name, m_Action |-> (t.status = "start")]
    [] t.kind = "sccut"     -> [kind |-> t.kind, m_Number |-> t.status]
    [] t.kind \in SenceKinds -> [kind |-> t.kind, m_info |-> t.info]

AnsiDoc(d) == [name |-> Ansi(d.name), url |-> Ansi(d.url), status |-> d.status,
               version |-> Ansi(d.version)]
AnsiInfo(i) == [course |-> Ansi(i.course), sence |-> Ansi(i.sence), gate |-> Ansi(i.gate),
                life |-> Ansi(i.life)]

\* handleIq: the message of an extension.  A download's type is not taken over, and one
\* without documents has no message.
ToMessage(e) ==
  CASE e.kind = "userlogin" -> [kind |-> e.kind, type |-> e.m_Type]
    [] e.kind = "docdown" /\ e.m_Docs # <<>> ->
         [kind |-> e.kind, type |-> 0, docs |-> [i \in DOMAIN e.m_Docs |-> AnsiDoc(e.m_Docs[i])]]
    [] e.kind = "docdown" /\ e.m_Docs = <<>> -> None
    [] e.kind = "docplay" ->
         [kind |-> e.kind, name |-> Ansi(e.m_Name), status |-> IF e.m_Action THEN "start" ELSE "stop"]
    [] e.kind = "sccut" -> [kind |-> e.kind, number |-> Ansi(e.m_Number)]
    [] e.kind \in SenceKinds -> [kind |-> e.kind, info |-> AnsiInfo(e.m_info)]

------------------------------------------------------------------------------
(* Message to extension, to tag.                                           *)

Utf8Doc(d) == [name |-> Utf8(d.name), url |-> Utf8(d.url), status |-> d.status,
               version |-> Utf8(d.version)]
Utf8Info(i) == [course |-> Utf8(i.course), sence |-> Utf8(i.sence), gate |-> Utf8(i.gate),
                life |-> Utf8(i.life)]

\* FillExtension.  SetValue assigns the member to its argument: m_Action is what the
\* constructor has made it.
Fill(m) ==
  CASE m.kind = "userlogin" -> [kind |-> m.kind, m_Type |-> m.type]
    [] m.kind = "docdown" ->
         [kind |-> m.kind, m_Type |-> m.type,
          m_Docs |-> [i \in DOMAIN m.docs |-> Utf8Doc(m.docs[i])]]
    [] m.kind = "docplay" -> [kind |-> m.kind, m_Name |-> Utf8(m.name), m_Action |-> FALSE]
    [] m.kind = "sccut" -> [kind |-> m.kind, m_Number |-> Utf8(m.number)]
    [] m.kind \in SenceKinds -> [kind |-> m.kind, m_info |-> Utf8Info(m.info)]

\* tag() of each extension.
ToTag(e) ==
  CASE e.kind = "userlogin" -> [kind |-> e.kind, type |-> IF e.m_Type # 0 THEN "success" ELSE "failure"]
    [] e.kind = "docdown" ->
         [kind |-> e.kind, type |-> IF e.m_Type = 0 THEN "normal" ELSE "force", docs |-> e.m_Docs]
    [] e.kind = "docplay" -> [kind |-> e.kind, child |-> TRUE, name |-> e.m_Name,
                              status |-> IF e.m_Action THEN "start" ELSE "stop"]
    [] e.kind = "sccut" -> [kind |-> e.kind, status |-> e.m_Number]
    [] e.kind \in SenceKinds -> [kind |-> e.kind, child |-> TRUE, info |-> e.m_info]

------------------------------------------------------------------------------
PayloadTypeOK ==
  /\ pc \in {"idle", "task", "send", "sent", "undefined"}
  /\ request \in Tags \cup {None}
  /\ message \in Messages \cup {None}
  /\ answer \in Messages \cup {None}
  /\ reply \in Tags \cup {None}

PayloadInit ==
  /\ pc = "idle"
  /\ request = None
  /\ message = None
  /\ answer = None
  /\ reply = None

\* An IQ arrives, gloox makes its extension, handleIq its message and, for three of
\* the kinds, the motion a task.
Receive ==
  /\ pc = "idle"
  /\ request' \in Tags
  /\ IF Unreadable(request') THEN pc' = "undefined" /\ message' = None
     ELSE /\ message' = ToMessage(NewInstance(request'))
          /\ pc' = IF message'.kind \in {"docdown", "docplay", "sccut"} THEN "task" ELSE "sent"
  /\ UNCHANGED <<answer, reply>>

\* Mutant of TaskEnd: URL and name change places on the way.
TaskEndSwapped ==
  /\ pc = "task"
  /\ \/ /\ message.kind = "docdown"
        /\ \E outcome \in [DOMAIN message.docs -> {"success", "failure"}] :
             answer' = [message EXCEPT !.docs =
               [i \in DOMAIN message.docs |-> [message.docs[i] EXCEPT !.status = outcome[i],
                                                                  !.name = message.docs[i].url]]]
     \/ /\ message.kind = "docplay"
        /\ answer' = IF message.name = Empty THEN None ELSE message
     \/ /\ message.kind = "sccut"
        /\ answer' = message
  /\ pc' = "send"
  /\ UNCHANGED <<request, message, reply>>

\* WorkEnd of the three tasks: a download tells of each document how it went; a play of
\* no name tells nothing; a screenshot gives its name back.
TaskEnd ==
  /\ pc = "task"
  /\ \/ /\ message.kind = "docdown"
        /\ \E outcome \in [DOMAIN message.docs -> {"success", "failure"}] :
             answer' = [message EXCEPT !.docs =
               [i \in DOMAIN message.docs |-> [message.docs[i] EXCEPT !.status = outcome[i]]]]
     \/ /\ message.kind = "docplay"
        /\ answer' = IF message.name = Empty THEN None ELSE message
     \/ /\ message.kind = "sccut"
        /\ answer' = message
  /\ pc' = "send"
  /\ UNCHANGED <<request, message, reply>>

\* Another caller's message.  There is none left in the repository.
Compose ==
  /\ pc = "idle"
  /\ answer' \in Messages
  /\ pc' = "send"
  /\ UNCHANGED <<request, message, reply>>

\* Send: an answer without documents goes out without a payload.  A sence's texts are
\* copied into the same fields as when one is read.
Send ==
  /\ pc = "send"
  /\ IF answer.kind \in SenceKinds /\ ~FitsInfo(answer.info)
     THEN pc' = "undefined" /\ reply' = None
     ELSE /\ pc' = "sent"
          /\ reply' = IF answer = None THEN None ELSE ToTag(Fill(answer))
  /\ UNCHANGED <<request, message, answer>>

\* The message, the extension and the tags are deleted.
Delete ==
  /\ pc = "sent"
  /\ pc' = "idle"
  /\ request' = None /\ message' = None /\ answer' = None /\ reply' = None

PayloadNext == Receive \/ TaskEnd \/ Compose \/ Send \/ Delete

PayloadSpec == PayloadInit /\ [][PayloadNext]_payloadVars
------------------------------------------------------------------------------
(* Properties.                                                             *)

\* The answer to a request is about the same documents, in the same order and each
\* with its own name, URL and version, or about the same program or picture, except for
\* what the code page cannot say.
ReplyIsAboutRequest ==
  pc = "sent" /\ request # None /\ reply # None =>
    /\ reply.kind = request.kind
    /\ reply.kind = "docdown" =>
         /\ DOMAIN reply.docs = DOMAIN request.docs
         /\ \A i \in DOMAIN reply.docs :
              /\ reply.docs[i].status \in {"success", "failure"}
              /\ reply.docs[i] = [AnsiDoc(request.docs[i])
                                    EXCEPT !.status = reply.docs[i].status]
    /\ reply.kind = "docplay" => reply.name = Ansi(request.name)
    /\ reply.kind = "sccut" => reply.status = Ansi(request.status)

\* What a message loses on the way to another program of this kind.
Received(m) ==
  CASE m.kind = "docplay"                     -> [m EXCEPT !.status = "stop"]
    [] m.kind = "docdown" /\ m.docs # <<>>    -> [m EXCEPT !.type = 0]
    [] m.kind = "docdown" /\ m.docs = <<>>    -> None
    [] m.kind \notin {"docplay", "docdown"}   -> m

\* Written and read again by a program of this kind, a message can be read and is the
\* same, but for the three things that the code drops: the action of a play, the type
\* of a download, and a download of no documents.
MessageSurvives ==
  pc = "sent" /\ answer # None =>
    /\ ~Unreadable(reply)
    /\ ToMessage(NewInstance(reply)) = Received(answer)
==============================================================================
