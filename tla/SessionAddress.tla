---------------------------- MODULE SessionAddress ----------------------------
(***************************************************************************)
(* The program's own address, from the configuration and the dialog to the *)
(* client's login and to the programs that play tasks start:               *)
(* EnvStartUp and the two login buttons (CellView/CellViewDlg.cpp),        *)
(* LoadConfig, SetJidResource and runConnect (CellView/XmppInstance.cpp),  *)
(* handleDocPlay (CellView/ViewMotion.cpp) and CDocPlayTask                *)
(* (CellView/DocPlayTask.cpp).  How its threads interleave inside          *)
(* SetJidResource is XmppSession's subject: here each step is one.         *)
(***************************************************************************)
EXTENDS XJid

CONSTANTS Users, Servers,   \* what the configuration may name
          Ids, Passes,      \* what the user may type
          MaxLogins,        \* bound: login buttons pressed
          MaxRequests       \* bound: play requests received

ASSUME StringsAssumption ==
  /\ Users \cup Servers \cup Ids \cup Passes \subseteq Seq(Letters)
  /\ {"guest", "Unit"} \subseteq Letters
ASSUME BoundsAssumption == MaxLogins \in Nat /\ MaxRequests \in Nat

\* Neither the configuration's user has an "@" nor its server a "/".
ASSUME ConfigAssumption ==
  /\ \A u \in Users : Find(u, "@") = 0
  /\ \A s \in Servers : Find(s, "/") = 0

Guest == <<"guest">>
Unit == <<"Unit">>

VARIABLES
  env,        \* "start", "ok" or "fail": what EnvStartUp has come to
  m_JID,      \* CXmppInstance's X_JID
  client,     \* the name, server and resource the client logs in with
  due,        \* how many xmpp threads are about to call runConnect
  m_TaskList, \* the play tasks: the address each got, and m_JID as it then was
  commands,   \* history: the login address in the command line of each program started,
              \* with the request's m_JID
  logins, requests

vars == <<env, m_JID, client, due, m_TaskList, commands, logins, requests>>

Blank == [user |-> <<>>, server |-> <<>>, pref |-> <<>>, id |-> <<>>, pass |-> <<>>]
NoClient == [user |-> <<>>, server |-> <<>>, resource |-> <<>>]

TypeOK ==
  /\ env \in {"start", "ok", "fail"}
  /\ m_JID.pref = <<>>
  /\ env = "ok" => m_JID.user \in Users \ {<<>>} /\ m_JID.server \in Servers \ {<<>>}
  /\ m_JID.id \in Ids \cup {Guest, <<>>} /\ m_JID.pass \in Passes \cup {Guest, <<>>}
  /\ due \in 0..logins
  /\ client # NoClient => env = "ok"
  /\ Len(m_TaskList) <= requests
  /\ logins \in 0..MaxLogins /\ requests \in 0..MaxRequests

Init ==
  /\ env = "start"
  /\ m_JID = Blank
  /\ client = NoClient
  /\ due = 0
  /\ m_TaskList = <<>>
  /\ commands = {}
  /\ logins = 0
  /\ requests = 0

\* Mutant of EnvStartUp: an empty entry is no reason to fail.
EnvStartUpUnchecked ==
  /\ env = "start"
  /\ \E u \in Users, s \in Servers, others \in BOOLEAN :
       /\ env' = IF others THEN "ok" ELSE "fail"
       /\ m_JID' = [m_JID EXCEPT !.user = u, !.server = s]
  /\ UNCHANGED <<client, due, m_TaskList, commands, logins, requests>>

\* The thread EnvStartUp, and LoadConfig: user and server are taken over if no entry
\* that LoadConfig needs is empty; the login page opens if no other entry is.
EnvStartUp ==
  /\ env = "start"
  /\ \E u \in Users, s \in Servers, passAndIp, others \in BOOLEAN :
       LET loaded == u # <<>> /\ s # <<>> /\ passAndIp
       IN /\ env' = IF loaded /\ others THEN "ok" ELSE "fail"
          /\ m_JID' = IF loaded THEN [m_JID EXCEPT !.user = u, !.server = s] ELSE m_JID
  /\ UNCHANGED <<client, due, m_TaskList, commands, logins, requests>>

\* OnClickNext or OnClickGstLogin, with SetJidResource and Connect.  Back leads to the
\* buttons again, but not while there is no client: DisConnect would use it.
Login ==
  /\ env = "ok"
  /\ client = NoClient => due = 0
  /\ logins < MaxLogins
  /\ logins' = logins + 1
  /\ \/ \E i \in Ids, p \in Passes : m_JID' = [m_JID EXCEPT !.id = i, !.pass = p]
     \/ m_JID' = [m_JID EXCEPT !.id = Guest, !.pass = Guest]
  /\ due' = due + 1
  /\ UNCHANGED <<env, client, m_TaskList, commands, requests>>

\* runConnect: the first one creates the client with the whole address, the others
\* set user and resource.
RunConnect ==
  /\ due > 0
  /\ due' = due - 1
  /\ client' = IF client = NoClient THEN GlooxJID(JID(m_JID))
               ELSE [client EXCEPT !.user = m_JID.user, !.resource = Resource(m_JID)]
  /\ UNCHANGED <<env, m_JID, m_TaskList, commands, logins, requests>>

\* A play request arrives: its task gets the address as a string.
HandleDocPlay ==
  /\ client # NoClient
  /\ requests < MaxRequests
  /\ requests' = requests + 1
  /\ m_TaskList' = Append(m_TaskList, [jid |-> JID(m_JID), own |-> m_JID])
  /\ UNCHANGED <<env, m_JID, client, due, commands, logins>>

\* CDocPlayTask::Work splits the string again and sets another prefix.  It gets there
\* only if the request names a document.
Work ==
  /\ m_TaskList # <<>>
  /\ \/ commands' = commands \cup
          {[address |-> JID([Parse(Head(m_TaskList).jid) EXCEPT !.pref = Unit]),
            own |-> Head(m_TaskList).own]}
     \/ UNCHANGED commands
  /\ m_TaskList' = Tail(m_TaskList)
  /\ UNCHANGED <<env, m_JID, client, due, logins, requests>>

Next == EnvStartUp \/ Login \/ RunConnect \/ HandleDocPlay \/ Work

Spec == Init /\ [][Next]_vars
-------------------------------------------------------------------------------
(* Properties.                                                             *)

\* An ID that does not come through a resource as it went in: without a password
\* behind it, it ends at its own "_".
Fragile(j) == j.pass = <<>> /\ j.id # <<>> /\ Find(j.id, "_") = Len(j.id)

\* A program that a request starts is told to log in as this one had it when the
\* request came, under "Unit": the address survives being written and read again,
\* whatever the user has typed, but for a lone "_" at the end of an ID.
UnitKeepsLogin ==
  \A c \in commands :
    ~Fragile(c.own) => c.address = JID([c.own EXCEPT !.pref = Unit])

\* The first login, whose address gloox splits, and a later one, whose parts it is
\* given, tell the server the same user and resource; the server stays.  And what it
\* gets is enough to tell ID and password apart, if the ID has no "_" in it.
LoginIsOwn ==
  client # NoClient /\ due = 0 =>
    /\ client = [user |-> m_JID.user, server |-> m_JID.server, resource |-> Resource(m_JID)]
    /\ Find(m_JID.id, "_") = 0 =>
         LET parts == Split(client.resource)
         IN parts.id = m_JID.id /\ parts.pass = m_JID.pass
===============================================================================
