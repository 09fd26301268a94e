--------------------------------- MODULE XJid ---------------------------------
(***************************************************************************)
(* Addresses: class X_JID (CellView/XmppInstance.cpp) and, as the program  *)
(* uses it, gloox::JID (external).  A string is a sequence of letters; the *)
(* letters that separate the parts of an address are "@", "/" and "_", and *)
(* a word without any of them may stand for one letter.                    *)
(***************************************************************************)
EXTENDS Naturals, Sequences, SequencesExt

CONSTANT Letters

ASSUME LettersAssumption == {"@", "/", "_"} \subseteq Letters

\* Where c first is in s, 0 if it is not there; what is before and behind it.
Find(s, c) == SelectInSeq(s, LAMBDA x : x = c)
Before(s, i) == IF i = 0 THEN s ELSE SubSeq(s, 1, i - 1)
Behind(s, i) == SubSeq(s, i + 1, Len(s))

\* Mutant of Resource: an address with an ID loses its password.
ResourceIdOnly(j) ==
  CASE j.id # <<>>                   -> j.pref \o <<"_">> \o j.id
    [] j.id = <<>> /\ j.pass # <<>>  -> j.pref \o <<"_">> \o j.id \o <<"_">> \o j.pass
    [] j.id = <<>> /\ j.pass = <<>>  -> j.pref

\* The resource: a prefix, an ID and a password, with trailing empty parts left out.
Resource(j) ==
  CASE j.pass # <<>>                 -> j.pref \o <<"_">> \o j.id \o <<"_">> \o j.pass
    [] j.pass = <<>> /\ j.id # <<>>  -> j.pref \o <<"_">> \o j.id
    [] j.pass = <<>> /\ j.id = <<>>  -> j.pref

\* Mutant of JID: a resource that starts with "_" is taken for none.
JIDBare(j) ==
  j.user \o <<"@">> \o j.server
    \o IF j.pref = <<>> THEN <<>> ELSE <<"/">> \o Resource(j)

\* The whole address.
JID(j) ==
  j.user \o <<"@">> \o j.server
    \o IF Resource(j) = <<>> THEN <<>> ELSE <<"/">> \o Resource(j)

\* A resource's parts end at its first two "_".
Split(resource) ==
  LET one == Find(resource, "_")
      tail == Behind(resource, one)
      two == Find(tail, "_")
  IN [pref |-> Before(resource, one),
      id   |-> IF one = 0 THEN <<>> ELSE Before(tail, two),
      pass |-> IF one = 0 \/ two = 0 THEN <<>> ELSE Behind(tail, two)]

\* The address a string stands for; all of a string without "@" is both user and
\* server.
Parse(s) ==
  LET at == Find(s, "@")
      host == Behind(s, at)
      slash == Find(host, "/")
      parts == Split(IF slash = 0 THEN <<>> ELSE Behind(host, slash))
  IN [user |-> Before(s, at), server |-> Before(host, slash),
      pref |-> parts.pref, id |-> parts.id, pass |-> parts.pass]

\* gloox::JID keeps the resource in one piece.
GlooxJID(s) ==
  LET at == Find(s, "@")
      host == Behind(s, at)
      slash == Find(host, "/")
  IN [user |-> Before(s, at), server |-> Before(host, slash),
      resource |-> IF slash = 0 THEN <<>> ELSE Behind(host, slash)]
===============================================================================
