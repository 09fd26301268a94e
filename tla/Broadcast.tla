------------------------------ MODULE Broadcast ------------------------------
(***************************************************************************)
(* CCellIqManager::Send to a member list: one message to all the members   *)
(* that are online, each in an IQ of its own.  An IQ owns the extension it *)
(* is given and deletes it, so that the loop always holds a clone for the  *)
(* next IQ and deletes the last one itself.                                *)
(*                                                                         *)
(* No caller of this overload is left in the repository: the message and   *)
(* the list are any.                                                       *)
(***************************************************************************)
EXTENDS Naturals, Sequences

CONSTANTS Jids,         \* the members' addresses
          MaxMembers    \* bound: the longest list

ASSUME MembersAssumption == MaxMembers \in Nat

MsgKinds == {"userlogin", "docdown", "docplay", "sccut", "sencectrl", "senceupdate"}

\* A message, or the extension made from it: its kind, whether it names documents,
\* and, for a download, its type.
Payloads == [kind : MsgKinds, docs : BOOLEAN, type : {"normal", "force"}]

Members == [jid : Jids, online : BOOLEAN]

VARIABLES
  msg,          \* the message
  members,      \* the list
  it,           \* how many members the loop has passed
  lpc,          \* where the loop is
  heap,         \* the extensions that are allocated, by the order of allocation
  made,         \* how many have been allocated
  ext,          \* the loop's extension; 0 is NULL
  iqExt,        \* the extension that the current IQ owns; 0 if there is no IQ
  copies        \* history: addressees and payloads, in order

broadcastVars == <<msg, members, it, lpc, heap, made, ext, iqExt, copies>>

BroadcastTypeOK ==
  /\ msg \in Payloads
  /\ members \in Seq(Members)
  /\ it \in 0 .. Len(members)
  /\ lpc \in {"fill", "loop", "clone", "cloning", "delete", "returned", "undefined"}
  /\ made \in 0 .. MaxMembers + 1
  /\ DOMAIN heap \subseteq 1 .. made
  /\ \A e \in DOMAIN heap : heap[e] \in Payloads
  /\ ext \in 0 .. made
  /\ iqExt \in 0 .. made
  /\ copies \in Seq(Jids \X Payloads)

BroadcastInit ==
  /\ msg \in Payloads
  /\ members \in UNION {[1 .. n -> Members] : n \in 0 .. MaxMembers}
  /\ it = 0
  /\ lpc = "fill"
  /\ heap = [e \in {} |-> msg]
  /\ made = 0
  /\ ext = 0
  /\ iqExt = 0
  /\ copies = <<>>

\* new and delete.
With(e, payload) == [x \in DOMAIN heap \cup {e} |-> IF x = e THEN payload ELSE heap[x]]
Without(e)       == [x \in DOMAIN heap \ {e} |-> heap[x]]

------------------------------------------------------------------------------
\* FillExtension makes the extension; playing no document has none, and Send
\* returns.
FillExtension ==
  /\ lpc = "fill"
  /\ IF msg.kind = "docplay" /\ ~msg.docs
     THEN /\ lpc' = "returned"
          /\ UNCHANGED <<heap, made, ext>>
     ELSE /\ lpc' = "loop"
          /\ made' = 1
          /\ ext' = 1
          /\ heap' = With(1, msg)
  /\ UNCHANGED <<msg, members, it, iqExt, copies>>

\* A member that is offline is passed over.
Skip ==
  /\ lpc = "loop"
  /\ it < Len(members)
  /\ ~members[it + 1].online
  /\ it' = it + 1
  /\ UNCHANGED <<msg, members, lpc, heap, made, ext, iqExt, copies>>

\* A new IQ, which is given the extension, to a member that is online.
SendIq ==
  /\ lpc = "loop"
  /\ it < Len(members)
  /\ members[it + 1].online
  /\ iqExt' = ext
  /\ copies' = Append(copies, <<members[it + 1].jid, heap[ext]>>)
  /\ lpc' = "clone"
  /\ UNCHANGED <<msg, members, it, heap, made, ext>>

\* Mutants of Clone: there is no clone; the copy forgets its name and number.
CloneNot ==
  /\ lpc = "clone"
  /\ lpc' = "delete"
  /\ UNCHANGED <<msg, members, it, heap, made, ext, iqExt, copies>>

CloneEmpty ==
  /\ lpc = "clone"
  /\ made' = made + 1
  /\ ext' = made + 1
  /\ heap' = With(made + 1, [heap[ext] EXCEPT !.docs = FALSE])
  /\ lpc' = "delete"
  /\ UNCHANGED <<msg, members, it, iqExt, copies>>

\* ext->clone().  A download's copy is a normal one, and the loop that copies its
\* documents does not get past the first; a sence's copy is written through
\* m_info, which its constructor has not set.
Clone ==
  /\ lpc = "clone"
  /\ \/ /\ heap[ext].kind \in {"sencectrl", "senceupdate"}
        /\ lpc' = "undefined"
        /\ UNCHANGED <<heap, made, ext>>
     \/ /\ heap[ext].kind = "docdown" /\ heap[ext].docs
        /\ lpc' = "cloning"
        /\ UNCHANGED <<heap, made, ext>>
     \/ /\ heap[ext].kind = "docdown" /\ ~heap[ext].docs
        /\ heap' = With(made + 1, [heap[ext] EXCEPT !.type = "normal"])
        /\ made' = made + 1
        /\ ext' = made + 1
        /\ lpc' = "delete"
     \/ /\ heap[ext].kind \in {"userlogin", "docplay", "sccut"}
        /\ heap' = With(made + 1, heap[ext])
        /\ made' = made + 1
        /\ ext' = made + 1
        /\ lpc' = "delete"
  /\ UNCHANGED <<msg, members, it, iqExt, copies>>

\* delete iq, with the extension it owns, and on to the next member.
DeleteIq ==
  /\ lpc = "delete"
  /\ heap' = Without(iqExt)
  /\ iqExt' = 0
  /\ it' = it + 1
  /\ lpc' = "loop"
  /\ UNCHANGED <<msg, members, made, ext, copies>>

\* Mutant of Return: the last clone is forgotten.
ReturnOnly ==
  /\ lpc = "loop"
  /\ it = Len(members)
  /\ lpc' = "returned"
  /\ UNCHANGED <<msg, members, it, heap, made, ext, iqExt, copies>>

\* The last clone, which no IQ has been given, is deleted.
Return ==
  /\ lpc = "loop"
  /\ it = Len(members)
  /\ heap' = Without(ext)
  /\ lpc' = "returned"
  /\ UNCHANGED <<msg, members, it, made, ext, iqExt, copies>>

BroadcastNext == FillExtension \/ Skip \/ SendIq \/ Clone \/ DeleteIq \/ Return

BroadcastSpec == BroadcastInit /\ [][BroadcastNext]_broadcastVars
------------------------------------------------------------------------------
(* Properties.                                                             *)

\* Whatever is given to an IQ, cloned or deleted is allocated, and what the loop
\* holds after the clone is not what the IQ is about to delete.
NoUseAfterDelete ==
  /\ lpc \in {"loop", "clone", "delete"} => ext \in DOMAIN heap
  /\ lpc = "delete" => iqExt \in DOMAIN heap \ {ext}

\* Send leaves no extension behind, however many members it has reached.
NothingIsLeaked == lpc = "returned" => DOMAIN heap = {}

\* How many members have been passed over or sent to.
Reached == IF lpc \in {"fill", "loop", "returned"} THEN it ELSE it + 1

\* The messages whose extension can be cloned, and what the clone says.
Copyable == \/ msg.kind \in {"userlogin", "docplay", "sccut"}
            \/ msg.kind = "docdown" /\ ~msg.docs
Cloned == IF msg.kind = "docdown" THEN [msg EXCEPT !.type = "normal"] ELSE msg

\* At every point of the loop the members passed that are online have been sent one IQ
\* each, in the order of the list: the first with the message, the others with a clone
\* of it, which for a download of no documents has lost the type.  That is all the
\* members if Send returns, unless there was nothing to play.  It does not return if
\* the message is a download that names documents or a sence and somebody is online:
\* then one member gets it, whoever else is, for want of the "identical copy" of
\* stanzaextension.h:262.
OnlineServedInTurn ==
  /\ \E to \in [DOMAIN copies -> DOMAIN members] :
       /\ {to[i] : i \in DOMAIN copies} = {k \in 1 .. Reached : members[k].online}
       /\ \A i, j \in DOMAIN copies : i < j => to[i] < to[j]
       /\ \A i \in DOMAIN copies : /\ copies[i][1] = members[to[i]].jid
                                   /\ copies[i][2] = IF i = 1 THEN msg ELSE Cloned
  /\ lpc = "returned" => \/ Reached = Len(members)
                         \/ msg.kind = "docplay" /\ ~msg.docs
  /\ lpc \in {"cloning", "undefined"} => ~Copyable
  /\ ~Copyable => Len(copies) <= 1
==============================================================================
