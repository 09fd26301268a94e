--------------------------------- MODULE XUrl ---------------------------------
(***************************************************************************)
(* The URL of a document: class XUrl (worker/XHttpGet.cpp).  Strings are   *)
(* sequences of letters, of which ":" and "/" separate the parts; a port   *)
(* is the digits it is written with.                                       *)
(***************************************************************************)
EXTENDS XJid, FiniteSets

CONSTANTS Digits

ASSUME DigitsAssumption == Digits \subseteq Letters \ {":", "/"}

\* Where "//" first is, -1 if it is not there, as std::string::find says: places
\* count from 0.
FindSlashes(s) ==
  LET I == {i \in 1..Len(s) - 1 : s[i] = "/" /\ s[i + 1] = "/"}
  IN IF I = {} THEN 0 - 1 ELSE (CHOOSE i \in I : \A k \in I : i <= k) - 1

\* What atoi reads of a string: the digits it starts with.
Atoi(s) == LET I == {i \in 1..Len(s) : s[i] \notin Digits}
           IN IF I = {} THEN s ELSE SubSeq(s, 1, (CHOOSE i \in I : \A k \in I : i <= k) - 1)

Thrown == "out_of_range"

\* Mutant of XUrl: the port is not cut off the host.
XUrlHostPort(url) ==
  LET start == FindSlashes(url) + 2
      rest == SubSeq(url, start + 1, Len(url))
      slash == Find(rest, "/")
      host == Before(rest, slash)
      colon == Find(host, ":")
  IN IF start > Len(url) \/ slash = 0 THEN Thrown
     ELSE [ip |-> host, path |-> Behind(rest, slash - 1),
           port |-> IF colon > 1 THEN Atoi(Behind(host, colon)) ELSE <<"80">>]

\* The constructor.  Without "//" it skips one letter all the same, and throws if
\* there is none; without a "/" behind the host, substr throws.
XUrl(url) ==
  LET start == FindSlashes(url) + 2
      rest == SubSeq(url, start + 1, Len(url))
      slash == Find(rest, "/")
      host == Before(rest, slash)
      colon == Find(host, ":")
  IN IF start > Len(url) \/ slash = 0 THEN Thrown
     ELSE [ip |-> IF colon > 1 THEN Before(host, colon) ELSE host,
           path |-> Behind(rest, slash - 1),
           port |-> IF colon > 1 THEN Atoi(Behind(host, colon)) ELSE <<"80">>]
-------------------------------------------------------------------------------
\* The reference definition: a scheme, two slashes, a host, perhaps a port, a path.
IsUrl(scheme, host, port, path) ==
  /\ Find(scheme, "/") = 0
  /\ host # <<>> /\ Find(host, "/") = 0 /\ Find(host, ":") = 0
  /\ port # <<>> => /\ Head(port) = ":" /\ Tail(port) # <<>>
                    /\ \A i \in 2..Len(port) : port[i] \in Digits
  /\ path # <<>> /\ Head(path) = "/"

\* What is made of a URL.
PartsAreTaken(url) ==
  \A a, b, c \in 0..Len(url) :
    LET scheme == SubSeq(url, 1, a)
        host == SubSeq(url, a + 3, b)
        port == SubSeq(url, b + 1, c)
        path == SubSeq(url, c + 1, Len(url))
    IN /\ a + 2 <= b /\ b <= c
       /\ url[a + 1] = "/" /\ url[a + 2] = "/"
       /\ IsUrl(scheme, host, port, path)
       => XUrl(url) = [ip |-> host, path |-> path,
                       port |-> IF port = <<>> THEN <<"80">> ELSE Tail(port)]
===============================================================================
