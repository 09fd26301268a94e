--------------------------- MODULE MCSessionAddress ---------------------------
(* Small instances for TLC of SessionAddress, with names of up to three       *)
(* letters, and of XUrl, with all short URLs.  The two have nothing to do     *)
(* with each other: a URL grows letter by letter before the program starts,   *)
(* and only the empty one lets it start.                                      *)
EXTENDS SessionAddress, XUrl

CONSTANTS UrlLetters, MaxLength

ASSUME UrlLettersAssumption == UrlLetters \subseteq Letters

VARIABLE url

MCLetters == {"a", "b", "c", "p", "s", "1", "_", "/", "@", ":", "guest", "Unit"}

MCUsers == {<<>>, <<"c">>, <<"c", "/">>, <<"_">>}
MCServers == {<<>>, <<"s">>, <<"s", "@">>, <<"s", "_">>}

\* All strings of up to two of these letters, and some longer.
Typed == SeqOf({"a", "_", "/", "@"}, 2)
MCIds == Typed \cup {<<"a", "_", "_">>, <<"a", "_", "b">>, <<"_", "a", "_">>}
MCPasses == {<<>>, <<"p">>, <<"_">>, <<"_", "p">>, <<"p", "_">>, <<"/">>}

MCInit == Init /\ url = <<>>

Grow == /\ env = "start"
        /\ Len(url) < MaxLength
        /\ \E c \in UrlLetters : url' = Append(url, c)
        /\ UNCHANGED vars

MCNext == Grow \/ (url = <<>> /\ Next /\ UNCHANGED url)

MCSpec == MCInit /\ [][MCNext]_<<vars, url>>
-------------------------------------------------------------------------------
\* A URL that is one is split into what it was made of, whatever slashes and colons
\* its path and its scheme have, with port 80 if it has none; and XUrl does not throw,
\* which nobody on the way up through httpGetFile to the worker's thread catches.
PartsAreFound == PartsAreTaken(url)
===============================================================================
