------------------------------- MODULE HttpGet -------------------------------
(***************************************************************************)
(* httpGetFile (worker/XHttpGet.cpp): one download over one connection.    *)
(* The response comes in pieces of any size, and may end or fail anywhere. *)
(*                                                                         *)
(* The response is the bytes 1 .. hdr + body.  Bytes 1 and 2 stand for the *)
(* Content-Length field, whose digits may be cut between them.  Some of    *)
(* the others are line ends, and two in a row a blank line: hdr - 1 and    *)
(* hdr are the one that ends the header, and the body may have others.  A  *)
(* cell of memory holds the byte of that number, or what was in recvbuf    *)
(* before anything was received.                                           *)
(***************************************************************************)
EXTENDS Integers, Sequences, FiniteSetsExt

CONSTANTS Chunk,        \* bytes asked for by a recv of the header: 256
          BufChunks,    \* buffer is this many chunks long: 4096 / 256
          MaxHeader,    \* bound: the longest header a server sends
          MaxBody       \* bound: the longest body

ASSUME SizesAssumption == /\ Chunk \in Nat \ {0}
                          /\ BufChunks \in Nat \ {0}
                          /\ MaxHeader \in Nat /\ MaxHeader >= 4
                          /\ MaxBody \in Nat

Buffer == Chunk * BufChunks

\* What recvbuf, never initialised, may hold: a NUL, some text or a line end.
Nul == -1
Text == -2
Eol == -3
Cells == 1 .. MaxHeader + MaxBody \cup {Nul, Text, Eol}

VARIABLES
  \* the server
  hdr, body,    \* how long the header and the body of its response are
  ends,         \* which of its bytes are line ends
  hasLength,    \* does the header have a Content-Length?
  page,         \* is it a page about an error, and not the document?
  sent,         \* how many bytes it sends
  silent,       \* does it stay silent then, and not close the connection?
  failed,       \* has the connection been reset?
  \* httpGetFile
  pc,
  pos,          \* how many bytes recv has handed out
  recvbuf,
  buffer,       \* the first bufindex cells of buffer
  needRead, readCount,
  file,         \* what has been written to the file
  open,         \* is f open?
  ret,
  short         \* history: has a recv of the header returned less than a chunk?

serverVars == <<hdr, body, ends, hasLength, page, sent, silent>>
vars == <<serverVars, failed, pc, pos, recvbuf, buffer, needRead, readCount,
          file, open, ret, short>>

\* The line ends a response may have: the first blank line is the header's.
Responses(h, b) == {E \in SUBSET (3 .. h + b) :
                      {h - 1, h} \subseteq E /\ \A k \in E : k + 1 \in E => k + 1 >= h}

TypeOK ==
  /\ hdr \in 4 .. MaxHeader
  /\ body \in 0 .. MaxBody
  /\ ends \in Responses(hdr, body)
  /\ hasLength \in BOOLEAN
  /\ page \in BOOLEAN
  /\ sent \in 0 .. hdr + body
  /\ silent \in BOOLEAN
  /\ failed \in BOOLEAN
  /\ pc \in {"start", "connect", "header", "length", "body", "catch",
             "returned", "undefined"}
  /\ pos \in 0 .. sent
  /\ recvbuf \in [1 .. Chunk -> Cells]
  /\ buffer \in Seq(Cells)
  /\ Len(buffer) <= Buffer
  /\ needRead \in Nat
  /\ readCount \in Nat
  /\ file \in Seq(Cells)
  /\ open \in BOOLEAN
  /\ ret \in Nat
  /\ short \in BOOLEAN

\* A server announces the length of its body if it announces one at all.
Init ==
  /\ hdr \in 4 .. MaxHeader
  /\ body \in 0 .. MaxBody
  /\ ends \in Responses(hdr, body)
  /\ hasLength \in BOOLEAN
  /\ page \in BOOLEAN
  /\ sent \in 0 .. hdr + body
  /\ silent \in BOOLEAN
  /\ failed = FALSE
  /\ pc = "start"
  /\ pos = 0
  /\ recvbuf \in [1 .. Chunk -> {Nul, Text, Eol}]
  /\ buffer = <<>>
  /\ needRead = 0
  /\ readCount = 0
  /\ file = <<>>
  /\ open = FALSE
  /\ ret = 0
  /\ short = FALSE

------------------------------------------------------------------------------
(* Sockets.                                                                *)

ConnectionReset ==
  /\ pc \in {"header", "body"}
  /\ ~failed
  /\ failed' = TRUE
  /\ UNCHANGED <<serverVars, pc, pos, recvbuf, buffer, needRead, readCount, file,
                 open, ret, short>>

\* The values recv may return when it is asked for n bytes: some of the bytes that
\* are still to come, 0 when the server has closed the connection, -1 when it is
\* reset, and none, for ever, while the server is silent.
Recv(n) ==
  IF failed THEN {-1}
  ELSE IF pos = sent THEN IF silent THEN {} ELSE {0}
  ELSE 1 .. Min({n, sent - pos})

\* Bytes pos + 1 .. pos + r of the response.
Received(r) == [i \in 1 .. r |-> pos + i]

------------------------------------------------------------------------------
(* httpGetFile, a step for each call of it that may fail.                  *)

\* The file is opened, and emptied, before there is a connection.
OpenFile ==
  /\ pc = "start"
  /\ \/ pc' = "connect"  /\ open' = TRUE
     \/ pc' = "returned" /\ UNCHANGED open
  /\ UNCHANGED <<serverVars, failed, pos, recvbuf, buffer, needRead, readCount,
                 file, ret, short>>

\* A connect that fails returns 0 at once, the file still open.
Connect ==
  /\ pc = "connect"
  /\ pc' \in {"header", "returned"}
  /\ UNCHANGED <<serverVars, failed, pos, recvbuf, buffer, needRead, readCount,
                 file, open, ret, short>>

\* strstr(buffer, "\r\n\r\n"): where in b a blank line begins that no NUL comes
\* before, whether it is the header's, the body's, or made of what a short read has
\* put together.
IsEnd(c) == c \in ends \cup {Eol}
BlankLines(b) == {k \in 1 .. Len(b) - 1 : /\ IsEnd(b[k]) /\ IsEnd(b[k + 1])
                                          /\ \A j \in 1 .. k : b[j] # Nul}

\* Mutant of RecvHeader: the blank line is looked for in the last chunk alone.
RecvHeaderLastChunk ==
  /\ pc = "header"
  /\ IF Len(buffer) + Chunk > Buffer
     THEN /\ pc' = "undefined"
          /\ UNCHANGED <<pos, recvbuf, buffer, short>>
     ELSE \E r \in Recv(Chunk) :
            /\ pos' = IF r > 0 THEN pos + r ELSE pos
            /\ recvbuf' = [i \in 1 .. Chunk |-> IF i <= r THEN pos + i ELSE recvbuf[i]]
            /\ buffer' = buffer \o recvbuf'
            /\ short' = (short \/ r < Chunk)
            /\ pc' = IF \A k \in BlankLines(buffer') : k <= Len(buffer)
                     THEN "header" ELSE "length"
  /\ UNCHANGED <<serverVars, failed, needRead, readCount, file, open, ret>>

\* One turn of the header's loop.  What recv has returned is not looked at: a whole
\* recvbuf is copied to the buffer, with what was in it before where recv has
\* received less, past the buffer's end if there is no blank line.
RecvHeader ==
  /\ pc = "header"
  /\ IF Len(buffer) + Chunk > Buffer
     THEN /\ pc' = "undefined"
          /\ UNCHANGED <<pos, recvbuf, buffer, short>>
     ELSE \E r \in Recv(Chunk) :
            /\ pos' = IF r > 0 THEN pos + r ELSE pos
            /\ recvbuf' = [i \in 1 .. Chunk |-> IF i <= r THEN pos + i ELSE recvbuf[i]]
            /\ buffer' = buffer \o recvbuf'
            /\ short' = (short \/ r < Chunk)
            /\ pc' = IF BlankLines(buffer') = {} THEN "header" ELSE "length"
  /\ UNCHANGED <<serverVars, failed, needRead, readCount, file, open, ret>>

\* The cells of the buffer after the first blank line.
Found == Min(BlankLines(buffer))
Rest == SubSeq(buffer, Found + 2, Len(buffer))

\* Has the field been received in one piece?  Is the blank line the header's?
FieldIsWhole == buffer[2] = 2
HeaderFound == buffer[Found] = hdr - 1 /\ buffer[Found + 1] = hdr

\* Mutant of ReadLength: what follows the header is not written.
ReadLengthOnly ==
  /\ pc = "length"
  /\ hasLength \/ ~HeaderFound
  /\ needRead' \in IF hasLength /\ FieldIsWhole THEN {body} ELSE 0 .. MaxBody
  /\ readCount' = Len(Rest)
  /\ pc' = "body"
  /\ UNCHANGED <<serverVars, failed, pos, recvbuf, buffer, file, open, ret, short>>

\* GetFileLengthFromHeader and the fwrite of what follows the header, whatever the
\* status in its first line is.  Without a Content-Length, substr throws; one that has
\* been cut is not found, or read as some other number, and what comes before a blank
\* line that is not the header's may have any.
ReadLength ==
  /\ pc = "length"
  /\ \/ /\ hasLength \/ ~HeaderFound
        /\ needRead' \in IF hasLength /\ FieldIsWhole THEN {body} ELSE 0 .. MaxBody
        /\ readCount' = Len(Rest)
        /\ file' = Rest
        /\ pc' = "body"
     \/ /\ ~hasLength \/ ~FieldIsWhole
        /\ pc' = "catch"
        /\ UNCHANGED <<needRead, readCount, file>>
  /\ UNCHANGED <<serverVars, failed, pos, recvbuf, buffer, open, ret, short>>

\* Mutant of RecvBody: readCount is not advanced.
RecvBodyUncounted ==
  /\ pc = "body"
  /\ readCount < needRead
  /\ \E r \in Recv(Min({Buffer, needRead - readCount})) :
       /\ r >= 0
       /\ pos' = pos + r
       /\ file' = file \o Received(r)
  /\ UNCHANGED <<serverVars, failed, pc, recvbuf, buffer, needRead, readCount, open,
                 ret, short>>

\* One turn of the loop that reads the body.  For a read that fails, fwrite is told
\* to write -1 bytes.
RecvBody ==
  /\ pc = "body"
  /\ readCount < needRead
  /\ \E r \in Recv(Min({Buffer, needRead - readCount})) :
       IF r < 0
       THEN /\ pc' = "undefined"
            /\ UNCHANGED <<pos, readCount, file>>
       ELSE /\ pos' = pos + r
            /\ readCount' = readCount + r
            /\ file' = file \o Received(r)
            /\ UNCHANGED pc
  /\ UNCHANGED <<serverVars, failed, recvbuf, buffer, needRead, open, ret, short>>

\* Mutants of Return: one byte early; an empty file is not closed.
ReturnEarly ==
  /\ pc = "body"
  /\ readCount >= needRead - 1
  /\ pc' = "returned"
  /\ open' = FALSE
  /\ ret' = needRead
  /\ UNCHANGED <<serverVars, failed, pos, recvbuf, buffer, needRead, readCount,
                 file, short>>

ReturnOpen ==
  /\ pc = "body"
  /\ readCount >= needRead
  /\ pc' = "returned"
  /\ open' = (needRead = 0)
  /\ ret' = needRead
  /\ UNCHANGED <<serverVars, failed, pos, recvbuf, buffer, needRead, readCount,
                 file, short>>

\* The body is complete: the file is closed and its length returned.
Return ==
  /\ pc = "body"
  /\ readCount >= needRead
  /\ pc' = "returned"
  /\ open' = FALSE
  /\ ret' = needRead
  /\ UNCHANGED <<serverVars, failed, pos, recvbuf, buffer, needRead, readCount,
                 file, short>>

\* The catch block deletes buffer, and so does the line after it: undefined.
Catch ==
  /\ pc = "catch"
  /\ pc' = "undefined"
  /\ UNCHANGED <<serverVars, failed, pos, recvbuf, buffer, needRead, readCount,
                 file, open, ret, short>>

------------------------------------------------------------------------------
Step == \/ OpenFile \/ Connect \/ RecvHeader \/ ReadLength \/ RecvBody \/ Return
        \/ Catch

Next == Step \/ ConnectionReset

Spec == Init /\ [][Next]_vars

\* The function runs, and the server sends what it sends; then it closes, or is silent.
FairSpec == Spec /\ WF_vars(Step)
------------------------------------------------------------------------------
(* Properties.                                                             *)

\* Whatever the sizes of the reads, no byte of the body that recv has handed out is
\* left out of the file or written out of order, unless a short read has spoilt the
\* header's blank line or put another before it: then another one is found, and what
\* comes before that is lost.
BodyIsKept ==
  pc \in {"body", "returned"} /\ buffer # <<>>
    => \/ LET at == {k \in DOMAIN file : file[k] > hdr}
          IN /\ {file[k] : k \in at} = hdr + 1 .. pos
             /\ \A j, k \in at : j < k => file[j] < file[k]
       \/ short /\ ~HeaderFound

\* A download that reports its length has written the body it was sent, be it the
\* document or an error's page, and nothing else, if the reads of the header were full.
SuccessIsWhole ==
  (pc = "returned" /\ ret > 0 /\ ~short) => file = [i \in 1 .. body |-> hdr + i]

\* The function stays within its buffer, and out of the catch block, as long as
\* the header has a length and fits the buffer, its reads are full and the
\* connection is not reset.
StaysDefined ==
  (pc = "undefined" /\ hasLength /\ ~failed)
    => short \/ hdr > Buffer

\* A response that is sent whole ends the download, if the reads of its header are
\* full and the connection is not reset.
WholeResponseEnds ==
  (pc = "header" /\ sent = hdr + body)
    ~> (pc \in {"returned", "undefined"} \/ short \/ failed)
==============================================================================
