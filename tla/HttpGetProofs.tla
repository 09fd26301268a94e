---------------------------- MODULE HttpGetProofs ----------------------------
(***************************************************************************)
(* What holds of httpGetFile for a buffer, chunks, headers and bodies of   *)
(* any length, wherever the response is cut.                               *)
(*                                                                         *)
(* The argument: what recv has left in recvbuf, and what was copied to the *)
(* buffer, are bytes that have been received, or what was there before     *)
(* (BytesInv).  A header whose last byte has come and has not been found   *)
(* is never found (MissedInv): a NUL lies before it, or recvbuf was copied *)
(* between the two halves of its blank line.  So if the blank line that is *)
(* found is the header's, it is found in the recv that ends the header,    *)
(* and what follows it in the buffer begins with the body's first bytes    *)
(* (KeptInv).  As long as the reads are full the buffer is the response so *)
(* far, whose first blank line is the header's (FullInv): another one is   *)
(* found after a short read only.  To the caller the file is open while it *)
(* must be and begins with the body if it holds anything (TransferInv), so *)
(* each step is one of DocDownload.                                        *)
(***************************************************************************)
EXTENDS HttpTransfer, SequenceTheorems, WellFoundedInduction, TLAPS

Before == {"start", "connect", "header"}

\* Where the bytes are.
BytesInv ==
  /\ pc \in {"start", "connect"} => pos = 0 /\ buffer = <<>>
  /\ pos = 0 \/ Len(buffer) > 0
  /\ pc \in {"length", "body"} => Len(buffer) > 0
  /\ Len(buffer) > 0 => buffer[Len(buffer)] = recvbuf[Chunk]
  /\ \A i \in 1 .. Chunk : recvbuf[i] <= pos
  /\ pc \in Before => BlankLines(buffer) = {} /\ file = <<>>

\* A header that has been missed stays missed.
MissedInv ==
  pc = "header" /\ pos >= hdr =>
    \/ \E j \in DOMAIN buffer : buffer[j] = Nul
    \/ /\ \A i \in 1 .. Chunk : recvbuf[i] = hdr => i = 1
       /\ recvbuf[Chunk] # hdr - 1

\* The cells of s that are bytes of the body are its bytes up to pos, in order.
Keeps(s) ==
  /\ \A k \in DOMAIN s : s[k] > hdr => s[k] <= pos
  /\ \A c \in hdr + 1 .. pos : \E k \in DOMAIN s : s[k] = c
  /\ \A j, k \in DOMAIN s : s[j] > hdr /\ s[k] > hdr /\ j < k => s[j] < s[k]

\* The cells of s are the n bytes after byte b.
Counts(s, b, n) == Len(s) = n /\ \A i \in 1 .. n : s[i] = b + i

\* If the blank line is the header's, the body's bytes follow.
KeptInv ==
  /\ pc = "length" => Rest \in Seq(Cells)
  /\ pc \in {"length", "body"} /\ HeaderFound => pos >= hdr
  /\ pc = "length" /\ HeaderFound => Keeps(Rest)
  /\ pc \in {"body", "returned"} /\ buffer # <<>> /\ HeaderFound => Keeps(file)

\* Full reads.
FullInv ==
  ~short =>
    /\ pc \in Before \cup {"length"} => Counts(buffer, 0, pos)
    /\ pc \in Before => pos < hdr
    /\ pc \in {"length", "body", "returned"} /\ buffer # <<>> => HeaderFound
    /\ pc = "length" => Counts(Rest, hdr, pos - hdr)
    /\ pc = "body" => /\ needRead = body /\ readCount = pos - hdr
                      /\ Counts(file, hdr, pos - hdr)
    /\ pc = "returned" /\ ret > 0 => Counts(file, hdr, body)
    /\ pc = "catch" => ~hasLength
    /\ pc = "undefined" /\ hasLength /\ ~failed => hdr > Buffer

\* The buffer is filled a chunk at a time.
ChunksInv == \E n \in Nat : Len(buffer) = Chunk * n

\* The function returns a length only when it has read the body.
RetInv == pc # "returned" => ret = 0

IInv == TypeOK /\ BytesInv /\ MissedInv /\ KeptInv /\ FullInv /\ ChunksInv /\ RetInv

------------------------------------------------------------------------------
(* Arithmetic.                                                             *)

LEMMA CellsAreInts == Cells \subseteq Int /\ {Nul, Text, Eol} \subseteq Cells
BY SizesAssumption DEF Cells, Nul, Text, Eol

LEMMA CellOf == ASSUME NEW s \in Seq(Cells), NEW k \in DOMAIN s PROVE s[k] \in Int
<1>1. s[k] \in Cells
  OBVIOUS
<1> QED BY <1>1, CellsAreInts

LEMMA MinOfTwo ==
  ASSUME NEW a \in Int, NEW b \in Int
  PROVE  Min({a, b}) \in {a, b} /\ Min({a, b}) <= a /\ Min({a, b}) <= b
<1>1. \E x \in {a, b} : \A y \in {a, b} : x =< y
  <2>1. CASE a <= b
    BY <2>1
  <2>2. CASE b <= a
    BY <2>2
  <2> QED BY <2>1, <2>2
<1>2. Min({a, b}) \in {a, b} /\ \A y \in {a, b} : Min({a, b}) =< y
  BY <1>1 DEF Min
<1> QED BY <1>2

LEMMA Least ==
  ASSUME NEW T \in SUBSET Nat, T # {}
  PROVE  Min(T) \in T /\ \A y \in T : Min(T) <= y
<1> DEFINE R == {pair \in Nat \X Nat : pair[1] < pair[2]}
<1>1. IsWellFoundedOn(R, Nat)
  BY NatLessThanWellFounded, Zenon DEF OpToRel
<1>2. PICK x \in T : \A y \in T : ~(<<y, x>> \in R)
  <2> HIDE DEF R
  <2> QED BY <1>1, WFMin
<1>3. ASSUME NEW y \in T PROVE x =< y
  <2>1. <<y, x>> \in Nat \X Nat /\ <<y, x>>[1] = y /\ <<y, x>>[2] = x
    OBVIOUS
  <2>2. ~(y < x)
    BY <1>2, <2>1
  <2>3. x \in Nat /\ y \in Nat
    OBVIOUS
  <2> QED BY <2>2, <2>3
<1> QED BY <1>3 DEF Min

\* What a recv that is asked for n bytes may return.
LEMMA RecvGives ==
  ASSUME TypeOK, NEW n \in Nat \ {0}, NEW r \in Recv(n)
  PROVE  /\ r \in Int /\ r >= -1 /\ r <= n
         /\ r = -1 => failed
         /\ r > 0 => pos + r <= sent
<1>1. pos \in Nat /\ sent \in Nat /\ pos <= sent
  BY SizesAssumption DEF TypeOK
<1>2. Min({n, sent - pos}) <= n /\ Min({n, sent - pos}) <= sent - pos /\ Min({n, sent - pos}) \in Int
  BY <1>1, MinOfTwo
<1> QED BY <1>1, <1>2 DEF Recv

\* A buffer of whole chunks that has no room for one more is full.
LEMMA FullBuffer ==
  ASSUME NEW n \in Nat, Chunk * n + Chunk > Buffer
  PROVE  Chunk * n >= Buffer
<1>1. Chunk \in Nat \ {0} /\ BufChunks \in Nat
  BY SizesAssumption
<1>2. CASE n >= BufChunks
  BY <1>1, <1>2 DEF Buffer
<1>3. CASE n + 1 <= BufChunks
  <2>1. Chunk * (n + 1) <= Chunk * BufChunks
    BY <1>1, <1>3
  <2>2. Chunk * (n + 1) = Chunk * n + Chunk
    BY <1>1
  <2> QED BY <1>1, <2>1, <2>2 DEF Buffer
<1> QED BY <1>1, <1>2, <1>3

------------------------------------------------------------------------------
(* Blank lines.                                                            *)

\* The header's line ends are there, and are its first two in a row.
LEMMA EndsAre ==
  ASSUME TypeOK
  PROVE  /\ hdr - 1 \in ends /\ hdr \in ends /\ ends \subseteq Nat
         /\ \A k \in ends : k + 1 \in ends => k + 1 >= hdr
<1>1. 3 .. hdr + body \subseteq Nat
  BY SizesAssumption DEF TypeOK
<1> QED BY <1>1 DEF TypeOK, Responses

\* The first blank line of a buffer that has one is among its cells.
LEMMA FirstIs ==
  ASSUME NEW b \in Seq(Cells), BlankLines(b) # {}
  PROVE  /\ Min(BlankLines(b)) \in BlankLines(b)
         /\ Min(BlankLines(b)) \in 1 .. Len(b) - 1
         /\ \A k \in BlankLines(b) : Min(BlankLines(b)) <= k
<1>1. BlankLines(b) \subseteq 1 .. Len(b) - 1 /\ BlankLines(b) \in SUBSET Nat
  BY DEF BlankLines
<1> HIDE DEF BlankLines
<1> QED BY <1>1, Least

\* What is found in a buffer that stays as it is.
LEMMA SameBuffer ==
  ASSUME UNCHANGED <<buffer, ends, hdr>>
  PROVE  /\ BlankLines(buffer)' = BlankLines(buffer) /\ Rest' = Rest
         /\ HeaderFound' <=> HeaderFound
<1>1. BlankLines(buffer)' = BlankLines(buffer)
  BY DEF BlankLines, IsEnd
<1>2. Found' = Found
  BY <1>1 DEF Found
<1> QED BY <1>1, <1>2 DEF Rest, HeaderFound

------------------------------------------------------------------------------
(* The header's loop.                                                      *)

\* What a turn of the loop that has room in the buffer does.
Turn(r) ==
  /\ pos' = IF r > 0 THEN pos + r ELSE pos
  /\ recvbuf' = [i \in 1 .. Chunk |-> IF i <= r THEN pos + i ELSE recvbuf[i]]
  /\ buffer' = buffer \o recvbuf'
  /\ short' = (short \/ r < Chunk)
  /\ pc' = IF BlankLines(buffer') = {} THEN "header" ELSE "length"
  /\ UNCHANGED <<hdr, body, ends, hasLength, page, sent, silent, failed, needRead, readCount, file, open, ret>>

\* What it leaves in recvbuf and in the buffer.
TurnFacts(r) ==
  /\ pos \in Nat /\ hdr \in Nat /\ hdr >= 4 /\ r \in Int /\ -1 <= r /\ r <= Chunk
  /\ r = -1 => failed
  /\ pos' \in pos .. sent /\ (r > 0 => pos' = pos + r) /\ (r <= 0 => pos' = pos)
  /\ recvbuf' \in [1 .. Chunk -> Cells]
  /\ \A i \in 1 .. Chunk : recvbuf'[i] = IF i <= r THEN pos + i ELSE recvbuf[i]
  /\ buffer' \in Seq(Cells) /\ Len(buffer) \in Nat /\ Len(buffer') = Len(buffer) + Chunk
  /\ \A k \in 1 .. Len(buffer) : buffer'[k] = buffer[k]
  /\ \A k \in Len(buffer) + 1 .. Len(buffer) + Chunk : buffer'[k] = recvbuf'[k - Len(buffer)]

LEMMA TurnCells ==
  ASSUME IInv, NEW r \in Recv(Chunk), Turn(r)
  PROVE  TurnFacts(r)
<1>1. /\ Chunk \in Nat \ {0} /\ pos \in Nat /\ hdr \in Nat /\ hdr >= 4 /\ sent \in Nat /\ pos <= sent
      /\ sent <= MaxHeader + MaxBody
  BY SizesAssumption DEF IInv, TypeOK
<1>2. r \in Int /\ -1 <= r /\ r <= Chunk /\ (r = -1 => failed) /\ (r > 0 => pos + r <= sent)
  BY <1>1, RecvGives DEF IInv
<1>3. pos' \in pos .. sent /\ (r > 0 => pos' = pos + r) /\ (r <= 0 => pos' = pos)
  BY <1>1, <1>2 DEF Turn
<1>4. \A i \in 1 .. Chunk : recvbuf'[i] = IF i <= r THEN pos + i ELSE recvbuf[i]
  BY DEF Turn
<1>5. recvbuf' \in [1 .. Chunk -> Cells]
  <2>1. ASSUME NEW i \in 1 .. Chunk PROVE (IF i <= r THEN pos + i ELSE recvbuf[i]) \in Cells
    <3>1. CASE i <= r
      <4>1. pos + i \in 1 .. MaxHeader + MaxBody
        BY <1>1, <1>2, <3>1, SizesAssumption
      <4> QED BY <3>1, <4>1 DEF Cells
    <3>2. CASE ~(i <= r)
      BY <3>2 DEF IInv, TypeOK
    <3> QED BY <3>1, <3>2
  <2> QED BY <2>1 DEF Turn
<1>6. recvbuf' \in Seq(Cells) /\ Len(recvbuf') = Chunk
  BY <1>1, <1>5
<1>7. buffer \in Seq(Cells) /\ Len(buffer) \in Nat
  BY LenProperties DEF IInv, TypeOK
<1>8. /\ buffer' \in Seq(Cells) /\ Len(buffer') = Len(buffer) + Chunk
      /\ \A k \in 1 .. Len(buffer) + Chunk :
           buffer'[k] = IF k <= Len(buffer) THEN buffer[k] ELSE recvbuf'[k - Len(buffer)]
  <2>1. buffer' = buffer \o recvbuf'
    BY DEF Turn
  <2> QED BY <1>6, <1>7, <2>1, ConcatProperties
<1> QED BY <1>1, <1>2, <1>3, <1>4, <1>5, <1>7, <1>8 DEF TurnFacts

\* The header's blank line, if it is found, ends with a byte this recv has brought.
LEMMA FoundNow ==
  ASSUME IInv, pc = "header", NEW r \in Recv(Chunk), Turn(r),
         NEW k \in BlankLines(buffer'), buffer'[k] = hdr - 1, buffer'[k + 1] = hdr
  PROVE  pos < hdr /\ hdr <= pos + r /\ k = Len(buffer) + hdr - pos - 1
<1>1. TurnFacts(r) /\ Chunk \in Nat \ {0}
  BY TurnCells, SizesAssumption
<1> USE <1>1 DEF TurnFacts
<1>2. pos < hdr /\ hdr <= pos + r /\ k = Len(buffer) + hdr - pos - 1
  <2>1. /\ k \in Nat /\ 1 <= k /\ k <= Len(buffer) + Chunk - 1
        /\ buffer'[k] = hdr - 1 /\ buffer'[k + 1] = hdr
        /\ IsEnd(buffer'[k]) /\ IsEnd(buffer'[k + 1])
        /\ \A j \in 1 .. k : buffer'[j] # Nul
    BY DEF BlankLines
  <2>2. k >= Len(buffer)
    <3>1. SUFFICES ASSUME k + 1 <= Len(buffer) PROVE k \in BlankLines(buffer)
      BY <2>1 DEF IInv, BytesInv, Before
    <3>2. buffer[k] = buffer'[k] /\ buffer[k + 1] = buffer'[k + 1]
      BY <2>1, <3>1
    <3>3. ASSUME NEW j \in 1 .. k PROVE buffer[j] # Nul
      <4>1. buffer'[j] # Nul
        BY <2>1
      <4>2. buffer'[j] = buffer[j]
        BY <2>1, <3>1
      <4> QED BY <4>1, <4>2
    <3>4. k \in 1 .. Len(buffer) - 1
      BY <2>1, <3>1
    <3> QED BY <2>1, <3>2, <3>3, <3>4 DEF BlankLines
  <2> DEFINE i == k + 1 - Len(buffer)
  <2>3. i \in 1 .. Chunk /\ recvbuf'[i] = hdr
    <3>1. /\ k \in Nat /\ k <= Len(buffer) + Chunk - 1 /\ k >= Len(buffer)
          /\ Len(buffer) \in Nat /\ Chunk \in Nat
      BY <2>1, <2>2 DEF IInv, TypeOK
    <3>2. i \in 1 .. Chunk /\ k + 1 \in 1 .. Len(buffer) + Chunk /\ ~(k + 1 <= Len(buffer))
      BY ONLY <3>1
    <3>3. \A n \in 1 .. Len(buffer) + Chunk :
            n > Len(buffer) => buffer'[n] = recvbuf'[n - Len(buffer)]
      OBVIOUS
    <3>4. buffer'[k + 1] = recvbuf'[i]
      BY ONLY <3>1, <3>2, <3>3
    <3> QED BY <2>1, <3>2, <3>4
  <2> HIDE DEF i
  <2>4. CASE i <= r
    <3>1. hdr = pos + i
      BY <2>3, <2>4
    <3>2. i \in Nat /\ 1 <= i /\ i <= r /\ k = Len(buffer) + i - 1
      BY <2>1, <2>3, <2>4 DEF i
    <3> QED BY <3>1, <3>2
  <2>5. CASE i > r
    <3>1. recvbuf[i] = hdr
      BY <2>3, <2>5
    <3>2. pos >= hdr
      BY <2>3, <3>1 DEF IInv, BytesInv
    <3>3. ASSUME NEW j \in DOMAIN buffer PROVE buffer[j] # Nul
      <4>1. j \in 1 .. Len(buffer) /\ j \in 1 .. k
        <5>1. Len(buffer) \in Nat /\ DOMAIN buffer = 1 .. Len(buffer)
          BY DEF IInv, TypeOK
        <5>2. k \in Nat /\ k >= Len(buffer)
          BY <2>1, <2>2
        <5> QED BY ONLY <5>1, <5>2, j \in DOMAIN buffer
      <4>2. buffer'[j] # Nul
        BY <2>1, <4>1
      <4>3. buffer'[j] = buffer[j]
        BY <4>1
      <4> QED BY <4>2, <4>3
    <3>4. i = 1 /\ recvbuf[Chunk] # hdr - 1
      BY <2>3, <3>1, <3>2, <3>3 DEF IInv, MissedInv
    <3>5. k = Len(buffer) /\ k > 0
      BY <2>1, <3>4 DEF i
    <3>6. buffer[k] = recvbuf[Chunk]
      BY <3>5 DEF IInv, BytesInv
    <3> QED BY <2>1, <3>4, <3>5, <3>6
  <2> QED BY <2>1, <2>3, <2>4, <2>5
<1> QED BY <1>2

\* The first blank line of the buffer after the turn, and what follows it.
LEMMA FirstNow ==
  ASSUME IInv, NEW r \in Recv(Chunk), Turn(r), BlankLines(buffer') # {}
  PROVE  /\ Found' \in BlankLines(buffer') /\ Found' \in 1 .. Len(buffer') - 1
         /\ \A k \in BlankLines(buffer') : Found' <= k
         /\ Rest' = SubSeq(buffer', Found' + 2, Len(buffer')) /\ Rest' \in Seq(Cells)
         /\ HeaderFound' <=> buffer'[Found'] = hdr - 1 /\ buffer'[Found' + 1] = hdr
<1>1. buffer' \in Seq(Cells) /\ Len(buffer') \in Nat /\ hdr' = hdr /\ ends' = ends
  BY TurnCells, LenProperties DEF TurnFacts, Turn
<1>2. BlankLines(buffer)' = BlankLines(buffer')
  BY <1>1 DEF BlankLines, IsEnd
<1>3. Found' = Min(BlankLines(buffer'))
  BY <1>2 DEF Found
<1>4. /\ Found' \in BlankLines(buffer') /\ Found' \in 1 .. Len(buffer') - 1
      /\ \A k \in BlankLines(buffer') : Found' <= k
  BY <1>1, <1>3, FirstIs
<1>5. Rest' = SubSeq(buffer', Found' + 2, Len(buffer'))
  BY DEF Rest
<1>6. Rest' \in Seq(Cells)
  <2> DEFINE f == Found'
  <2>4. f \in 1 .. Len(buffer') - 1
    BY <1>4
  <2> HIDE DEF f
  <2>1. f + 2 >= 1 /\ f + 2 \in Int /\ f + 2 <= Len(buffer') + 1
    BY <1>1, <2>4
  <2>2. \A i \in f + 2 .. Len(buffer') : buffer'[i] \in Cells
    BY <1>1, <2>4
  <2>3. SubSeq(buffer', f + 2, Len(buffer')) \in Seq(Cells)
    BY <1>1, <2>1, <2>2, SubSeqProperties
  <2> QED BY <1>5, <2>3 DEF f
<1>7. HeaderFound' <=> buffer'[Found'] = hdr - 1 /\ buffer'[Found' + 1] = hdr
  BY <1>1 DEF HeaderFound
<1> QED BY <1>4, <1>5, <1>6, <1>7

\* What follows the header in the buffer: what is left of this recv's bytes, then what
\* an earlier one has left in recvbuf.
LEMMA RestIs ==
  ASSUME IInv, pc = "header", NEW r \in Recv(Chunk), Turn(r), BlankLines(buffer') # {},
         HeaderFound'
  PROVE  /\ pos < hdr /\ hdr <= pos + r
         /\ Rest' \in Seq(Cells) /\ Len(Rest') = Chunk - (hdr - pos)
         /\ \A j \in 1 .. Chunk - (hdr - pos) :
              Rest'[j] = IF hdr - pos + j <= r THEN hdr + j ELSE recvbuf[hdr - pos + j]
<1>1. TurnFacts(r) /\ Chunk \in Nat \ {0}
  BY TurnCells, SizesAssumption
<1>2. pos < hdr /\ hdr <= pos + r /\ Found' = Len(buffer) + hdr - pos - 1
  <2> DEFINE k == Found'
  <2>1. k \in BlankLines(buffer') /\ buffer'[k] = hdr - 1 /\ buffer'[k + 1] = hdr
    BY FirstNow
  <2> HIDE DEF k
  <2>2. pos < hdr /\ hdr <= pos + r /\ k = Len(buffer) + hdr - pos - 1
    BY <2>1, FoundNow
  <2> QED BY <2>2 DEF k
<1>3. hdr' = hdr
  BY DEF Turn
<1> DEFINE m == Len(buffer) + hdr - pos + 1
<1>4. Rest' = SubSeq(buffer', m, Len(buffer'))
  <2>1. Len(buffer) + hdr - pos - 1 + 2 = m
    BY <1>1 DEF TurnFacts
  <2> QED BY <1>2, <2>1, FirstNow
<1>5. /\ m \in Int /\ m >= 1 /\ m <= Len(buffer') + 1
      /\ Len(buffer') \in Nat /\ Len(buffer') = Len(buffer) + Chunk
      /\ Len(buffer') - m + 1 = Chunk - (hdr - pos)
  BY <1>1, <1>2 DEF TurnFacts
<1>6. \A i \in m .. Len(buffer') : buffer'[i] \in Cells
  BY <1>1, <1>5 DEF TurnFacts
<1>7. /\ Rest' \in Seq(Cells)
      /\ Len(Rest') = IF m <= Len(buffer') THEN Len(buffer') - m + 1 ELSE 0
      /\ \A j \in 1 .. Len(buffer') - m + 1 : Rest'[j] = buffer'[m + j - 1]
  BY <1>4, <1>5, <1>6, SubSeqProperties
<1>8. Len(Rest') = Chunk - (hdr - pos)
  <2>1. Len(Rest') = Len(buffer') - m + 1
    <3>1. Len(Rest') = IF m <= Len(buffer') THEN Len(buffer') - m + 1 ELSE 0
      BY <1>7
    <3>2. m \in Int /\ m <= Len(buffer') + 1 /\ Len(buffer') \in Nat
      BY <1>5
    <3> HIDE DEF m
    <3> QED BY ONLY <3>1, <3>2
  <2>2. Len(buffer') - m + 1 = Chunk - (hdr - pos)
    BY <1>5
  <2> QED BY ONLY <2>1, <2>2
<1>9. ASSUME NEW j \in 1 .. Chunk - (hdr - pos)
      PROVE  Rest'[j] = IF hdr - pos + j <= r THEN hdr + j ELSE recvbuf[hdr - pos + j]
  <2>1. Rest'[j] = buffer'[m + j - 1]
    BY <1>5, <1>7
  <2> DEFINE k == m + j - 1
  <2>2. k \in Len(buffer) + 1 .. Len(buffer) + Chunk /\ k - Len(buffer) = hdr - pos + j
    BY <1>1, <1>2 DEF TurnFacts
  <2> HIDE DEF k
  <2>3. Rest'[j] = recvbuf'[hdr - pos + j]
    <3>1. buffer'[k] = recvbuf'[k - Len(buffer)]
      BY <1>1, <2>2 DEF TurnFacts
    <3> QED BY <2>1, <2>2, <3>1 DEF k
  <2>4. hdr - pos + j \in 1 .. Chunk /\ pos + (hdr - pos + j) = hdr + j
    BY <1>1, <1>2 DEF TurnFacts
  <2> QED BY <1>1, <2>3, <2>4 DEF TurnFacts
<1> QED BY <1>2, <1>7, <1>8, <1>9

\* Two cells that hold the blank line, with no NUL in the buffer, are found.
LEMMA Finds ==
  ASSUME TypeOK, NEW b \in Seq(Cells), NEW k \in 1 .. Len(b) - 1,
         b[k] = hdr - 1, b[k + 1] = hdr, \A j \in DOMAIN b : b[j] # Nul
  PROVE  BlankLines(b) # {}
<1>1. \A j \in 1 .. k : j \in DOMAIN b
  OBVIOUS
<1>2. k \in BlankLines(b)
  BY <1>1, EndsAre DEF BlankLines, IsEnd
<1> QED BY <1>2

LEMMA TurnMissed ==
  ASSUME IInv, pc = "header", NEW r \in Recv(Chunk), Turn(r)
  PROVE  MissedInv'
<1>1. TurnFacts(r) /\ Chunk \in Nat \ {0}
  BY TurnCells, SizesAssumption
<1>2. hdr' = hdr
  BY DEF Turn
<1>3. SUFFICES ASSUME BlankLines(buffer') = {}, pos' >= hdr, \A j \in DOMAIN buffer' : buffer'[j] # Nul
               PROVE  /\ \A i \in 1 .. Chunk : recvbuf'[i] = hdr => i = 1
                      /\ recvbuf'[Chunk] # hdr - 1
  BY <1>2 DEF MissedInv, Turn
<1>4. ASSUME NEW k \in 1 .. Len(buffer') - 1, buffer'[k] = hdr - 1
      PROVE  buffer'[k + 1] # hdr
  <2>1. buffer' \in Seq(Cells)
    BY <1>1 DEF TurnFacts
  <2> QED BY <1>3, <1>4, <2>1, Finds DEF IInv
<1>5. CASE pos >= hdr
  <2>1. ASSUME NEW j \in DOMAIN buffer PROVE buffer[j] # Nul
    <3>1. j \in 1 .. Len(buffer) /\ j \in DOMAIN buffer'
      BY <1>1 DEF IInv, TypeOK, TurnFacts
    <3>2. buffer'[j] = buffer[j]
      BY <1>1, <3>1 DEF TurnFacts
    <3> QED BY <1>3, <3>1, <3>2
  <2>2. (\A i \in 1 .. Chunk : recvbuf[i] = hdr => i = 1) /\ recvbuf[Chunk] # hdr - 1
    BY <1>5, <2>1 DEF IInv, MissedInv
  <2>3. ASSUME NEW i \in 1 .. Chunk
        PROVE  recvbuf'[i] = recvbuf[i] \/ (recvbuf'[i] = pos + i /\ pos + i > hdr)
    BY <1>1, <1>5 DEF TurnFacts
  <2>4. \A n \in Nat : n > hdr => n # hdr /\ n # hdr - 1
    BY <1>1 DEF TurnFacts
  <2>5. Chunk \in 1 .. Chunk /\ \A i \in 1 .. Chunk : pos + i \in Nat
    BY <1>1 DEF TurnFacts
  <2> QED BY <2>2, <2>3, <2>4, <2>5
<1>6. CASE pos < hdr
  <2>1. r > 0 /\ hdr <= pos + r /\ pos' = pos + r
    BY <1>1, <1>3, <1>6 DEF TurnFacts
  <2>2. pos = hdr - 1
    <3>1. SUFFICES ASSUME pos < hdr - 1 PROVE FALSE
      BY <1>1, <1>6 DEF TurnFacts
    <3> DEFINE i == hdr - pos
    <3>2. i \in 2 .. r /\ i \in 2 .. Chunk /\ i - 1 \in 1 .. Chunk /\ i - 1 <= r
      BY <1>1, <2>1, <3>1 DEF TurnFacts
    <3>3. recvbuf'[i] = hdr /\ recvbuf'[i - 1] = hdr - 1
      <4>1. pos + i = hdr /\ pos + (i - 1) = hdr - 1 /\ i \in 1 .. Chunk /\ i <= r
        BY <1>1, <3>2 DEF TurnFacts
      <4> HIDE DEF i
      <4> QED BY <1>1, <3>2, <4>1 DEF TurnFacts
    <3> DEFINE k == Len(buffer) + i - 1
    <3>4. /\ k \in 1 .. Len(buffer') - 1
          /\ k \in Len(buffer) + 1 .. Len(buffer) + Chunk /\ k + 1 \in Len(buffer) + 1 .. Len(buffer) + Chunk
          /\ k - Len(buffer) = i - 1 /\ k + 1 - Len(buffer) = i
      BY <1>1, <3>2 DEF TurnFacts
    <3> HIDE DEF i, k
    <3>5. /\ buffer'[k] = recvbuf'[k - Len(buffer)]
          /\ buffer'[k + 1] = recvbuf'[k + 1 - Len(buffer)]
      <4>1. \A n \in Len(buffer) + 1 .. Len(buffer) + Chunk : buffer'[n] = recvbuf'[n - Len(buffer)]
        BY <1>1 DEF TurnFacts
      <4>2. buffer'[k] = recvbuf'[k - Len(buffer)]
        BY <3>4, <4>1
      <4>3. buffer'[k + 1] = recvbuf'[k + 1 - Len(buffer)]
        BY <3>4, <4>1
      <4> QED BY <4>2, <4>3
    <3>6. buffer'[k] = hdr - 1 /\ buffer'[k + 1] = hdr
      BY <3>3, <3>4, <3>5
    <3> QED BY <1>4, <3>4, <3>6
  <2>3. ASSUME NEW i \in 1 .. Chunk, recvbuf'[i] = hdr PROVE i = 1
    <3>1. CASE i <= r
      BY <1>1, <2>2, <2>3, <3>1 DEF TurnFacts
    <3>2. CASE ~(i <= r)
      <4>1. recvbuf[i] = hdr /\ recvbuf[i] <= pos
        BY <1>1, <2>3, <3>2 DEF TurnFacts, IInv, BytesInv
      <4> QED BY <1>1, <1>6, <4>1 DEF TurnFacts
    <3> QED BY <3>1, <3>2
  <2>4. ASSUME recvbuf'[Chunk] = hdr - 1 PROVE FALSE
    <3>1. CASE Chunk <= r
      <4>1. recvbuf'[Chunk] = pos + Chunk
        BY <1>1, <3>1 DEF TurnFacts
      <4> QED BY <1>1, <2>2, <2>4, <4>1 DEF TurnFacts
    <3>2. CASE ~(Chunk <= r)
      <4>1. recvbuf[Chunk] = hdr - 1
        BY <1>1, <2>4, <3>2 DEF TurnFacts
      <4>2. Len(buffer) > 0 /\ buffer[Len(buffer)] = hdr - 1
        BY <1>1, <2>2, <4>1 DEF TurnFacts, IInv, BytesInv
      <4>3. recvbuf'[1] = hdr
        BY <1>1, <2>1, <2>2 DEF TurnFacts
      <4>4. /\ Len(buffer) \in 1 .. Len(buffer') - 1 /\ Len(buffer) \in 1 .. Len(buffer)
            /\ Len(buffer) + 1 \in Len(buffer) + 1 .. Len(buffer) + Chunk
            /\ Len(buffer) + 1 - Len(buffer) = 1
        BY <1>1, <4>2 DEF TurnFacts
      <4>5. buffer'[Len(buffer)] = hdr - 1 /\ buffer'[Len(buffer) + 1] = hdr
        <5>1. buffer'[Len(buffer)] = buffer[Len(buffer)]
          BY <1>1, <4>4 DEF TurnFacts
        <5>2. buffer'[Len(buffer) + 1] = recvbuf'[Len(buffer) + 1 - Len(buffer)]
          <6> DEFINE k == Len(buffer) + 1
          <6>1. k \in Len(buffer) + 1 .. Len(buffer) + Chunk
            BY <4>4
          <6> HIDE DEF k
          <6>2. buffer'[k] = recvbuf'[k - Len(buffer)]
            BY <1>1, <6>1 DEF TurnFacts
          <6> QED BY <6>2 DEF k
        <5> QED BY <4>2, <4>3, <4>4, <5>1, <5>2
      <4> QED BY <1>4, <4>4, <4>5
    <3> QED BY <3>1, <3>2
  <2> QED BY <2>3, <2>4
<1> QED BY <1>1, <1>5, <1>6 DEF TurnFacts

LEMMA TurnInv ==
  ASSUME IInv, pc = "header", NEW r \in Recv(Chunk), Turn(r), Len(buffer) + Chunk <= Buffer
  PROVE  IInv'
<1>1. TurnFacts(r) /\ Chunk \in Nat \ {0}
  BY TurnCells, SizesAssumption
<1>2. /\ UNCHANGED <<hdr, body, ends, hasLength, page, sent, silent, failed, needRead, readCount, file, open, ret>>
      /\ short' = (short \/ r < Chunk)
      /\ pc' = IF BlankLines(buffer') = {} THEN "header" ELSE "length"
  BY DEF Turn
<1>3. BlankLines(buffer)' = BlankLines(buffer')
  BY <1>2 DEF BlankLines, IsEnd
<1>4. TypeOK'
  <2>1. hdr' \in 4 .. MaxHeader /\ body' \in 0 .. MaxBody /\ sent' \in 0 .. hdr' + body' /\ pos' \in 0 .. sent'
    BY <1>1, <1>2 DEF TurnFacts, IInv, TypeOK
  <2>2. recvbuf' \in [1 .. Chunk -> Cells] /\ buffer' \in Seq(Cells) /\ Len(buffer') <= Buffer
    BY <1>1 DEF TurnFacts
  <2>3. /\ hasLength' \in BOOLEAN /\ page' \in BOOLEAN /\ silent' \in BOOLEAN
        /\ failed' \in BOOLEAN /\ open' \in BOOLEAN /\ short' \in BOOLEAN
        /\ ends' \in Responses(hdr', body')
    BY <1>2, Zenon DEF IInv, TypeOK
  <2>4. /\ pc' \in {"start", "connect", "header", "length", "body", "catch", "returned", "undefined"}
        /\ needRead' \in Nat /\ readCount' \in Nat /\ file' \in Seq(Cells) /\ ret' \in Nat
    BY <1>2 DEF IInv, TypeOK
  <2> QED BY <2>1, <2>2, <2>3, <2>4, Zenon DEF TypeOK
<1>5. BytesInv'
  <2>1. Len(buffer') > 0 /\ buffer'[Len(buffer')] = recvbuf'[Chunk]
    BY <1>1 DEF TurnFacts
  <2>2. \A i \in 1 .. Chunk : recvbuf'[i] <= pos'
    <3>1. ASSUME NEW i \in 1 .. Chunk PROVE recvbuf'[i] <= pos'
      <4>1. CASE i <= r
        <5>1. recvbuf'[i] = pos + i /\ pos' = pos + r
          BY <1>1, <4>1 DEF TurnFacts
        <5> QED BY <1>1, <4>1, <5>1 DEF TurnFacts
      <4>2. CASE ~(i <= r)
        <5>1. recvbuf'[i] = recvbuf[i] /\ recvbuf[i] <= pos /\ recvbuf[i] \in Int
          BY <1>1, <4>2, CellsAreInts DEF TurnFacts, IInv, BytesInv, TypeOK
        <5>2. pos' \in Nat /\ pos \in Nat /\ pos <= pos'
          BY <1>1 DEF TurnFacts
        <5> QED BY <5>1, <5>2
      <4> QED BY <4>1, <4>2
    <3> QED BY <3>1
  <2>3. file' = <<>>
    BY <1>2 DEF IInv, BytesInv, Before
  <2> QED BY <1>2, <1>3, <2>1, <2>2, <2>3 DEF BytesInv, Before
<1>6. MissedInv'
  BY TurnMissed
<1>7. KeptInv'
  <2>1. CASE BlankLines(buffer') = {}
    BY <1>2, <2>1 DEF KeptInv
  <2>2. CASE BlankLines(buffer') # {} /\ ~HeaderFound'
    BY <1>2, <2>2, FirstNow DEF KeptInv
  <2>3. CASE BlankLines(buffer') # {} /\ HeaderFound'
    <3> DEFINE d == hdr - pos
    <3>1. pos < hdr /\ hdr <= pos + r /\ pos' = pos + r /\ pos \in Nat /\ hdr \in Nat /\ r \in Nat /\ r <= Chunk
      BY <1>1, <2>3, RestIs DEF TurnFacts
    <3>2. /\ Rest' \in Seq(Cells) /\ Len(Rest') = Chunk - d
          /\ \A j \in 1 .. Chunk - d : Rest'[j] = IF d + j <= r THEN hdr + j ELSE recvbuf[d + j]
      BY <2>3, RestIs
    <3>3. d \in Nat /\ 1 <= d /\ d <= r /\ pos' = hdr + (r - d)
      BY <3>1
    <3> HIDE DEF d
    <3>4. DOMAIN Rest' = 1 .. Chunk - d
      BY <3>2, LenProperties
    <3>5. ASSUME NEW j \in 1 .. Chunk - d
          PROVE  d + j \in 1 .. Chunk /\ recvbuf[d + j] < hdr /\ recvbuf[d + j] \in Int
      <4>1. d + j \in 1 .. Chunk
        BY <1>1, <3>3
      <4>2. recvbuf[d + j] <= pos /\ recvbuf[d + j] \in Int
        BY <4>1, CellsAreInts DEF IInv, BytesInv, TypeOK
      <4> QED BY <3>1, <4>1, <4>2
    <3>6. \A j \in 1 .. Chunk - d : Rest'[j] > hdr => d + j <= r /\ Rest'[j] = hdr + j
      BY <3>1, <3>2, <3>5
    <3>7. Keeps(Rest)'
      <4>1. \A k \in DOMAIN Rest' : Rest'[k] > hdr => Rest'[k] <= pos'
        BY <3>1, <3>3, <3>4, <3>6
      <4>2. ASSUME NEW c \in hdr + 1 .. pos' PROVE \E k \in DOMAIN Rest' : Rest'[k] = c
        <5>1. c \in Nat /\ c > hdr /\ c <= hdr + (r - d)
          BY <3>1, <3>3
        <5>2. c - hdr \in 1 .. Chunk - d /\ d + (c - hdr) <= r /\ hdr + (c - hdr) = c
          BY <1>1, <3>1, <3>3, <5>1
        <5> QED BY <3>2, <3>4, <5>2
      <4>3. \A j, k \in DOMAIN Rest' : Rest'[j] > hdr /\ Rest'[k] > hdr /\ j < k => Rest'[j] < Rest'[k]
        BY <3>1, <3>4, <3>6
      <4> QED BY <1>2, <4>1, <4>2, <4>3 DEF Keeps
    <3>8. pos' >= hdr'
      BY <1>2, <3>1, <3>3
    <3> QED BY <1>2, <2>3, <3>2, <3>7, <3>8 DEF KeptInv
  <2> QED BY <2>1, <2>2, <2>3
<1>8. FullInv'
  <2>1. SUFFICES ASSUME ~short, r = Chunk
                 PROVE  /\ Counts(buffer', 0, pos')
                        /\ BlankLines(buffer') = {} => pos' < hdr
                        /\ BlankLines(buffer') # {} => HeaderFound'
                        /\ BlankLines(buffer') # {} => Counts(Rest', hdr, pos' - hdr)
    <3>1. ~short' => ~short /\ r = Chunk
      <4>1. ~short' => ~short /\ ~(r < Chunk)
        BY <1>2, Zenon
      <4>2. ~(r < Chunk) => r = Chunk
        BY <1>1 DEF TurnFacts
      <4> QED BY <4>1, <4>2, Zenon
    <3>2. pc' \in {"header", "length"} /\ hdr' = hdr /\ (pc' = "header" <=> BlankLines(buffer') = {})
      BY <1>2
    <3> QED BY <3>1, <3>2 DEF FullInv, Before, Counts
  <2>2. Len(buffer) = pos /\ \A i \in 1 .. pos : buffer[i] = i
    BY <1>1, <2>1 DEF IInv, FullInv, Before, Counts, TurnFacts
  <2>3. Len(buffer') = pos' /\ pos' = pos + Chunk
    BY <1>1, <2>1, <2>2 DEF TurnFacts
  <2>4. ASSUME NEW k \in 1 .. pos' PROVE buffer'[k] = k
    <3>1. CASE k <= pos
      BY <1>1, <2>2, <3>1 DEF TurnFacts
    <3>2. CASE k > pos
      <4>1. k \in pos + 1 .. pos + Chunk /\ k - pos \in 1 .. Chunk /\ pos + (k - pos) = k
        BY <1>1, <2>3, <3>2 DEF TurnFacts
      <4>2. recvbuf'[k - pos] = k
        BY <1>1, <2>1, <4>1 DEF TurnFacts
      <4> QED BY <1>1, <2>2, <4>1, <4>2 DEF TurnFacts
    <3> QED BY <1>1, <3>1, <3>2 DEF TurnFacts
  <2>5. Counts(buffer', 0, pos')
    BY <1>1, <2>3, <2>4 DEF Counts
  <2>6. ASSUME pos' >= hdr PROVE BlankLines(buffer') # {}
    <3>1. /\ hdr - 1 \in 1 .. Len(buffer') - 1 /\ hdr - 1 \in 1 .. pos' /\ hdr \in 1 .. pos' /\ (hdr - 1) + 1 = hdr
          /\ buffer' \in Seq(Cells) /\ DOMAIN buffer' = 1 .. pos'
      <4>1. pos' \in Nat /\ hdr \in Nat /\ hdr >= 4 /\ Len(buffer') = pos' /\ buffer' \in Seq(Cells)
        BY <1>1, <2>3 DEF TurnFacts
      <4>2. DOMAIN buffer' = 1 .. pos'
        BY <4>1, LenProperties
      <4>3. \A n \in Nat : n >= hdr =>
              hdr - 1 \in 1 .. n - 1 /\ hdr - 1 \in 1 .. n /\ hdr \in 1 .. n /\ (hdr - 1) + 1 = hdr
        BY <4>1
      <4> QED BY <2>6, <4>1, <4>2, <4>3
    <3>2. buffer'[hdr - 1] = hdr - 1 /\ buffer'[(hdr - 1) + 1] = hdr /\ \A j \in DOMAIN buffer' : buffer'[j] # Nul
      BY <1>1, <2>4, <3>1 DEF Nul
    <3> QED BY <3>1, <3>2, Finds DEF IInv
  <2>7. ASSUME BlankLines(buffer') # {} PROVE HeaderFound'
    <3> DEFINE k == Found'
    <3>1. k \in BlankLines(buffer') /\ k \in 1 .. pos' - 1 /\ \A j \in BlankLines(buffer') : k <= j
      BY <2>3, <2>7, FirstNow
    <3>2. pos' \in Nat /\ hdr \in Nat /\ hdr >= 4
      BY <1>1 DEF TurnFacts
    <3> HIDE DEF k
    <3>3. buffer'[k] = k /\ buffer'[k + 1] = k + 1 /\ k \in Nat
      <4>1. k \in 1 .. pos' /\ k + 1 \in 1 .. pos' /\ k \in Nat
        <5>1. \A n \in Nat : \A i \in 1 .. n - 1 : i \in 1 .. n /\ i + 1 \in 1 .. n /\ i \in Nat
          OBVIOUS
        <5> QED BY <3>1, <3>2, <5>1
      <4> QED BY <2>4, <4>1
    <3>4. IsEnd(k) /\ IsEnd(k + 1)
      BY <3>1, <3>3 DEF BlankLines
    <3>5. k \in ends /\ k + 1 \in ends
      BY <3>3, <3>4 DEF IsEnd, Eol
    <3>6. k + 1 >= hdr
      BY <3>5, EndsAre DEF IInv
    <3>7. hdr - 1 \in BlankLines(buffer')
      <4>1. /\ hdr - 1 \in 1 .. Len(buffer') - 1 /\ hdr - 1 \in 1 .. pos' /\ hdr \in 1 .. pos'
            /\ (hdr - 1) + 1 = hdr
        BY <2>3, <3>1, <3>2, <3>3, <3>6
      <4>2. buffer'[hdr - 1] = hdr - 1 /\ buffer'[(hdr - 1) + 1] = hdr
        BY <2>4, <4>1
      <4>3. \A j \in 1 .. hdr - 1 : j \in 1 .. pos' /\ buffer'[j] # Nul
        BY <2>4, <3>2, <4>1 DEF Nul
      <4>4. IsEnd(buffer'[hdr - 1]) /\ IsEnd(buffer'[(hdr - 1) + 1])
        BY <4>2, EndsAre DEF IsEnd, IInv
      <4> QED BY <4>1, <4>3, <4>4 DEF BlankLines
    <3>8. k = hdr - 1
      BY <3>1, <3>2, <3>3, <3>6, <3>7
    <3>9. buffer'[k] = hdr - 1 /\ buffer'[k + 1] = hdr
      BY <3>2, <3>3, <3>8
    <3> QED BY <2>7, <3>9, FirstNow DEF k
  <2>8. ASSUME BlankLines(buffer') # {} PROVE Counts(Rest', hdr, pos' - hdr)
    <3>1. /\ Len(Rest') = Chunk - (hdr - pos)
          /\ \A j \in 1 .. Chunk - (hdr - pos) :
               Rest'[j] = IF hdr - pos + j <= r THEN hdr + j ELSE recvbuf[hdr - pos + j]
      BY <2>7, <2>8, RestIs
    <3>2. Chunk - (hdr - pos) = pos' - hdr /\ \A j \in 1 .. pos' - hdr : hdr - pos + j <= r
      BY <1>1, <2>1, <2>3 DEF TurnFacts
    <3> QED BY <3>1, <3>2 DEF Counts
  <2> QED BY <1>1, <2>5, <2>6, <2>7, <2>8 DEF TurnFacts
<1>9. ChunksInv'
  <2>1. PICK n \in Nat : Len(buffer) = Chunk * n
    BY DEF IInv, ChunksInv
  <2>2. Len(buffer') = Chunk * (n + 1)
    BY <1>1, <2>1 DEF TurnFacts
  <2> QED BY <2>2 DEF ChunksInv
<1>10. RetInv'
  BY <1>2 DEF IInv, RetInv
<1> QED BY <1>4, <1>5, <1>6, <1>7, <1>8, <1>9, <1>10 DEF IInv

------------------------------------------------------------------------------
(* The other steps.                                                        *)

LEMMA InitInv == Init => IInv
<1> SUFFICES ASSUME Init PROVE IInv
  OBVIOUS
<1> USE DEF Init
<1>1. /\ hdr \in Nat /\ hdr >= 4 /\ body \in Nat /\ Chunk \in Nat \ {0} /\ Buffer \in Nat
  BY SizesAssumption DEF Buffer
<1>2. TypeOK
  <2>1. recvbuf \in [1 .. Chunk -> Cells]
    BY CellsAreInts
  <2>2. <<>> \in Seq(Cells) /\ Len(<<>>) = 0
    BY EmptySeq
  <2>3. pos \in 0 .. sent /\ Len(buffer) <= Buffer /\ buffer \in Seq(Cells)
    BY <1>1, <2>2
  <2> QED BY <2>1, <2>2, <2>3, Zenon DEF TypeOK
<1>3. BytesInv
  <2>1. BlankLines(buffer) = {}
    BY DEF BlankLines
  <2> QED BY <1>1, <2>1 DEF BytesInv, Nul, Text, Eol
<1>4. MissedInv /\ KeptInv /\ FullInv /\ RetInv
  BY <1>1 DEF MissedInv, KeptInv, FullInv, RetInv, Counts, Before
<1>5. ChunksInv
  <2>1. Len(buffer) = Chunk * 0
    BY <1>1
  <2> QED BY <2>1 DEF ChunksInv
<1> QED BY <1>2, <1>3, <1>4, <1>5 DEF IInv

\* The steps that read nothing.
LEMMA QuietInv == ASSUME IInv, ConnectionReset \/ OpenFile \/ Connect \/ Catch PROVE IInv'
<1>1. /\ UNCHANGED <<hdr, body, ends, hasLength, page, sent, silent, pos, recvbuf, buffer, needRead, readCount, file, ret, short>>
      /\ failed' \in BOOLEAN /\ open' \in BOOLEAN /\ (failed => failed')
      /\ \/ pc' = pc /\ pc \in {"header", "body"}
         \/ pc \in {"start", "connect"} /\ pc' \in {"connect", "header", "returned"} /\ UNCHANGED failed
         \/ pc = "catch" /\ pc' = "undefined" /\ UNCHANGED failed
  BY DEF ConnectionReset, OpenFile, Connect, Catch, serverVars, IInv, TypeOK
<1>2. TypeOK'
  BY <1>1 DEF IInv, TypeOK
<1>3. BytesInv' /\ ChunksInv' /\ RetInv'
  <2>1. BlankLines(buffer)' = BlankLines(buffer)
    BY <1>1, SameBuffer
  <2> QED BY <1>1, <2>1 DEF IInv, BytesInv, ChunksInv, RetInv, Before, TypeOK
<1>4. MissedInv'
  <2>1. (pos = 0 /\ hdr >= 4) \/ pc = "header" \/ pc' # "header"
    BY <1>1 DEF IInv, BytesInv, TypeOK
  <2> QED BY <1>1, <2>1 DEF IInv, MissedInv, TypeOK
<1>5. KeptInv'
  <2>1. pc' = "returned" => buffer = <<>>
    <3>1. ASSUME pc \in {"start", "connect"} PROVE buffer = <<>>
      BY <3>1 DEF IInv, BytesInv
    <3> QED BY <1>1, <3>1
  <2>2. HeaderFound' <=> HeaderFound
    BY <1>1, SameBuffer
  <2> QED BY <1>1, <2>1, <2>2 DEF IInv, KeptInv, Keeps
<1>6. FullInv'
  <2>1. HeaderFound' <=> HeaderFound
    BY <1>1, SameBuffer
  <2>2. pc \in {"start", "connect"} => buffer = <<>>
    BY DEF IInv, BytesInv
  <2> QED BY <1>1, <2>1, <2>2 DEF IInv, FullInv, RetInv, Counts, Before
<1> QED BY <1>2, <1>3, <1>4, <1>5, <1>6 DEF IInv

LEMMA RecvHeaderInv == ASSUME IInv, RecvHeader PROVE IInv'
<1> USE DEF RecvHeader
<1>1. CASE Len(buffer) + Chunk <= Buffer
  <2>1. /\ Len(buffer) + Chunk \in Int /\ Buffer \in Int
    BY SizesAssumption, LenProperties DEF IInv, TypeOK, Buffer
  <2>2. PICK r \in Recv(Chunk) : Turn(r)
    BY <1>1, <2>1 DEF Turn, serverVars
  <2> QED BY <1>1, <2>2, TurnInv
<1>2. CASE Len(buffer) + Chunk > Buffer
  <2>1. /\ pc = "header" /\ pc' = "undefined"
        /\ UNCHANGED <<hdr, body, ends, hasLength, page, sent, silent, failed, pos, recvbuf, buffer, needRead, readCount,
                       file, open, ret, short>>
    BY <1>2 DEF serverVars
  <2> HIDE DEF RecvHeader
  <2>2. TypeOK'
    BY <2>1 DEF IInv, TypeOK
  <2>3. BytesInv' /\ MissedInv' /\ KeptInv' /\ ChunksInv' /\ RetInv'
    BY <2>1 DEF IInv, BytesInv, MissedInv, KeptInv, ChunksInv, RetInv, Before
  <2>4. ~short => hdr > Buffer
    <3>1. SUFFICES ASSUME ~short PROVE hdr > Buffer
      OBVIOUS
    <3>2. pos < hdr /\ Len(buffer) = pos /\ hdr \in Nat /\ Buffer \in Nat
      BY <2>1, <3>1, SizesAssumption DEF IInv, FullInv, Before, Counts, TypeOK, Buffer
    <3>3. PICK n \in Nat : Len(buffer) = Chunk * n
      BY DEF IInv, ChunksInv
    <3>4. Chunk * n >= Buffer
      BY <1>2, <3>3, FullBuffer
    <3> QED BY <3>2, <3>3, <3>4 DEF IInv, TypeOK
  <2>5. FullInv'
    BY <2>1, <2>4 DEF IInv, FullInv, Before, Buffer
  <2> QED BY <2>2, <2>3, <2>5 DEF IInv
<1> QED BY <1>1, <1>2, LenProperties, SizesAssumption DEF IInv, TypeOK, Buffer

LEMMA ReadLengthInv == ASSUME IInv, ReadLength PROVE IInv'
<1>1. /\ pc = "length"
      /\ UNCHANGED <<hdr, body, ends, hasLength, page, sent, silent, failed, pos, recvbuf, buffer, open, ret, short>>
  BY DEF ReadLength, serverVars
<1>2. \/ /\ hasLength \/ ~HeaderFound
         /\ needRead' \in (IF hasLength /\ FieldIsWhole THEN {body} ELSE 0 .. MaxBody)
         /\ readCount' = Len(Rest) /\ file' = Rest /\ pc' = "body"
      \/ /\ ~hasLength \/ ~FieldIsWhole
         /\ pc' = "catch" /\ UNCHANGED <<needRead, readCount, file>>
  BY DEF ReadLength
<1>3. /\ Rest \in Seq(Cells) /\ Len(Rest) \in Nat /\ (HeaderFound => Keeps(Rest) /\ pos >= hdr)
      /\ Len(buffer) > 0
      /\ body \in Nat /\ 0 .. MaxBody \subseteq Nat /\ pos \in Nat /\ hdr \in Nat /\ hdr >= 4
  BY <1>1, LenProperties, SizesAssumption DEF IInv, KeptInv, BytesInv, TypeOK
<1>4. TypeOK'
  <2>1. needRead' \in Nat /\ readCount' \in Nat /\ file' \in Seq(Cells)
    BY <1>2, <1>3 DEF IInv, TypeOK
  <2> QED BY <1>1, <1>2, <2>1 DEF IInv, TypeOK
<1>5. BytesInv' /\ MissedInv' /\ ChunksInv' /\ RetInv'
  BY <1>1, <1>2, <1>3 DEF IInv, BytesInv, MissedInv, ChunksInv, RetInv, Before
<1>8. HeaderFound' <=> HeaderFound
  BY <1>1, SameBuffer
<1>6. KeptInv'
  BY <1>1, <1>2, <1>3, <1>8 DEF KeptInv, Keeps
<1>7. FullInv'
  <2>1. SUFFICES ASSUME ~short PROVE FullInv'
    BY <1>1 DEF FullInv
  <2>2. Counts(buffer, 0, pos) /\ Counts(Rest, hdr, pos - hdr) /\ HeaderFound
    BY <1>1, <1>3, <2>1 DEF IInv, FullInv
  <2>3. FieldIsWhole
    BY <1>3, <2>2 DEF Counts, FieldIsWhole
  <2> QED BY <1>1, <1>2, <1>8, <2>2, <2>3 DEF FullInv, Counts, Before
<1> QED BY <1>4, <1>5, <1>6, <1>7 DEF IInv

LEMMA RecvBodyInv == ASSUME IInv, RecvBody PROVE IInv'
<1>1. /\ pc = "body" /\ readCount < needRead
      /\ UNCHANGED <<hdr, body, ends, hasLength, page, sent, silent, failed, recvbuf, buffer, needRead, open, ret, short>>
  BY DEF RecvBody, serverVars
<1> DEFINE n == Min({Buffer, needRead - readCount})
<1>2. /\ readCount \in Nat /\ needRead \in Nat /\ Buffer \in Nat /\ Buffer > 0
      /\ pos \in Nat /\ sent \in Nat /\ pos <= sent /\ sent <= hdr + body
      /\ hdr \in Nat /\ hdr >= 4 /\ body \in Nat /\ sent <= MaxHeader + MaxBody
      /\ (HeaderFound => pos >= hdr)
      /\ file \in Seq(Cells) /\ MaxHeader + MaxBody \in Nat
  BY <1>1, SizesAssumption DEF IInv, TypeOK, KeptInv, Buffer
<1>3. n \in Nat \ {0} /\ n <= needRead - readCount
  <2>1. needRead - readCount \in Nat \ {0} /\ Buffer \in Nat \ {0}
    BY <1>1, <1>2
  <2>2. n \in {Buffer, needRead - readCount} /\ n <= needRead - readCount
    BY <2>1, MinOfTwo
  <2> QED BY <2>1, <2>2
<1>4. PICK r \in Recv(n) :
        IF r < 0
        THEN pc' = "undefined" /\ UNCHANGED <<pos, readCount, file>>
        ELSE /\ pos' = pos + r /\ readCount' = readCount + r
             /\ file' = file \o Received(r) /\ UNCHANGED pc
  BY DEF RecvBody
<1> HIDE DEF n
<1>5. r \in Int /\ r >= -1 /\ r <= n /\ (r = -1 => failed) /\ (r > 0 => pos + r <= sent)
  BY <1>3, RecvGives DEF IInv
<1>6. BytesInv' /\ MissedInv' /\ ChunksInv' /\ RetInv'
  <2>1. pc' \in {"body", "undefined"} /\ pos' \in Nat /\ pos' >= pos
    BY <1>1, <1>2, <1>4, <1>5
  <2>2. \A i \in 1 .. Chunk : recvbuf[i] \in Int /\ recvbuf[i] <= pos
    BY CellsAreInts DEF IInv, BytesInv, TypeOK
  <2>3. \A i \in 1 .. Chunk : recvbuf'[i] <= pos'
    <3>1. \A a \in Int, m \in Nat : a <= pos /\ m >= pos => a <= m
      BY <1>2
    <3> QED BY <1>1, <2>1, <2>2, <3>1
  <2>4. Len(buffer') > 0
    BY <1>1 DEF IInv, BytesInv
  <2> QED BY <1>1, <2>1, <2>3, <2>4 DEF IInv, BytesInv, MissedInv, ChunksInv, RetInv, Before
<1>9. HeaderFound' <=> HeaderFound
  BY <1>1, SameBuffer
<1>7. CASE r < 0
  <2>1. pc' = "undefined" /\ UNCHANGED <<pos, readCount, file>> /\ failed
    BY <1>4, <1>5, <1>7
  <2>2. TypeOK'
    BY <1>1, <2>1 DEF IInv, TypeOK
  <2>3. KeptInv' /\ FullInv'
    BY <1>1, <2>1 DEF KeptInv, FullInv, Before
  <2> QED BY <1>6, <2>2, <2>3 DEF IInv
<1>8. CASE r >= 0
  <2> DEFINE t == Received(r)
  <2>1. pos' = pos + r /\ readCount' = readCount + r /\ file' = file \o t /\ pc' = "body" /\ r \in Nat
        /\ pos + r <= sent
    BY <1>1, <1>2, <1>4, <1>5, <1>8
  <2>2. t \in Seq(Cells) /\ Len(t) = r /\ \A i \in 1 .. r : t[i] = pos + i
    <3>1. \A i \in 1 .. r : pos + i \in 1 .. MaxHeader + MaxBody
      BY <1>2, <2>1
    <3> QED BY <2>1, <3>1 DEF Received, Cells
  <2> HIDE DEF t
  <2>3. /\ file' \in Seq(Cells) /\ Len(file) \in Nat /\ Len(file') = Len(file) + r
        /\ DOMAIN file = 1 .. Len(file) /\ DOMAIN file' = 1 .. Len(file) + r
        /\ \A k \in 1 .. Len(file) + r :
             file'[k] = IF k <= Len(file) THEN file[k] ELSE t[k - Len(file)]
    <3> DEFINE w == file \o t
    <3>1. /\ w \in Seq(Cells) /\ Len(file) \in Nat /\ Len(w) = Len(file) + r
          /\ \A k \in 1 .. Len(file) + r : w[k] = IF k <= Len(file) THEN file[k] ELSE t[k - Len(file)]
      BY <1>2, <2>2, ConcatProperties, LenProperties
    <3>2. DOMAIN file = 1 .. Len(file) /\ DOMAIN w = 1 .. Len(file) + r
      BY <1>2, <3>1, LenProperties
    <3> QED BY <2>1, <3>1, <3>2
  <2>4. /\ \A k \in 1 .. Len(file) : k \in 1 .. Len(file) + r /\ file'[k] = file[k]
        /\ \A k \in 1 .. Len(file) + r : k > Len(file) => file'[k] = pos + (k - Len(file))
                                                       /\ k - Len(file) \in 1 .. r
    <3>1. \A k \in 1 .. Len(file) + r : k > Len(file) => k - Len(file) \in 1 .. r
      BY <2>1, <2>3
    <3>2. \A k \in 1 .. Len(file) : k \in 1 .. Len(file) + r
      BY <2>1, <2>3
    <3> QED BY <2>1, <2>2, <2>3, <3>1, <3>2
  <2>5. TypeOK'
    <3>1. pos + r \in 0 .. sent /\ readCount + r \in Nat
      BY <1>2, <2>1
    <3> QED BY <1>1, <2>1, <2>3, <3>1 DEF IInv, TypeOK
  <2>6. Len(buffer) > 0 /\ (HeaderFound => Keeps(file))
    BY <1>1, <1>2 DEF IInv, BytesInv, KeptInv
  <2>9. ASSUME HeaderFound PROVE KeptInv'
    <3>1. ASSUME NEW k \in 1 .. Len(file) + r, file'[k] > hdr PROVE file'[k] <= pos + r
      <4>1. CASE k <= Len(file)
        <5>1. k \in 1 .. Len(file) /\ file[k] \in Int
          BY <1>2, <2>3, <4>1, CellOf
        <5>2. file'[k] = file[k] /\ file[k] <= pos
          BY <2>3, <2>4, <2>6, <2>9, <3>1, <5>1 DEF Keeps
        <5> QED BY <1>2, <2>1, <5>1, <5>2
      <4>2. CASE k > Len(file)
        BY <1>2, <2>1, <2>3, <2>4, <4>2
      <4> QED BY <2>3, <4>1, <4>2
    <3>2. ASSUME NEW c \in hdr + 1 .. pos + r PROVE \E k \in 1 .. Len(file) + r : file'[k] = c
      <4>1. CASE c <= pos
        <5>1. c \in hdr + 1 .. pos
          BY <1>2, <4>1
        <5>2. PICK k \in 1 .. Len(file) : file[k] = c
          BY <2>3, <2>6, <2>9, <5>1 DEF Keeps
        <5> QED BY <2>4, <5>2
      <4>2. CASE c > pos
        <5> DEFINE k == Len(file) + (c - pos)
        <5>1. k \in 1 .. Len(file) + r /\ k > Len(file) /\ pos + (k - Len(file)) = c
          BY <1>2, <2>1, <2>3, <4>2
        <5> HIDE DEF k
        <5>2. file'[k] = c
          BY <2>4, <5>1
        <5> QED BY <5>1, <5>2
      <4> QED BY <1>2, <4>1, <4>2
    <3>3. ASSUME NEW j \in 1 .. Len(file) + r, NEW k \in 1 .. Len(file) + r,
                 file'[j] > hdr, file'[k] > hdr, j < k
          PROVE  file'[j] < file'[k]
      <4>1. CASE k <= Len(file)
        <5>1. j \in 1 .. Len(file) /\ k \in 1 .. Len(file)
          BY <2>3, <3>3, <4>1
        <5>2. file'[j] = file[j] /\ file'[k] = file[k]
          BY <2>4, <5>1
        <5> QED BY <2>3, <2>6, <2>9, <3>3, <5>1, <5>2 DEF Keeps
      <4>2. CASE k > Len(file) /\ j <= Len(file)
        <5>1. j \in 1 .. Len(file) /\ file[j] \in Int
          BY <1>2, <2>3, <4>2, CellOf
        <5>2. file'[j] = file[j] /\ file[j] <= pos
          BY <2>3, <2>4, <2>6, <2>9, <3>3, <5>1 DEF Keeps
        <5>3. file'[k] = pos + (k - Len(file)) /\ k - Len(file) \in 1 .. r
          BY <2>4, <4>2
        <5> QED BY <1>2, <5>1, <5>2, <5>3
      <4>3. CASE k > Len(file) /\ j > Len(file)
        <5>1. /\ file'[k] = pos + (k - Len(file)) /\ k - Len(file) \in 1 .. r
              /\ file'[j] = pos + (j - Len(file)) /\ j - Len(file) \in 1 .. r
          BY <2>4, <4>3
        <5> QED BY <1>2, <2>3, <3>3, <5>1
      <4> QED BY <2>3, <4>1, <4>2, <4>3
    <3>4. Keeps(file)'
      BY <1>1, <2>1, <2>3, <3>1, <3>2, <3>3 DEF Keeps
    <3>5. pos + r >= hdr
      BY <1>2, <2>1, <2>9
    <3> QED BY <1>1, <2>1, <3>4, <3>5 DEF KeptInv
  <2>7. KeptInv'
    <3>1. CASE ~HeaderFound
      BY <1>9, <2>1, <3>1 DEF KeptInv
    <3> QED BY <2>9, <3>1
  <2>8. FullInv'
    <3>1. SUFFICES ASSUME ~short
                   PROVE  /\ needRead = body
                          /\ readCount + r = pos + r - hdr
                          /\ Counts(file', hdr, pos + r - hdr)
      <4>1. \A s, p \in Int, h \in Int : p = pos + r /\ h = hdr =>
              (Counts(s, hdr, pos + r - hdr) => Counts(s, h, p - h)) /\ p - h = pos + r - hdr
        BY <1>2, <2>1 DEF Counts
      <4>2. pc' = "body" /\ needRead' = needRead /\ body' = body /\ short' = short /\ readCount' = readCount + r
        BY <1>1, <2>1
      <4>3. pc' \notin Before \cup {"length", "returned", "catch", "undefined"}
        BY <4>2 DEF Before
      <4>4. pos' \in Int /\ hdr' \in Int /\ pos' = pos + r /\ hdr' = hdr
        BY <1>1, <1>2, <2>1
      <4>5. /\ Counts(file', hdr, pos + r - hdr) => Counts(file', hdr', pos' - hdr')
            /\ pos' - hdr' = pos + r - hdr
        BY <4>1, <4>4, Zenon
      <4>6. Counts(file', hdr, pos + r - hdr) => Counts(file, hdr, pos - hdr)'
        BY <4>5 DEF Counts
      <4>7. ~short => HeaderFound'
        BY <1>1, <1>9, <2>6 DEF IInv, FullInv
      <4> QED BY <4>2, <4>3, <4>5, <4>6, <4>7 DEF FullInv
    <3>8. pos >= hdr
      BY <1>1, <1>2, <2>6, <3>1 DEF IInv, FullInv
    <3>2. /\ needRead = body /\ readCount = pos - hdr
          /\ Len(file) = pos - hdr /\ \A i \in 1 .. pos - hdr : file[i] = hdr + i
      BY <1>1, <3>1 DEF IInv, FullInv, Counts
    <3>3. Len(file') = pos + r - hdr /\ readCount + r = pos + r - hdr
      BY <1>2, <2>1, <2>3, <3>2, <3>8
    <3>4. ASSUME NEW i \in 1 .. pos + r - hdr PROVE file'[i] = hdr + i
      <4>1. CASE i <= Len(file)
        <5>1. i \in 1 .. Len(file)
          BY <1>2, <2>1, <3>8, <4>1
        <5> QED BY <2>4, <3>2, <5>1
      <4>2. CASE i > Len(file)
        <5>1. i \in 1 .. Len(file) + r /\ pos + (i - Len(file)) = hdr + i
          BY <1>2, <2>1, <3>2, <3>8, <4>2
        <5>2. file'[i] = pos + (i - Len(file))
          BY <2>4, <4>2, <5>1
        <5> QED BY <5>1, <5>2
      <4>3. i \in Int /\ Len(file) \in Int
        BY <2>3
      <4> QED BY <4>1, <4>2, <4>3
    <3> QED BY <3>2, <3>3, <3>4 DEF Counts
  <2> QED BY <1>6, <2>5, <2>7, <2>8 DEF IInv
<1> QED BY <1>5, <1>7, <1>8

LEMMA ReturnInv == ASSUME IInv, Return PROVE IInv'
<1>1. /\ pc = "body" /\ readCount >= needRead /\ pc' = "returned" /\ open' = FALSE /\ ret' = needRead
      /\ UNCHANGED <<hdr, body, ends, hasLength, page, sent, silent, failed, pos, recvbuf, buffer, needRead, readCount,
                     file, short>>
  BY DEF Return, serverVars
<1>2. TypeOK'
  BY <1>1 DEF IInv, TypeOK
<1>3. BytesInv' /\ MissedInv' /\ ChunksInv' /\ RetInv'
  BY <1>1 DEF IInv, BytesInv, MissedInv, ChunksInv, RetInv, Before
<1>6. HeaderFound' <=> HeaderFound
  BY <1>1, SameBuffer
<1>4. KeptInv'
  <2>1. pc' \notin {"length", "body"}
    BY <1>1
  <2>2. Len(buffer) > 0 => buffer # <<>>
    BY EmptySeq
  <2> QED BY <1>1, <1>6, <2>1 DEF IInv, KeptInv, Keeps
<1>5. FullInv'
  <2>4. ~short => HeaderFound /\ buffer # <<>>
    BY <1>1 DEF IInv, FullInv, BytesInv
  <2>1. SUFFICES ASSUME ~short PROVE Counts(file, hdr, body)
    BY <1>1, <1>6, <2>4 DEF FullInv, Counts, Before
  <2>2. needRead = body /\ readCount = pos - hdr /\ Counts(file, hdr, pos - hdr)
    BY <1>1, <2>1 DEF IInv, FullInv
  <2>3. pos - hdr = body
    BY <1>1, <2>1, <2>2, <2>4 DEF IInv, TypeOK, KeptInv
  <2> QED BY <2>2, <2>3
<1> QED BY <1>2, <1>3, <1>4, <1>5 DEF IInv

------------------------------------------------------------------------------
(* The theorems.                                                           *)

LEMMA NextInv == IInv /\ [Next]_vars => IInv'
<1> SUFFICES ASSUME IInv, [Next]_vars PROVE IInv'
  OBVIOUS
<1>1. CASE ConnectionReset \/ OpenFile \/ Connect \/ Catch
  BY <1>1, QuietInv
<1>2. CASE RecvHeader
  BY <1>2, RecvHeaderInv
<1>3. CASE ReadLength
  BY <1>3, ReadLengthInv
<1>4. CASE RecvBody
  BY <1>4, RecvBodyInv
<1>5. CASE Return
  BY <1>5, ReturnInv
<1>6. CASE UNCHANGED vars
  <2>1. UNCHANGED <<hdr, body, ends, hasLength, page, sent, silent, failed, pc, pos, recvbuf, buffer, needRead, readCount,
                    file, open, ret, short>>
    BY <1>6 DEF vars, serverVars
  <2>2. TypeOK'
    BY <2>1 DEF IInv, TypeOK
  <2>4. /\ BlankLines(buffer)' = BlankLines(buffer) /\ Rest' = Rest
        /\ HeaderFound' <=> HeaderFound
    BY <2>1, SameBuffer
  <2>3. BytesInv' /\ MissedInv' /\ ChunksInv' /\ RetInv'
    BY <2>1, <2>4 DEF IInv, BytesInv, MissedInv, ChunksInv, RetInv
  <2>5. KeptInv' /\ FullInv'
    BY <2>1, <2>4 DEF IInv, KeptInv, FullInv, Keeps, Counts
  <2> QED BY <2>2, <2>3, <2>5 DEF IInv
<1> QED BY <1>1, <1>2, <1>3, <1>4, <1>5, <1>6 DEF Next, Step

LEMMA Inductive == Spec => []IInv
BY InitInv, NextInv, PTL DEF Spec

\* Every variable keeps its type: the buffer never grows past its end, and a byte count
\* is never negative.
THEOREM TypeCorrect == Spec => []TypeOK
<1>1. IInv => TypeOK
  BY DEF IInv
<1> QED BY <1>1, Inductive, PTL

\* No byte of the body that recv has handed out is left out of the file or written out
\* of order, wherever the response is cut, whatever recvbuf held and however many blank
\* lines the body has, unless a short read has made another one than the header's first.
THEOREM BodyKept == Spec => []BodyIsKept
<1>1. IInv => BodyIsKept
  <2> SUFFICES ASSUME IInv, pc \in {"body", "returned"}, buffer # <<>>, HeaderFound
               PROVE  BodyIsKept
    BY DEF BodyIsKept, IInv, FullInv
  <2> DEFINE at == {k \in DOMAIN file : file[k] > hdr}
  <2>1. Keeps(file) /\ file \in Seq(Cells) /\ hdr \in Nat /\ pos \in Nat
    BY SizesAssumption DEF IInv, KeptInv, TypeOK
  <2>2. \A k \in at : file[k] \in hdr + 1 .. pos
    <3>1. \A k \in DOMAIN file : file[k] \in Int
      BY <2>1, CellOf
    <3> QED BY <2>1, <3>1 DEF Keeps
  <2>3. \A c \in hdr + 1 .. pos : \E k \in at : file[k] = c
    BY <2>1 DEF Keeps
  <2>4. {file[k] : k \in at} = hdr + 1 .. pos
    BY <2>2, <2>3
  <2> QED BY <2>1, <2>4 DEF BodyIsKept, Keeps
<1> QED BY <1>1, Inductive, PTL

\* A download that reports its length has written that body and nothing else, if the
\* reads of the header were full.
THEOREM WholeSuccess == Spec => []SuccessIsWhole
<1>1. IInv => SuccessIsWhole
  <2> SUFFICES ASSUME IInv, pc = "returned", ret > 0, ~short
               PROVE  file = [i \in 1 .. body |-> hdr + i]
    BY DEF SuccessIsWhole
  <2>1. Counts(file, hdr, body)
    BY DEF IInv, FullInv
  <2>2. file \in Seq(Cells)
    BY DEF IInv, TypeOK
  <2>3. file = [i \in 1 .. Len(file) |-> file[i]]
    BY <2>2
  <2> QED BY <2>1, <2>3 DEF Counts
<1> QED BY <1>1, Inductive, PTL

\* The function stays within its buffer, and out of the catch block, while the header
\* has a length and fits, its reads are full and the connection is not reset.
THEOREM Defined == Spec => []StaysDefined
<1>1. IInv => StaysDefined
  BY DEF IInv, FullInv, StaysDefined
<1> QED BY <1>1, Inductive, PTL
------------------------------------------------------------------------------
(* The transfer of DocDownload.                                            *)

\* What is open, and what has been written, when.
TransferInv ==
  /\ pc = "start" => ~open
  /\ pc \in {"start", "connect"} => buffer = <<>>
  /\ pc \in {"connect", "header", "length", "catch", "body"} => open
  /\ pc \in {"length", "catch", "body"} => buffer # <<>>
  /\ pc \in {"start", "connect", "header", "length", "catch"} => file = <<>>
  /\ pc = "body" => file \in Seq(Cells) /\ readCount = Len(file)

LEMMA TransferInitInv == Init => TransferInv
BY DEF Init, TransferInv

\* What a recv of the body may return.
LEMMA BodyGives ==
  ASSUME IInv, RecvBody, NEW r \in Recv(Min({Buffer, needRead - readCount}))
  PROVE  r \in Int /\ r >= -1
<1> DEFINE n == Min({Buffer, needRead - readCount})
<1>1. readCount < needRead /\ readCount \in Nat /\ needRead \in Nat /\ Buffer \in Nat /\ Buffer > 0
  BY SizesAssumption DEF RecvBody, IInv, TypeOK, Buffer
<1>2. n \in Nat \ {0}
  <2>1. needRead - readCount \in Nat \ {0} /\ Buffer \in Nat \ {0}
    BY <1>1
  <2>2. n \in {Buffer, needRead - readCount} /\ n <= needRead - readCount
    BY <2>1, MinOfTwo
  <2> QED BY <2>1, <2>2
<1> HIDE DEF n
<1>3. TypeOK
  BY DEF IInv
<1>4. r \in Recv(n)
  BY DEF n
<1> QED BY <1>2, <1>3, <1>4, RecvGives

LEMMA TransferNextInv == ASSUME IInv, TransferInv, [Next]_vars PROVE TransferInv'
<1> USE DEF TransferInv
<1>1. CASE OpenFile
  BY <1>1 DEF OpenFile
<1>2. CASE Connect
  BY <1>2 DEF Connect
<1>3. CASE RecvHeader
  <2>1. pc' \in {"header", "length", "undefined"} /\ UNCHANGED <<file, open>> /\ pc = "header"
    BY <1>3 DEF RecvHeader
  <2>2. pc' = "length" => buffer' # <<>>
    <3>1. pc' = "length" => BlankLines(buffer') # {}
      BY <1>3 DEF RecvHeader
    <3> QED BY <3>1 DEF BlankLines
  <2> QED BY <2>1, <2>2
<1>4. CASE ReadLength
  <2>1. file' \in Seq(Cells)
    BY NextInv DEF IInv, TypeOK
  <2> QED BY <1>4, <2>1 DEF ReadLength
<1>5. CASE RecvBody
  <2>1. PICK r \in Recv(Min({Buffer, needRead - readCount})) :
          IF r < 0
          THEN pc' = "undefined" /\ UNCHANGED <<pos, readCount, file>>
          ELSE pos' = pos + r /\ readCount' = readCount + r /\ file' = file \o Received(r) /\ UNCHANGED pc
    BY <1>5 DEF RecvBody
  <2>2. pc = "body" /\ UNCHANGED <<open, buffer>>
    BY <1>5 DEF RecvBody
  <2>3. CASE r < 0
    BY <2>1, <2>2, <2>3
  <2>4. CASE ~(r < 0)
    <3>1. r \in Nat
      <4>1. r \in Recv(Min({Buffer, needRead - readCount}))
        BY <2>1
      <4>2. r \in Int /\ r >= -1
        BY <1>5, <4>1, BodyGives
      <4> QED BY <2>4, <4>2
    <3>2. Received(r) \in Seq(Int) /\ Len(Received(r)) = r
      BY <3>1 DEF Received, IInv, TypeOK
    <3>3. file \in Seq(Int)
      <4>1. file \in Seq(Cells)
        BY <2>2
      <4>2. file \in [1 .. Len(file) -> Int] /\ Len(file) \in Nat
        BY <4>1, CellOf
      <4> QED BY <4>2
    <3>4. Len(file') = Len(file) + r
      BY <2>1, <2>4, <3>2, <3>3, ConcatProperties
    <3>5. file' \in Seq(Cells)
      BY NextInv DEF IInv, TypeOK
    <3> QED BY <2>1, <2>2, <2>4, <3>4, <3>5
  <2> QED BY <2>3, <2>4
<1>6. CASE Return
  BY <1>6 DEF Return
<1>7. CASE Catch
  BY <1>7 DEF Catch
<1>8. CASE ConnectionReset \/ UNCHANGED vars
  BY <1>8 DEF ConnectionReset, vars
<1> QED BY <1>1, <1>2, <1>3, <1>4, <1>5, <1>6, <1>7, <1>8 DEF Next, Step

\* The worker is at its only document, until that is reported.
LEMMA OneDocument ==
  ASSUME pc # "returned"
  PROVE  Download!Doc = Document /\ Download!Name = "document"
<1>1. Download!Doc = Document
  BY DEF Download!Doc
<1> QED BY <1>1 DEF Download!Name, Document

\* What DocDownload sees of the file, before a step and after it.
LEMMA FileIs ==
  /\ ~Opened => File = [state |-> "whole", version |-> "old"]
  /\ Opened /\ ~IsWhole => File = [state |-> IF file = <<>> THEN "empty" ELSE "partial",
                                   version |-> "none"]
BY DEF File

LEMMA FileWillBe ==
  /\ ~Opened' => File' = [state |-> "whole", version |-> "old"]
  /\ Opened' /\ ~IsWhole' => File' = [state |-> IF file' = <<>> THEN "empty" ELSE "partial",
                                      version |-> "none"]
  /\ Opened' /\ IsWhole' => File' = Served'
BY DEF File

LEMMA OpenStep == ASSUME IInv, TransferInv, OpenFile PROVE Download!Open
<1>1. /\ pc = "start" /\ ~open /\ buffer = <<>> /\ file = <<>> /\ ret' = 0
      /\ buffer' = <<>> /\ file' = <<>> /\ Served' = Served
      /\ Download!Doc = Document /\ Download!Name = "document"
  BY OneDocument DEF OpenFile, IInv, RetInv, TransferInv, serverVars, Served
<1>2. WorkerPc = "open" /\ File = [state |-> "whole", version |-> "old"]
  BY <1>1, FileIs DEF WorkerPc, Opened
<1>3. CASE pc' = "connect" /\ open' = TRUE
  <2>1. WorkerPc' = "connect" /\ File' = [state |-> "empty", version |-> "none"]
    BY <1>1, <1>3, FileWillBe DEF WorkerPc, Opened, IsWhole, Complete
  <2> QED
    BY <1>1, <1>2, <1>3, <2>1
    DEF Download!Open, Download!Empty, Download!environment, Download!transfer, Complete
<1>4. CASE pc' = "returned" /\ open' = open
  <2>1. WorkerPc' = "check" /\ File' = File /\ Complete' = FALSE /\ Complete = FALSE
    BY <1>1, <1>2, <1>4, FileWillBe DEF WorkerPc, Opened, Complete
  <2>2. Report' = [doc |-> Document, status |-> "failure", fetched |-> FALSE, file |-> File]
    <3>1. ~(ret' > 0)
      BY <1>1
    <3> QED BY <2>1, <3>1, Zenon DEF Report
  <2> HIDE DEF Report, File, WorkerPc, Complete, IsWhole
  <2> QED
    BY <1>1, <1>2, <1>4, <2>1, <2>2
    DEF Download!Open, Download!Report, Download!environment, Download!transfer
<1> QED BY <1>3, <1>4 DEF OpenFile

LEMMA ConnectStep == ASSUME IInv, TransferInv, Connect PROVE Download!Connect
<1>1. /\ pc = "connect" /\ open /\ buffer = <<>> /\ file = <<>> /\ ret' = 0
      /\ open' /\ buffer' = <<>> /\ file' = <<>> /\ Served' = Served
      /\ Download!Doc = Document /\ Download!Name = "document"
  BY OneDocument DEF Connect, IInv, RetInv, TransferInv, serverVars, Served
<1>2. Complete = FALSE /\ Complete' = FALSE
  BY <1>1 DEF Complete
<1>3. WorkerPc = "connect" /\ File = [state |-> "empty", version |-> "none"] /\ File' = File
  BY <1>1, <1>2, FileIs, FileWillBe DEF WorkerPc, Opened, IsWhole
<1>4. CASE pc' = "header"
  <2>1. WorkerPc' = "header"
    BY <1>4 DEF WorkerPc
  <2> QED
    BY <1>1, <1>2, <1>3, <1>4, <2>1
    DEF Download!Connect, Download!environment, Download!transfer
<1>5. CASE pc' = "returned"
  <2>1. WorkerPc' = "check"
    BY <1>5 DEF WorkerPc
  <2>2. Report' = [doc |-> Document, status |-> "failure", fetched |-> FALSE, file |-> File]
    <3>1. ~(ret' > 0)
      BY <1>1
    <3> QED BY <1>2, <1>3, <3>1, Zenon DEF Report
  <2> QED
    BY <1>1, <1>2, <1>3, <1>5, <2>1, <2>2
    DEF Download!Connect, Download!Report, Download!environment, Download!transfer
<1> QED BY <1>4, <1>5 DEF Connect

\* A step of which DocDownload sees nothing.
LEMMA Unseen ==
  ASSUME pc # "returned", pc' # "returned", WorkerPc' = WorkerPc, File' = File, page' = page
  PROVE  UNCHANGED downloadVars
<1>1. Complete = FALSE /\ Complete' = FALSE /\ Served' = Served
  BY DEF Complete, Served
<1> QED
  BY <1>1 DEF downloadVars, Download!vars, Download!environment, Download!transfer

\* The end of the worker's header, and a body that comes to nothing.
LEMMA HeaderEnds ==
  ASSUME pc # "returned", pc' # "returned", WorkerPc = "header",
         \/ WorkerPc' = "body" /\ File' = [state |-> "partial", version |-> "none"]
         \/ WorkerPc' \in {"body", "undefined"} /\ File' = File,
         page' = page
  PROVE  Download!Header
<1>1. Complete = FALSE /\ Complete' = FALSE
  BY DEF Complete
<1>2. Download!Name = "document"
  BY OneDocument
<1>3. Served' = Served /\ Served \in {Download!Served("new"), Download!Page}
  BY DEF Served, Download!Served, Download!Page
<1> HIDE DEF Served
<1> QED BY <1>1, <1>2, <1>3 DEF Download!Header, Download!environment

LEMMA BodyFails ==
  ASSUME pc # "returned", pc' # "returned", WorkerPc = "body", WorkerPc' = "undefined",
         File' = File, page' = page
  PROVE  Download!Body
<1>1. Complete = FALSE /\ Complete' = FALSE /\ Served' = Served
  BY DEF Complete, Served
<1> QED BY <1>1 DEF Download!Body, Download!environment

LEMMA RecvHeaderStep ==
  ASSUME TransferInv, RecvHeader
  PROVE  Download!Header \/ UNCHANGED downloadVars
<1>1. /\ pc = "header" /\ pc' \in {"header", "length", "undefined"} /\ open /\ file = <<>>
      /\ open' /\ file' = <<>> /\ page' = page
  BY DEF RecvHeader, TransferInv, serverVars
<1>2. WorkerPc = "header" /\ WorkerPc' \in {"header", "undefined"} /\ File' = File
  BY <1>1, FileIs, FileWillBe DEF WorkerPc, Opened, IsWhole, Complete
<1> QED BY <1>1, <1>2, Unseen, HeaderEnds

LEMMA ReadLengthStep ==
  ASSUME IInv, TransferInv, ReadLength
  PROVE  Download!Header \/ UNCHANGED downloadVars
<1>1. /\ pc = "length" /\ pc' \in {"body", "catch"} /\ open /\ file = <<>> /\ open'
      /\ pc' = "catch" => file' = <<>>
      /\ page' = page
  BY DEF ReadLength, TransferInv, serverVars
<1>2. /\ WorkerPc = "header" /\ File = [state |-> "empty", version |-> "none"]
      /\ File' = [state |-> IF file' = <<>> THEN "empty" ELSE "partial", version |-> "none"]
  BY <1>1, FileIs, FileWillBe DEF WorkerPc, Opened, IsWhole, Complete
<1>3. CASE file' # <<>>
  <2>1. WorkerPc' = "body" /\ File' = [state |-> "partial", version |-> "none"]
    BY <1>1, <1>2, <1>3 DEF WorkerPc
  <2> QED BY <1>1, <1>2, <2>1, HeaderEnds
<1>4. CASE file' = <<>>
  <2>1. WorkerPc' \in {"header", "body"} /\ File' = File
    BY <1>1, <1>2, <1>4 DEF WorkerPc
  <2> QED BY <1>1, <1>2, <2>1, Unseen, HeaderEnds
<1> QED BY <1>3, <1>4

LEMMA RecvBodyStep ==
  ASSUME IInv, TransferInv, RecvBody
  PROVE  Download!Header \/ Download!Body \/ UNCHANGED downloadVars
<1>1. /\ pc = "body" /\ open /\ open' /\ needRead' = needRead /\ readCount < needRead
      /\ readCount = Len(file) /\ needRead \in Nat /\ readCount \in Nat /\ file \in Seq(Cells)
      /\ page' = page
  BY DEF RecvBody, IInv, TypeOK, TransferInv, serverVars
<1>2. needRead > 0
  BY <1>1
<1>3. /\ WorkerPc = IF file = <<>> THEN "header" ELSE "body"
      /\ File = [state |-> IF file = <<>> THEN "empty" ELSE "partial", version |-> "none"]
  BY <1>1, <1>2, FileIs DEF WorkerPc, Opened, IsWhole, Complete
<1>4. PICK r \in Recv(Min({Buffer, needRead - readCount})) :
        IF r < 0
        THEN pc' = "undefined" /\ UNCHANGED <<pos, readCount, file>>
        ELSE pos' = pos + r /\ readCount' = readCount + r /\ file' = file \o Received(r) /\ UNCHANGED pc
  BY DEF RecvBody
<1>5. CASE r < 0
  <2>1. pc' = "undefined" /\ file' = file
    BY <1>4, <1>5
  <2>2. WorkerPc' = "undefined" /\ File' = File
    BY <1>1, <1>3, <2>1, FileWillBe DEF WorkerPc, Opened, IsWhole, Complete
  <2> QED BY <1>1, <1>3, <2>1, <2>2, HeaderEnds, BodyFails
<1>6. CASE ~(r < 0)
  <2>1. pc' = "body" /\ readCount' = readCount + r
    BY <1>1, <1>4, <1>6
  <2>2. /\ WorkerPc' = IF file' = <<>> THEN "header" ELSE "body"
        /\ File' = [state |-> IF file' = <<>> THEN "empty" ELSE "partial", version |-> "none"]
    BY <1>1, <1>2, <2>1, FileWillBe DEF WorkerPc, Opened, IsWhole, Complete
  <2>3. file # <<>> => file' # <<>>
    <3>1. r \in Nat
      <4>1. r \in Recv(Min({Buffer, needRead - readCount}))
        BY <1>4
      <4>2. r \in Int /\ r >= -1
        BY <4>1, BodyGives
      <4> QED BY <1>6, <4>2
    <3>2. readCount' = Len(file')
      BY <2>1, TransferNextInv DEF TransferInv, Next, Step
    <3> QED BY <1>1, <2>1, <3>1, <3>2
  <2>4. CASE file' = <<>>
    BY <1>1, <1>3, <2>1, <2>2, <2>3, <2>4, Unseen
  <2>5. CASE file = <<>> /\ file' # <<>>
    BY <1>1, <1>3, <2>1, <2>2, <2>5, HeaderEnds
  <2>6. CASE file # <<>>
    BY <1>1, <1>3, <2>1, <2>2, <2>3, <2>6, Unseen
  <2> QED BY <2>4, <2>5, <2>6
<1> QED BY <1>5, <1>6

LEMMA ReturnStep == ASSUME IInv, TransferInv, Return PROVE Download!Body
<1>1. /\ pc = "body" /\ open /\ buffer # <<>> /\ readCount >= needRead /\ needRead \in Nat
      /\ readCount = Len(file) /\ pc' = "returned" /\ ~open' /\ buffer' = buffer
      /\ ret' = needRead /\ file' = file /\ Served' = Served
      /\ Download!Doc = Document /\ Download!Name = "document"
  BY OneDocument DEF Return, IInv, TypeOK, TransferInv, serverVars, Served
<1>2. WorkerPc = "body" /\ WorkerPc' = "check"
  BY <1>1 DEF WorkerPc
<1>3. Complete = FALSE /\ Complete' = TRUE /\ Opened /\ Opened'
  BY <1>1 DEF Complete, Opened
<1>4. File = [state |-> IF file = <<>> THEN "empty" ELSE "partial", version |-> "none"]
  BY <1>3, FileIs DEF IsWhole
<1>7. Served.state \in {"whole", "page"}
  BY DEF Served
<1> HIDE DEF Served
<1>5. CASE ret' > 0
  <2>1. file # <<>>
    BY <1>1, <1>5
  <2>2. Report' = [doc |-> Document, status |-> "success", fetched |-> TRUE, file |-> File']
    BY <1>3, <1>5, Zenon DEF Report
  <2>3. CASE IsWhole'
    <3>1. File' = Served
      BY <1>1, <1>3, <2>3, FileWillBe
    <3>2. Download!Return(Served, "success")
      BY <1>1, <1>2, <1>3, <2>2, <2>3, <3>1 DEF Download!Return, Download!Report
    <3> QED BY <1>1, <1>2, <3>2 DEF Download!Body, Download!environment
  <2>4. CASE ~IsWhole'
    <3>1. File' = [state |-> "partial", version |-> "none"]
      BY <1>1, <1>3, <2>1, <2>4, FileWillBe
    <3>2. Download!Return([state |-> "partial", version |-> "none"], "success")
      BY <1>1, <1>2, <1>3, <1>7, <2>2, <2>4, <3>1 DEF Download!Return, Download!Report
    <3> QED BY <1>1, <1>2, <3>2 DEF Download!Body, Download!environment
  <2> QED BY <2>3, <2>4
<1>6. CASE ~(ret' > 0)
  <2>1. ~IsWhole'
    BY <1>6 DEF IsWhole
  <2>2. File' = File
    BY <1>1, <1>3, <1>4, <2>1, FileWillBe
  <2>3. Report' = [doc |-> Document, status |-> "failure", fetched |-> TRUE, file |-> File]
    BY <1>3, <1>6, <2>2, Zenon DEF Report
  <2>4. File # Served
    BY <1>4, <1>7
  <2>5. Download!Return(File, "failure")
    BY <1>1, <1>2, <1>3, <2>1, <2>2, <2>3, <2>4 DEF Download!Return, Download!Report
  <2> QED BY <1>1, <1>2, <2>5 DEF Download!Body, Download!environment
<1> QED BY <1>5, <1>6

LEMMA CatchStep == ASSUME TransferInv, Catch PROVE Download!Header
<1>1. pc = "catch" /\ pc' = "undefined" /\ open /\ open' /\ file = <<>> /\ file' = <<>> /\ page' = page
  BY DEF Catch, TransferInv, serverVars
<1>2. WorkerPc = "header" /\ WorkerPc' = "undefined" /\ File' = File
  BY <1>1, FileIs, FileWillBe DEF WorkerPc, Opened, IsWhole, Complete
<1> QED BY <1>1, <1>2, HeaderEnds

\* What may happen to the connection without a step of httpGetFile.
LEMMA ResetStep ==
  ASSUME ConnectionReset \/ UNCHANGED vars
  PROVE  UNCHANGED downloadVars
<1>1. UNCHANGED <<pc, open, buffer, ret, file, hdr, body, page, needRead>>
  BY DEF ConnectionReset, vars, serverVars
<1>2. UNCHANGED <<WorkerPc, Opened, Complete, IsWhole, Served>>
  BY <1>1 DEF WorkerPc, Opened, Complete, IsWhole, Served
<1>3. UNCHANGED <<File, Report>>
  BY <1>1, <1>2 DEF File, Report
<1> QED
  BY <1>1, <1>2, <1>3 DEF downloadVars, Download!vars, Download!environment, Download!transfer

\* Wherever the response is cut, whatever its sizes, a transfer is one of those that
\* DocDownload has for a document: each step of httpGetFile is its worker's, or none.
THEOREM TransferAsAssumed == Spec => TransferIsAsAssumed
<1>1. ASSUME IInv, TransferInv, [Next]_vars
      PROVE  [\/ Download!Open \/ Download!Connect \/ Download!Header
              \/ Download!Body]_downloadVars
  BY <1>1, OpenStep, ConnectStep, RecvHeaderStep, ReadLengthStep, RecvBodyStep, ReturnStep,
     CatchStep, ResetStep DEF Next, Step
<1>2. Init => TransferInv
  BY TransferInitInv
<1>3. IInv /\ TransferInv /\ [Next]_vars => TransferInv'
  BY TransferNextInv
<1> QED BY <1>1, <1>2, <1>3, Inductive, PTL DEF Spec, TransferIsAsAssumed
==============================================================================
