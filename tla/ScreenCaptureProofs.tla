------------------------- MODULE ScreenCaptureProofs -------------------------
(***************************************************************************)
(* What holds of a screenshot for any screen and any number of             *)
(* screenshots.                                                            *)
(*                                                                         *)
(* The argument: the objects that live are always the ones the worker has  *)
(* in hand, which pc tells, and one for each failure that is not undone    *)
(* (OnlyFailuresLeak); so nothing is given back that there is not, and     *)
(* the counts stay natural numbers.  Until the picture is written Work is  *)
(* going to return FALSE (ResultInv).                                      *)
(***************************************************************************)
EXTENDS ScreenCapture, TLAPS

\* What Work is going to return agrees with the file at every step: not only when it
\* is over, which is ResultIsTrue.
ResultInv ==
  /\ ResultIsTrue
  /\ pc \in {"encoder", "grab", "stream", "image"}
       => ~ret /\ ~saved /\ "image" \notin failed

IInv == /\ TypeOK
        /\ OnlyFailuresLeak
        /\ ResultInv
        /\ StaysDefined

------------------------------------------------------------------------------
(* Objects.                                                                *)

\* What each of pc's values leaves in the worker's hand.
InHandAt ==
  /\ pc \in {"encoder", "grab", "free"} => InHand = {"name"}
  /\ pc = "stream" => InHand = {"name", "bitmap"}
  /\ pc = "image" => InHand = {"name", "bitmap", "block", "stream"}
  /\ pc \in {"idle", "undefined"} => InHand = {}

\* What failures leave behind, kind by kind.
LeftBehindOf ==
  /\ LeftBehind("bitmap") = spoilt["memDC"]
  /\ LeftBehind("windowDC") = spoilt["palette"]
  /\ LeftBehind("block") = spoilt["stream"]
  /\ \A k \in {"name", "screenDC", "memDC", "stream"} : LeftBehind(k) = 0

\* Both hold by the cases of the definitions, before and after a step.
LEMMA HandAndLeft == InHandAt /\ InHandAt' /\ LeftBehindOf /\ LeftBehindOf'
<1>1. InHandAt
  BY Zenon DEF InHandAt, InHand
<1>2. InHandAt'
  BY Zenon DEF InHandAt, InHand
<1>3. LeftBehindOf
  BY Zenon DEF LeftBehindOf, LeftBehind
<1>4. LeftBehindOf'
  BY Zenon DEF LeftBehindOf, LeftBehind
<1> QED BY <1>1, <1>2, <1>3, <1>4

------------------------------------------------------------------------------
(* The invariant.                                                          *)

LEMMA InitInv == DepthsAssumption /\ Init => IInv
<1> SUFFICES ASSUME Init PROVE IInv
  OBVIOUS
<1>1. TypeOK
  BY DEF Init, TypeOK
<1>2. OnlyFailuresLeak
  BY HandAndLeft DEF InHandAt, LeftBehindOf, Init, OnlyFailuresLeak, Kinds, Spoiling, Count
<1> QED BY <1>1, <1>2 DEF Init, IInv, ResultInv, ResultIsTrue, StaysDefined

\* Only a picture of at most 8 bits a pixel has a palette.
LEMMA FewHavePalettes == \A bits \in Nat : Colours(BitCount(bits)) > 0 => bits <= 8
BY DEF BitCount, Colours

\* Every step keeps the invariant: the counts stay right if what is handed out and given
\* back is the change in what the worker has in hand and in what is left behind.
LEMMA StepInv == ASSUME IInv, [Next]_vars PROVE IInv'
<1> USE DEF IInv, TypeOK, ResultInv, ResultIsTrue, StaysDefined, taskVars,
            InHandAt, LeftBehindOf
<1>1. CASE ChangeMode
  BY <1>1 DEF ChangeMode, OnlyFailuresLeak, InHand, LeftBehind
<1>2. CASE CloseDialog
  <2>1. IInv' \/ pc' # pc
    BY <1>2 DEF CloseDialog, OnlyFailuresLeak, InHand, LeftBehind
  <2>2. pc' # pc => pc' = "undefined"
    BY <1>2 DEF CloseDialog
  <2>3. pc' = "undefined" => IInv'
    BY <1>2 DEF CloseDialog, OnlyFailuresLeak
  <2> QED BY <2>1, <2>2, <2>3
<1>3. CASE Work
  <2>1. \/ Acquire({"name"}, {}) /\ pc' = "encoder"
        \/ UNCHANGED live /\ pc' = "idle"
    BY <1>3 DEF Work
  <2>2. TypeOK'
    <3>1. live' \in [Kinds -> Nat]
      BY <2>1 DEF Acquire, Count
    <3>2. captures' \in Nat /\ spoilt' \in [Spoiling -> Nat]
      BY <1>3 DEF Work
    <3> QED BY <1>3, <2>1, <3>1, <3>2 DEF Work
  <2>4. OnlyFailuresLeak'
    <3>1. CASE Acquire({"name"}, {}) /\ pc' = "encoder"
      BY <1>3, <3>1, HandAndLeft DEF Work, OnlyFailuresLeak, Acquire, Count, Kinds
    <3>2. CASE UNCHANGED live /\ pc' = "idle"
      BY <1>3, <3>2, HandAndLeft DEF Work, OnlyFailuresLeak, Count, Kinds
    <3> QED BY <2>1, <3>1, <3>2
  <2>3. ResultInv' /\ StaysDefined'
    BY <1>3, <2>1 DEF Work
  <2> QED BY <2>2, <2>3, <2>4
<1>4. CASE FindEncoder
  BY <1>4, HandAndLeft
  DEF FindEncoder, OnlyFailuresLeak, Kinds
<1>5. CASE Grab
  BY <1>5, HandAndLeft
  DEF Grab, OnlyFailuresLeak, Acquire, Count, Spoil, Kinds, Spoiling
<1>6. CASE ToStream
  <2>1. PICK F \in StreamCalls :
          LET unreleased == IF "windowDC" \in F THEN {} ELSE F \cap {"palette"}
          IN /\ failed' = failed \cup F
             /\ taken' = Taken(F)
             /\ Spoil(unreleased \cup (F \cap {"stream"}))
             /\ Acquire((IF unreleased # {} THEN {"windowDC"} ELSE {})
                          \cup ({"block", "stream"} \ F),
                        IF "stream" \in F THEN {"bitmap"} ELSE {})
             /\ pc' = IF "block" \in F \/ Overruns(F) THEN "undefined"
                      ELSE IF "stream" \in F THEN "free" ELSE "image"
    BY <1>6 DEF ToStream
  <2>2. /\ pc = "stream"
        /\ UNCHANGED <<gdi, depth, ret, saved, captures>>
    BY <1>6 DEF ToStream
  <2>0. /\ F \subseteq {"depthDC", "windowDC", "palette", "block", "stream"}
        /\ depth \in Nat /\ taken' \in Depths \cup {0}
        /\ taken' = 0 => "depthDC" \in F
    BY <2>1, DepthsAssumption DEF StreamCalls, Taken
  <2>3. TypeOK'
    <3>1. live' \in [Kinds -> Nat] /\ spoilt' \in [Spoiling -> Nat]
      BY <2>1, <2>2, HandAndLeft
      DEF OnlyFailuresLeak, Acquire, Count, Spoil, Kinds, Spoiling
    <3>2. pc' \in {"undefined", "free", "image"} /\ failed' = failed \cup F
      BY <2>1
    <3> QED BY <2>0, <2>2, <3>1, <3>2
  <2>4. OnlyFailuresLeak'
    BY <2>1, <2>2, HandAndLeft
    DEF OnlyFailuresLeak, Acquire, Count, Spoil, Kinds, Spoiling
  <2>5. ResultInv'
    BY <2>0, <2>1, <2>2
  <2>6. StaysDefined'
    <3>1. Overruns(F) => taken' <= 8
      BY <2>0, <2>1, FewHavePalettes, DepthsAssumption DEF Overruns, Taken
    <3> QED BY <2>0, <2>1, <2>2, <3>1
  <2> QED BY <2>3, <2>4, <2>5, <2>6
<1>7. CASE SaveImage
  <2>1. TypeOK'
    <3>1. \A k \in {"stream", "block", "bitmap"} : live[k] >= 1
      BY <1>7, HandAndLeft DEF SaveImage, OnlyFailuresLeak, Count, Kinds, Spoiling
    <3>2. live' = [k \in Kinds |-> live[k] + 0 - Count({"stream", "block", "bitmap"}, k)]
      BY <1>7 DEF SaveImage, Acquire, Count
    <3>3. live' \in [Kinds -> Nat]
      BY <3>1, <3>2 DEF Count
    <3>4. /\ UNCHANGED <<gdi, depth, taken, spoilt, captures>>
          /\ pc' = "free" /\ ret' \in BOOLEAN /\ saved' \in BOOLEAN
          /\ failed' \subseteq failed \cup {"image"}
      BY <1>7 DEF SaveImage
    <3> QED BY <3>3, <3>4
  <2>2. OnlyFailuresLeak'
    <3>1. /\ live \in [Kinds -> Nat]
          /\ \A k \in Kinds : live[k] = LeftBehind(k) + Count(InHand, k)
          /\ InHand = {"name", "bitmap", "block", "stream"}
      BY <1>7, HandAndLeft DEF SaveImage, OnlyFailuresLeak
    <3>2. /\ live' = [k \in Kinds |-> live[k] + 0 - Count({"stream", "block", "bitmap"}, k)]
          /\ InHand' = {"name"}
          /\ spoilt' = spoilt
      BY <1>7, HandAndLeft DEF SaveImage, Acquire, Count
    <3>3. \A k \in Kinds : LeftBehind(k)' = LeftBehind(k)
      BY <3>2 DEF LeftBehind
    <3>4. \A k \in Kinds : LeftBehind(k) \in Int
      BY HandAndLeft DEF Kinds, Spoiling
    <3> QED BY <3>1, <3>2, <3>3, <3>4 DEF OnlyFailuresLeak, Count, Kinds
  <2>3. ResultInv' /\ StaysDefined'
    <3>1. saved' \/ "image" \in failed'
      BY <1>7 DEF SaveImage
    <3>2. ret' /\ pc' = "free"
      BY <1>7 DEF SaveImage
    <3> QED BY <3>1, <3>2
  <2> QED BY <2>1, <2>2, <2>3
<1>8. CASE Free
  BY <1>8, HandAndLeft
  DEF Free, OnlyFailuresLeak, Acquire, Count, Kinds, Spoiling
<1>9. CASE UNCHANGED vars
  BY <1>9 DEF vars, OnlyFailuresLeak, InHand, LeftBehind
<1> QED BY <1>1, <1>2, <1>3, <1>4, <1>5, <1>6, <1>7, <1>8, <1>9 DEF Next, WorkerStep

LEMMA Invariance == Spec => []IInv
<1>1. Init => IInv
  BY InitInv, DepthsAssumption
<1> QED BY <1>1, StepInv, PTL DEF Spec
------------------------------------------------------------------------------
(* The properties.                                                         *)

\* Every variable of CScreenCapTask::Work and what it calls keeps its type: above all,
\* nothing is given back to the system that was not handed out.
THEOREM TypeCorrect == Spec => []TypeOK
BY Invariance, PTL DEF IInv

\* However many screenshots there have been, what lives is what the worker has in
\* hand and one object for each failure that SaveScreenPictureToFILE does not undo.
THEOREM LeaksAreFailures == Spec => []OnlyFailuresLeak
BY Invariance, PTL DEF IInv

\* The answer to a screenshot is "result" exactly if the picture was saved, or could
\* not be when everything but the writing was done.
THEOREM ResultIsRight == Spec => []ResultIsTrue
BY Invariance, PTL DEF IInv, ResultInv

\* The worker goes astray only with the dialog closed under it, without memory, or
\* with a picture that is taken to have a palette: of a screen of at most 8 bits a
\* pixel, or of any screen when there was no device context to ask for its depth.
THEOREM AstrayOnlyThen == Spec => []StaysDefined
BY Invariance, PTL DEF IInv

------------------------------------------------------------------------------
(* What BitmapLayout's operators promise, for every rectangle, screen, width, *)
(* height and depth.                                                          *)

\* CaptureScreenToBitmap captures the pixels that are both asked for and on the
\* screen, whatever the rectangle and however large the screen.
THEOREM RegionIsVisiblePart ==
  ASSUME NEW q \in Rects, NEW x \in Nat, NEW y \in Nat
  PROVE  IsVisiblePart(q, x, y, Int)
<1> SUFFICES ASSUME NEW px \in Int, NEW py \in Int
             PROVE  Inside(px, py, Region(q, x, y))
                      <=> Inside(px, py, Screen(x, y)) /\ (IsEmpty(q) \/ Inside(px, py, q))
  BY DEF IsVisiblePart
<1>1. q.l \in Int /\ q.t \in Int /\ q.r \in Int /\ q.b \in Int
  BY DEF Rects
<1>2. CASE IsEmpty(q)
  <2>1. Region(q, x, y) = Screen(x, y)
    BY <1>2 DEF Region
  <2> QED BY <1>2, <2>1
<1>3. CASE ~IsEmpty(q)
  BY <1>1, <1>3 DEF Region, Inside, Screen
<1> QED BY <1>2, <1>3

\* The row of a picture in SaveBitmapToStream starts at a multiple of four bytes and
\* holds its pixels with less than four bytes to spare, for any width and depth.
THEOREM RowsFit ==
  ASSUME NEW w \in Nat, NEW bits \in Nat
  PROVE  IsRow(RowBytes(w, bits), w, bits)
<1> DEFINE p == w * bits
           k == (p + 31) \div 32
<1>1. p \in Nat
  OBVIOUS
<1>2. k \in Nat /\ 32 * k <= p + 31 /\ p + 31 < 32 * k + 32
  <2> HIDE DEF p
  <2> QED BY <1>1
<1>3. (k * 4) % 4 = 0 /\ 8 * (k * 4) >= p /\ 8 * (k * 4) < p + 32
  <2> HIDE DEF p, k
  <2> QED BY <1>1, <1>2
<1> QED BY <1>3 DEF IsRow, RowBytes

\* A depth is never cut, and the palette has a colour for each value of a pixel that
\* has one.
THEOREM DepthIsKept ==
  ASSUME NEW iBits \in 0 .. 32
  PROVE  /\ BitCount(iBits) \in {1, 4, 8, 24, 32}
         /\ BitCount(iBits) >= iBits
BY DEF BitCount

\* The headers of the stream and of the file tell a reader where the pixels are and
\* where they end, for any picture.
THEOREM PartsAreLaidOut ==
  ASSUME NEW w \in Nat, NEW h \in Nat, NEW bits \in Nat
  PROVE  IsLaidOut(w, h, bits)
<1>1. PaletteSize(bits) \in Nat
  BY DEF PaletteSize, Colours, Quad
<1>2. BitsSize(w, h, bits) \in Int
  <2>1. (w * bits + 31) \div 32 \in Int
    OBVIOUS
  <2> HIDE <2>1
  <2> QED BY <2>1 DEF BitsSize, RowBytes
<1> QED
  BY <1>1, <1>2 DEF IsLaidOut, OffBits, StreamBitsAt, StreamBlock, FileSize, FileBlock,
                    FileBitsAt, InfoHeader, FileHeader
==============================================================================
