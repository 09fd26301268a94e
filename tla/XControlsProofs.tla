--------------------------- MODULE XControlsProofs ---------------------------
(***************************************************************************)
(* What holds of the dialog's controls wherever the pointer goes, whatever *)
(* lies in the information's rectangle and however many messages wait.     *)
(*                                                                         *)
(* The argument: a control has nothing on the screen if it is not on the   *)
(* page or the window is minimised, and one that changes on the page waits *)
(* for WM_PAINT as a whole (PaintInv); one that waits and is not going to  *)
(* be drawn has turned (TurnInv).  A pressed control is under the pointer  *)
(* (DownInv).  One click waits at the most; while it does no control is    *)
(* pressed, and the page is the one it was made on or one that has the     *)
(* control too (QueueInv).                                                 *)
(***************************************************************************)
EXTENDS XControls, SequenceTheorems, TLAPS

\* What the screen has.
PaintInv ==
  /\ \A c \in Controls : shown[c] = "hidden" <=> c \notin OnPage[page] \/ iconic
  /\ \A c \in Controls \ {"info"} : shown[c] \in {m_Status[c], "blank", "invalid", "hidden"}
  /\ shown["info"] \in {"none", "invalid", "hidden"}
  /\ shown["info"] = "invalid" => m_OldStatus["info"] # "none"
  /\ "info" \notin partly
  /\ \A c \in partly : shown[c] \notin {"invalid", "hidden"}

\* Who waits and has not turned is going to be drawn.
TurnInv ==
  \A c \in OnPage[page] \ turned :
    shown[c] = "invalid" \/ c \in partly => m_OldStatus[c] # m_Status[c]

\* A pressed control.
DownInv ==
  \A c \in Controls : m_Status[c] = "down" =>
    /\ c = mouse /\ c = pressed
    /\ c \in OnPage[page] \ Plain
    /\ ~ClickWaits

\* Page 0 is left for the message initOk, which comes once.
QueueInv ==
  /\ \A i \in DOMAIN posted : posted[i] \in Controls =>
       /\ posted[i] \in OnPage[page] \ Plain
       /\ \A j \in DOMAIN posted : posted[j] \in Controls => i = j
  /\ ~started => page = 0
  /\ \A i \in DOMAIN posted : posted[i] = "initOk" =>
       /\ started /\ page = 0
       /\ \A j \in DOMAIN posted : posted[j] = "initOk" => i = j

IInv == TypeOK /\ PaintInv /\ TurnInv /\ DownInv /\ QueueInv

------------------------------------------------------------------------------
(* Data.                                                                   *)

LEMMA Pages ==
  ASSUME NEW p \in 0 .. 3
  PROVE  /\ OnPage[p] \subseteq Controls
         /\ {"close", "min"} \subseteq OnPage[p]
         /\ OnPage[0] \ Plain = {"close", "min"}
         /\ {"close", "min"} \cap Plain = {}
BY DEF OnPage, Controls, Plain

LEMMA PlainOnes == Plain \subseteq Controls /\ "info" \in Plain /\ "last" \notin Plain
BY DEF Plain, Controls

LEMMA Statuses == /\ "needrp" \notin Status
                  /\ \A s \in {"old", "blank", "invalid", "hidden"} : s \notin Status
                  /\ {"none", "hover", "down", "up"} = Status
BY DEF Status

LEMMA TouchedPart ==
  ASSUME NEW S
  PROVE  Touched(S) \subseteq OnPage[page] \ {"info"}
BY LayoutAssumption DEF Touched

\* What a message that is taken leaves of the queue.
LEMMA TailOf ==
  ASSUME posted \in Seq(Messages), posted # <<>>, posted' = Tail(posted)
  PROVE  /\ posted' \in Seq(Messages)
         /\ \A i \in DOMAIN posted' : i + 1 \in DOMAIN posted /\ posted'[i] = posted[i + 1]
         /\ Head(posted) = posted[1] /\ 1 \in DOMAIN posted
BY HeadTailProperties

LEMMA AppendOf ==
  ASSUME posted \in Seq(Messages), NEW msg \in Messages, posted' = Append(posted, msg)
  PROVE  /\ posted' \in Seq(Messages)
         /\ \A i \in DOMAIN posted' :
              \/ i \in DOMAIN posted /\ posted'[i] = posted[i]
              \/ i = Len(posted) + 1 /\ i \notin DOMAIN posted /\ posted'[i] = msg
         /\ \A i \in DOMAIN posted : i \in DOMAIN posted' /\ posted'[i] = posted[i]
BY AppendProperties

------------------------------------------------------------------------------
(* The steps.                                                              *)

LEMMA InitInv == Init => IInv
<1> SUFFICES ASSUME Init PROVE IInv
  OBVIOUS
<1> USE DEF Init
<1>1. posted = <<>> /\ posted \in Seq(Messages) /\ DOMAIN posted = {}
  OBVIOUS
<1>2. TypeOK
  <2>1. m_Status \in [Controls -> Status] /\ \A c \in Plain : m_Status[c] = "none"
    BY PlainOnes DEF Status
  <2>2. m_OldStatus \in [Controls -> Status \cup {"needrp"}]
    BY DEF Status
  <2>3. shown \in [Controls -> Status \cup {"old", "blank", "invalid", "hidden"}]
    OBVIOUS
  <2>4. page \in 0 .. 3 /\ partly \subseteq OnPage[page] /\ turned \subseteq Controls
    OBVIOUS
  <2>5. mouse \in Controls \cup {"back", "out"} /\ pressed \in Controls \cup {"back", "none"}
    OBVIOUS
  <2>6. iconic \in BOOLEAN /\ closed \in BOOLEAN /\ m_MouseTrack \in BOOLEAN /\ started \in BOOLEAN
    OBVIOUS
  <2> QED BY <1>1, <2>1, <2>2, <2>3, <2>4, <2>5, <2>6, Zenon DEF TypeOK
<1>3. PaintInv
  BY Pages DEF PaintInv, Controls
<1>4. TurnInv
  BY Pages DEF TurnInv
<1>5. DownInv
  BY DEF DownInv
<1>6. QueueInv
  BY <1>1 DEF QueueInv
<1> QED BY <1>2, <1>3, <1>4, <1>5, <1>6 DEF IInv

\* InvalidateRect of some controls on the page that change, or of those that do.
LEMMA BecomeStep ==
  ASSUME IInv, NEW new \in [Controls -> Status], Become(new),
         UNCHANGED <<page, iconic, m_OldStatus>>,
         \A c \in Controls : new[c] # m_Status[c] => c \in OnPage[page] \ Plain
  PROVE  /\ m_Status' = new
         /\ \A c \in Plain : m_Status'[c] = "none"
         /\ shown' \in [Controls -> Status \cup {"old", "blank", "invalid", "hidden"}]
         /\ partly' \subseteq OnPage[page]' /\ turned' \subseteq Controls
         /\ PaintInv' /\ TurnInv'
<1> DEFINE changed == {c \in Controls : new[c] # m_Status[c]}
<1>1. /\ m_Status' = new
      /\ turned' = turned \cup changed \cup Touched(changed)
      /\ InvalidateRect(shown, changed)
  BY DEF Become
<1>2. page \in 0 .. 3 /\ OnPage[page] \subseteq Controls
  BY Pages DEF IInv, TypeOK
<1>3. changed \subseteq OnPage[page] \ Plain
  OBVIOUS
<1>4. Touched(changed) \subseteq OnPage[page] \ {"info"}
  BY TouchedPart
<1> HIDE DEF changed
<1>5. CASE iconic
  <2>1. shown' = [c \in Controls |-> shown[c]] /\ partly' = {c \in partly : shown'[c] # "invalid"}
    BY <1>1, <1>5 DEF InvalidateRect
  <2>2. shown' = shown
    BY <2>1 DEF IInv, TypeOK
  <2>3. \A c \in Plain : m_Status'[c] = "none"
    BY <1>1, <1>3, PlainOnes DEF IInv, TypeOK, changed
  <2>4. PaintInv'
    BY <1>1, <1>2, <1>5, <2>1, <2>2 DEF IInv, PaintInv
  <2>5. TurnInv'
    BY <1>1, <1>2, <1>3, <1>5, <2>1, <2>2 DEF IInv, TurnInv, changed
  <2>6. turned' \subseteq Controls /\ partly' \subseteq OnPage[page]'
    BY <1>1, <1>2, <1>3, <1>4, <2>1 DEF IInv, TypeOK
  <2> QED BY <1>1, <2>2, <2>3, <2>4, <2>5, <2>6 DEF IInv, TypeOK
<1>6. CASE ~iconic
  <2>1. /\ shown' = [c \in Controls |-> IF c \in changed THEN "invalid" ELSE shown[c]]
        /\ partly' = {c \in partly \cup Touched(changed) : shown'[c] # "invalid"}
    BY <1>1, <1>3, <1>6 DEF InvalidateRect
  <2>2. shown' \in [Controls -> Status \cup {"old", "blank", "invalid", "hidden"}]
    BY <2>1 DEF IInv, TypeOK
  <2>3. \A c \in Plain : m_Status'[c] = "none"
    BY <1>1, <1>3, PlainOnes DEF IInv, TypeOK, changed
  <2>4. turned' \subseteq Controls /\ partly' \subseteq OnPage[page]'
    BY <1>1, <1>2, <1>3, <1>4, <2>1 DEF IInv, TypeOK
  <2>5. PaintInv'
    <3>1. "info" \in Controls /\ "info" \notin changed
      BY <1>3, PlainOnes
    <3>2. \A c \in Controls \ changed : m_Status'[c] = m_Status[c] /\ shown'[c] = shown[c]
      BY <1>1, <2>1 DEF changed
    <3>3. \A c \in changed : shown'[c] = "invalid" /\ c \in OnPage[page] /\ c \in Controls
      BY <1>2, <1>3, <2>1
    <3>4. \A c \in Controls : shown'[c] = "hidden" <=> c \notin OnPage[page] \/ iconic
      BY <1>6, <3>2, <3>3 DEF IInv, PaintInv
    <3>5. \A c \in Controls \ {"info"} : shown'[c] \in {m_Status'[c], "blank", "invalid", "hidden"}
      BY <3>2, <3>3 DEF IInv, PaintInv
    <3>6. shown'["info"] = shown["info"] /\ "info" \notin partly'
      BY <1>4, <2>1, <3>1, <3>2 DEF IInv, PaintInv
    <3>7. \A c \in partly' : shown'[c] \notin {"invalid", "hidden"}
      BY <1>2, <1>6, <2>1, <2>4, <3>4
    <3> QED BY <3>4, <3>5, <3>6, <3>7 DEF IInv, PaintInv
  <2>6. TurnInv'
    <3> SUFFICES ASSUME NEW c \in OnPage[page], c \notin turned',
                        shown'[c] = "invalid" \/ c \in partly'
                 PROVE  m_OldStatus[c] # m_Status'[c]
      BY DEF TurnInv
    <3>1. c \in Controls /\ c \notin changed /\ c \notin Touched(changed) /\ c \notin turned
      BY <1>1, <1>2
    <3>2. m_Status'[c] = m_Status[c] /\ shown'[c] = shown[c] /\ (c \in partly' => c \in partly)
      BY <1>1, <2>1, <3>1 DEF changed
    <3> QED BY <3>1, <3>2 DEF IInv, TurnInv
  <2> QED BY <1>1, <2>2, <2>3, <2>4, <2>5, <2>6
<1> QED BY <1>5, <1>6

\* What the window shows of page p, all of it yet to be painted.
LEMMA ShowPageStep ==
  ASSUME IInv, NEW p \in 0 .. 3, ShowPage(p), UNCHANGED <<iconic, m_Status>>
  PROVE  /\ m_OldStatus' \in [Controls -> Status \cup {"needrp"}]
         /\ shown' \in [Controls -> Status \cup {"old", "blank", "invalid", "hidden"}]
         /\ page' = p /\ partly' = {} /\ turned' = {}
         /\ mouse' \in Controls \cup {"back", "out"}
         /\ mouse \in {"close", "min"} => mouse' = mouse
         /\ PaintInv' /\ TurnInv'
<1> USE DEF ShowPage
<1>1. \A c \in Controls : m_OldStatus'[c] = IF c \in OnPage[p] THEN "needrp" ELSE m_OldStatus[c]
  BY DEF ReqRePaint
<1>2. m_OldStatus' \in [Controls -> Status \cup {"needrp"}]
  BY DEF ReqRePaint, IInv, TypeOK
<1>3. \A c \in Controls : shown'[c] = IF ~iconic /\ c \in OnPage[p] THEN "invalid" ELSE "hidden"
  BY DEF Whole, Minimised
<1>4. shown' \in [Controls -> Status \cup {"old", "blank", "invalid", "hidden"}]
  BY DEF Whole, Minimised
<1>5. OnPage[p] \subseteq Controls /\ "info" \in Controls
  BY Pages, PlainOnes
<1>6. PaintInv'
  BY <1>1, <1>3, <1>5 DEF PaintInv
<1>7. TurnInv'
  BY <1>1, <1>5, Statuses DEF TurnInv, IInv, TypeOK
<1>8. mouse' \in Controls \cup {"back", "out"} /\ (mouse \in {"close", "min"} => mouse' = mouse)
  BY <1>5 DEF IInv, TypeOK
<1> QED BY <1>2, <1>4, <1>6, <1>7, <1>8

LEMMA SetTextStep ==
  ASSUME IInv, SetText, UNCHANGED <<windowVars, m_Status>>
  PROVE  /\ m_OldStatus' \in [Controls -> Status \cup {"needrp"}]
         /\ shown' \in [Controls -> Status \cup {"old", "blank", "invalid", "hidden"}]
         /\ partly' \subseteq OnPage[page]' /\ turned' \subseteq Controls
         /\ PaintInv' /\ TurnInv'
<1> USE DEF SetText, windowVars
<1>1. "info" \in Controls /\ page \in 0 .. 3 /\ OnPage[page] \subseteq Controls
  BY Pages, PlainOnes DEF IInv, TypeOK
<1>2. Touched({"info"}) \subseteq OnPage[page] \ {"info"}
  BY TouchedPart
<1>3. /\ m_OldStatus' \in [Controls -> Status \cup {"needrp"}]
      /\ m_OldStatus'["info"] = "needrp"
      /\ \A c \in Controls \ {"info"} : m_OldStatus'[c] = m_OldStatus[c]
  BY <1>1 DEF IInv, TypeOK
<1>4. /\ shown' \in [Controls -> Status \cup {"old", "blank", "invalid", "hidden"}]
      /\ \A c \in Controls \ {"info"} : shown'[c] = shown[c]
      /\ shown'["info"] = IF iconic \/ "info" \notin OnPage[page] THEN "hidden" ELSE "invalid"
  <2>1. /\ Outdated \in [Controls -> Status \cup {"old", "blank", "invalid", "hidden"}]
        /\ \A c \in Controls \ {"info"} : Outdated[c] = shown[c]
        /\ shown["info"] = "hidden" => Outdated["info"] = "hidden"
    BY <1>1 DEF Outdated, IInv, TypeOK
  <2>2. \A c \in Controls :
          shown'[c] = IF ~iconic /\ c \in OnPage[page] /\ c = "info" THEN "invalid" ELSE Outdated[c]
    BY DEF InvalidateRect
  <2>3. shown' \in [Controls -> Status \cup {"old", "blank", "invalid", "hidden"}]
    BY <2>1 DEF InvalidateRect
  <2> QED BY <1>1, <2>1, <2>2, <2>3 DEF IInv, PaintInv
<1>5. /\ partly' \subseteq partly \cup Touched({"info"})
      /\ iconic => partly' \subseteq partly
      /\ \A c \in partly' : shown'[c] # "invalid"
  BY DEF InvalidateRect
<1>6. partly' \subseteq OnPage[page]' /\ turned' \subseteq Controls
  BY <1>1, <1>2, <1>5 DEF IInv, TypeOK
<1>7. PaintInv'
  <2>1. \A c \in Controls : shown'[c] = "hidden" <=> c \notin OnPage[page] \/ iconic
    BY <1>1, <1>4 DEF IInv, PaintInv
  <2>2. \A c \in Controls \ {"info"} : shown'[c] \in {m_Status[c], "blank", "invalid", "hidden"}
    BY <1>4 DEF IInv, PaintInv
  <2>3. "info" \notin partly'
    BY <1>2, <1>5 DEF IInv, PaintInv
  <2>4. iconic => partly = {}
    BY <1>1 DEF IInv, PaintInv, TypeOK
  <2>5. \A c \in partly' : shown'[c] \notin {"invalid", "hidden"}
    BY <1>1, <1>5, <1>6, <2>1, <2>4
  <2> QED BY <1>3, <1>4, <2>1, <2>2, <2>3, <2>5 DEF PaintInv
<1>8. TurnInv'
  <2> SUFFICES ASSUME NEW c \in OnPage[page], c \notin turned',
                      shown'[c] = "invalid" \/ c \in partly'
               PROVE  m_OldStatus'[c] # m_Status[c]
    BY DEF TurnInv
  <2>1. CASE c = "info"
    BY <1>1, <1>3, <2>1, Statuses DEF IInv, TypeOK
  <2>2. CASE c # "info"
    <3>1. c \in Controls \ {"info"} /\ c \notin turned /\ c \notin Touched({"info"})
      BY <1>1, <2>2
    <3> QED BY <1>3, <1>4, <1>5, <3>1 DEF IInv, TurnInv
  <2> QED BY <2>1, <2>2
<1> QED BY <1>3, <1>4, <1>6, <1>7, <1>8

\* QueueInv says nothing of the mouse.
LEMMA SameQueue ==
  ASSUME IInv, UNCHANGED <<posted, page, started>>
  PROVE  QueueInv' /\ (ClickWaits' <=> ClickWaits)
BY DEF IInv, QueueInv, ClickWaits

LEMMA MoveStep ==
  ASSUME IInv, NEW pt \in Spots[page], OnMouseMove(pt)
  PROVE  IInv'
<1> DEFINE new == [c \in Controls |-> IF c \notin OnPage[page] \ Plain THEN m_Status[c]
                                    ELSE IF PtInCtrl(c, pt) THEN OnHover(c) ELSE OnLeave(c)]
<1>1. /\ CanInput /\ mouse' = pt /\ m_MouseTrack' = FALSE /\ Become(new)
      /\ pressed' = IF pt = pressed THEN pressed ELSE "none"
      /\ UNCHANGED <<windowVars, m_OldStatus, posted, started>>
  BY DEF OnMouseMove
<1>2. new \in [Controls -> Status]
  BY DEF Status, OnHover, OnLeave, IInv, TypeOK
<1>3. \A c \in Controls : new[c] = IF c \notin OnPage[page] \ Plain \/ (c = pt /\ m_Status[c] = "down")
                                   THEN m_Status[c]
                                   ELSE IF c = pt THEN "hover" ELSE "none"
  BY DEF PtInCtrl, OnHover, OnLeave
<1> HIDE DEF new
<1>4. \A c \in Controls :
        /\ new[c] = "down" => m_Status[c] = "down" /\ (c = pt \/ c \notin OnPage[page] \ Plain)
        /\ new[c] # m_Status[c] => c \in OnPage[page] \ Plain
  BY <1>3
<1>5. /\ m_Status' = new
      /\ \A c \in Plain : m_Status'[c] = "none"
      /\ shown' \in [Controls -> Status \cup {"old", "blank", "invalid", "hidden"}]
      /\ partly' \subseteq OnPage[page]' /\ turned' \subseteq Controls
      /\ PaintInv' /\ TurnInv'
  BY <1>1, <1>2, <1>4, BecomeStep DEF windowVars
<1>6. pt \in Controls \cup {"back"}
  BY LayoutAssumption DEF IInv, TypeOK
<1>7. TypeOK'
  BY <1>1, <1>2, <1>5, <1>6 DEF TypeOK, IInv, windowVars
<1>8. QueueInv' /\ (ClickWaits' <=> ClickWaits)
  BY <1>1, SameQueue DEF windowVars
<1>9. DownInv'
  BY <1>1, <1>4, <1>5, <1>8 DEF IInv, DownInv, windowVars
<1> QED BY <1>5, <1>7, <1>8, <1>9 DEF IInv

LEMMA LeaveStep ==
  ASSUME IInv, OnMouseLeave
  PROVE  IInv'
<1> DEFINE new == [c \in Controls |-> IF c \in OnPage[page] \ Plain THEN OnLeave(c)
                                                                     ELSE m_Status[c]]
<1>1. /\ mouse' = "out" /\ m_MouseTrack' = TRUE /\ Become(new) /\ pressed' = "none"
      /\ UNCHANGED <<windowVars, m_OldStatus, posted, started>>
  BY DEF OnMouseLeave
<1>2. new \in [Controls -> Status]
  BY DEF Status, OnLeave, IInv, TypeOK
<1>3. \A c \in Controls : new[c] # m_Status[c] => c \in OnPage[page] \ Plain
  OBVIOUS
<1>4. \A c \in Controls : new[c] # "down"
  BY DEF OnLeave, IInv, DownInv
<1> HIDE DEF new
<1>5. /\ m_Status' = new
      /\ \A c \in Plain : m_Status'[c] = "none"
      /\ shown' \in [Controls -> Status \cup {"old", "blank", "invalid", "hidden"}]
      /\ partly' \subseteq OnPage[page]' /\ turned' \subseteq Controls
      /\ PaintInv' /\ TurnInv'
  BY <1>1, <1>2, <1>3, BecomeStep DEF windowVars
<1>6. TypeOK'
  BY <1>1, <1>2, <1>5 DEF TypeOK, IInv, windowVars
<1>7. QueueInv'
  BY <1>1, SameQueue DEF windowVars
<1>8. DownInv'
  BY <1>4, <1>5 DEF DownInv
<1> QED BY <1>5, <1>6, <1>7, <1>8 DEF IInv

LEMMA PressStep ==
  ASSUME IInv, OnLButtonDownMsg
  PROVE  IInv'
<1> DEFINE new == [c \in Controls |-> IF c \notin OnPage[page] \ Plain THEN m_Status[c]
                                    ELSE IF PtInCtrl(c, mouse) THEN OnLButtonDown(c) ELSE OnLeave(c)]
<1>1. /\ CanInput /\ mouse # "out" /\ Become(new) /\ pressed' = mouse
      /\ UNCHANGED <<windowVars, mouse, m_MouseTrack, m_OldStatus, posted, started>>
  BY DEF OnLButtonDownMsg
<1>2. \A c \in Controls : new[c] = IF c \in OnPage[page] \ Plain
                                   THEN IF c = mouse THEN "down" ELSE "none"
                                   ELSE m_Status[c]
  BY DEF PtInCtrl, OnLButtonDown, OnLeave
<1>3. new \in [Controls -> Status]
  BY DEF OnLButtonDown, OnLeave, Status, IInv, TypeOK
<1> HIDE DEF new
<1>4. \A c \in Controls : new[c] # m_Status[c] => c \in OnPage[page] \ Plain
  BY <1>2
<1>5. /\ m_Status' = new
      /\ \A c \in Plain : m_Status'[c] = "none"
      /\ shown' \in [Controls -> Status \cup {"old", "blank", "invalid", "hidden"}]
      /\ partly' \subseteq OnPage[page]' /\ turned' \subseteq Controls
      /\ PaintInv' /\ TurnInv'
  BY <1>1, <1>3, <1>4, BecomeStep DEF windowVars
<1>6. TypeOK'
  BY <1>1, <1>3, <1>5 DEF TypeOK, IInv, windowVars
<1>7. QueueInv' /\ ~ClickWaits'
  BY <1>1, SameQueue DEF windowVars, CanInput
<1>8. DownInv'
  BY <1>1, <1>2, <1>5, <1>7 DEF IInv, DownInv, windowVars
<1> QED BY <1>5, <1>6, <1>7, <1>8 DEF IInv

LEMMA ReleaseStep ==
  ASSUME IInv, OnLButtonUpMsg
  PROVE  IInv'
<1> DEFINE hit == {c \in OnPage[page] : PtInCtrl(c, mouse)}
           new == [c \in Controls |-> IF c \in hit THEN OnLButtonUp(c) ELSE m_Status[c]]
<1>1. /\ CanInput /\ mouse # "out" /\ Become(new) /\ pressed' = "none"
      /\ posted' = IF \E c \in hit : m_Status[c] = "down" THEN Append(posted, mouse) ELSE posted
      /\ UNCHANGED <<windowVars, mouse, m_MouseTrack, m_OldStatus, started>>
  BY DEF OnLButtonUpMsg
<1>2. \A c \in hit : c = mouse /\ c \in OnPage[page] \ Plain /\ c \in Controls
  BY Pages DEF PtInCtrl, IInv, TypeOK
<1>3. new \in [Controls -> Status]
  BY DEF OnLButtonUp, Status, IInv, TypeOK
<1>4. \A c \in Controls : new[c] # m_Status[c] => c \in OnPage[page] \ Plain
  BY <1>2
<1>5. \A c \in Controls : new[c] # "down"
  BY DEF OnLButtonUp, PtInCtrl, IInv, DownInv
<1> HIDE DEF new
<1>6. /\ m_Status' = new
      /\ \A c \in Plain : m_Status'[c] = "none"
      /\ shown' \in [Controls -> Status \cup {"old", "blank", "invalid", "hidden"}]
      /\ partly' \subseteq OnPage[page]' /\ turned' \subseteq Controls
      /\ PaintInv' /\ TurnInv'
  BY <1>1, <1>3, <1>4, BecomeStep DEF windowVars
<1>7. DownInv'
  BY <1>5, <1>6 DEF DownInv
<1>8. CASE posted' = posted
  <2>1. TypeOK'
    BY <1>1, <1>3, <1>6, <1>8 DEF TypeOK, IInv, windowVars
  <2>2. QueueInv'
    BY <1>1, <1>8, SameQueue DEF windowVars
  <2> QED BY <1>6, <1>7, <2>1, <2>2 DEF IInv
<1>9. CASE posted' = Append(posted, mouse) /\ \E c \in hit : m_Status[c] = "down"
  <2>1. mouse \in Controls /\ mouse \in OnPage[page] \ Plain /\ mouse \in Messages /\ mouse # "initOk"
    BY <1>2, <1>9 DEF Messages, Controls
  <2> HIDE DEF hit
  <2>2. posted \in Seq(Messages)
    BY DEF IInv, TypeOK
  <2>3. /\ posted' \in Seq(Messages)
        /\ \A i \in DOMAIN posted' :
             \/ i \in DOMAIN posted /\ posted'[i] = posted[i]
             \/ i = Len(posted) + 1 /\ i \notin DOMAIN posted /\ posted'[i] = mouse
    BY <1>9, <2>1, <2>2, AppendOf
  <2>4. TypeOK'
    BY <1>1, <1>3, <1>6, <2>3 DEF TypeOK, IInv, windowVars
  <2>5. \A i \in DOMAIN posted : posted[i] \notin Controls
    BY <1>1 DEF CanInput, ClickWaits
  <2>6. QueueInv'
    <3>1. page' = page /\ started' = started
      BY <1>1 DEF windowVars
    <3>2. \A i \in DOMAIN posted' : posted'[i] \in Controls =>
            posted'[i] = mouse /\ i = Len(posted) + 1
      BY <2>3, <2>5
    <3>3. \A i \in DOMAIN posted' : posted'[i] = "initOk" => i \in DOMAIN posted /\ posted[i] = "initOk"
      BY <2>1, <2>3
    <3> QED BY <2>1, <3>1, <3>2, <3>3 DEF IInv, QueueInv
  <2> QED BY <1>6, <1>7, <2>4, <2>6 DEF IInv
<1> QED BY <1>1, <1>8, <1>9

\* What Tail leaves: of clicks nothing if the first was one, of initOk likewise.
LEMMA TailStep ==
  ASSUME IInv, posted # <<>>, posted' = Tail(posted), UNCHANGED started
  PROVE  /\ posted' \in Seq(Messages)
         /\ Head(posted) = posted[1] /\ 1 \in DOMAIN posted
         /\ \A i \in DOMAIN posted' : i + 1 \in DOMAIN posted /\ posted'[i] = posted[i + 1]
         /\ posted[1] \in Controls => \A i \in DOMAIN posted' : posted'[i] \notin Controls
         /\ posted[1] = "initOk" => \A i \in DOMAIN posted' : posted'[i] # "initOk"
         /\ ClickWaits' => ClickWaits
         /\ page' = page => QueueInv'
<1>1. posted \in Seq(Messages)
  BY DEF IInv, TypeOK
<1>2. /\ posted' \in Seq(Messages)
      /\ \A i \in DOMAIN posted' : i + 1 \in DOMAIN posted /\ posted'[i] = posted[i + 1]
      /\ Head(posted) = posted[1] /\ 1 \in DOMAIN posted
  BY <1>1, TailOf
<1>3. \A i \in DOMAIN posted' : i \in Nat /\ i + 1 # 1
  BY <1>2
<1>4. \A i \in DOMAIN posted', j \in DOMAIN posted' : i + 1 = j + 1 => i = j
  BY <1>3
<1>5. posted[1] \in Controls => \A i \in DOMAIN posted' : posted'[i] \notin Controls
  BY <1>2, <1>3 DEF IInv, QueueInv
<1>6. posted[1] = "initOk" => \A i \in DOMAIN posted' : posted'[i] # "initOk"
  BY <1>2, <1>3 DEF IInv, QueueInv
<1>7. ClickWaits' => ClickWaits
  BY <1>2 DEF ClickWaits
<1>8. ASSUME page' = page PROVE QueueInv'
  <2>1. \A i \in DOMAIN posted' : posted'[i] \in Controls =>
          /\ posted'[i] \in OnPage[page] \ Plain
          /\ \A j \in DOMAIN posted' : posted'[j] \in Controls => i = j
    BY <1>2, <1>4 DEF IInv, QueueInv
  <2>2. \A i \in DOMAIN posted' : posted'[i] = "initOk" =>
          /\ started /\ page = 0
          /\ \A j \in DOMAIN posted' : posted'[j] = "initOk" => i = j
    BY <1>2, <1>4 DEF IInv, QueueInv
  <2> QED BY <1>8, <2>1, <2>2 DEF IInv, QueueInv
<1> QED BY <1>2, <1>5, <1>6, <1>7, <1>8

\* Messages that are no clicks disturb nobody.
LEMMA PostStep ==
  ASSUME IInv, NEW msg \in {"initOk", "text"}, posted' = Append(posted, msg), page' = page,
         msg = "initOk" => ~started, started' \in {started, TRUE},
         msg = "initOk" => started'
  PROVE  posted' \in Seq(Messages) /\ QueueInv' /\ (ClickWaits' => ClickWaits)
<1>1. posted \in Seq(Messages) /\ msg \in Messages /\ msg \notin Controls
  BY DEF IInv, TypeOK, Messages, Controls
<1>2. /\ posted' \in Seq(Messages)
      /\ \A i \in DOMAIN posted' :
           \/ i \in DOMAIN posted /\ posted'[i] = posted[i]
           \/ i = Len(posted) + 1 /\ i \notin DOMAIN posted /\ posted'[i] = msg
  BY <1>1, AppendOf
<1>3. \A i \in DOMAIN posted' : posted'[i] \in Controls =>
        i \in DOMAIN posted /\ posted'[i] = posted[i]
  BY <1>1, <1>2
<1>4. ClickWaits' => ClickWaits
  BY <1>3 DEF ClickWaits
<1>5. \A i \in DOMAIN posted' : posted'[i] = "initOk" =>
        /\ started' /\ page = 0
        /\ \A j \in DOMAIN posted' : posted'[j] = "initOk" => i = j
  <2>1. CASE msg = "initOk"
    <3>1. ~started /\ started' /\ page = 0
      BY <2>1 DEF IInv, QueueInv
    <3>2. \A i \in DOMAIN posted : posted[i] # "initOk"
      BY <3>1 DEF IInv, QueueInv
    <3>3. \A i \in DOMAIN posted' : posted'[i] = "initOk" => i = Len(posted) + 1
      BY <1>2, <3>2
    <3> QED BY <3>1, <3>3
  <2>2. CASE msg = "text"
    <3>1. started => started'
      BY Zenon
    <3>2. \A i \in DOMAIN posted' : posted'[i] = "initOk" => i \in DOMAIN posted /\ posted[i] = "initOk"
      BY <1>2, <2>2
    <3> QED BY <3>1, <3>2 DEF IInv, QueueInv
  <2> QED BY <2>1, <2>2
<1>6. QueueInv'
  BY <1>3, <1>5 DEF IInv, QueueInv
<1> QED BY <1>2, <1>4, <1>6

LEMMA ThreadPostsStep ==
  ASSUME IInv, ThreadPosts
  PROVE  IInv'
<1>1. /\ UNCHANGED <<windowVars, mouseVars, m_Status, paintVars, turned>>
      /\ \E msg \in {"initOk", "text"} :
           /\ posted' = Append(posted, msg)
           /\ \/ started /\ msg = "text" /\ started' = started
              \/ ~started /\ started' = TRUE
  BY DEF ThreadPosts
<1>2. started' \in BOOLEAN
  BY <1>1 DEF IInv, TypeOK
<1>3. posted' \in Seq(Messages) /\ QueueInv' /\ (ClickWaits' => ClickWaits)
  BY <1>1, PostStep DEF windowVars
<1>4. TypeOK'
  BY <1>1, <1>2, <1>3 DEF IInv, TypeOK, windowVars, mouseVars, paintVars
<1>5. PaintInv' /\ TurnInv'
  BY <1>1 DEF IInv, PaintInv, TurnInv, windowVars, paintVars
<1>6. DownInv'
  BY <1>1, <1>3 DEF IInv, DownInv, windowVars, mouseVars
<1> QED BY <1>3, <1>4, <1>5, <1>6 DEF IInv

LEMMA TextStep ==
  ASSUME IInv, OnText
  PROVE  IInv'
<1>1. /\ posted # <<>> /\ posted' = Tail(posted) /\ SetText
      /\ UNCHANGED <<windowVars, mouseVars, m_Status, started>>
  BY DEF OnText, Receive
<1>2. /\ m_OldStatus' \in [Controls -> Status \cup {"needrp"}]
      /\ shown' \in [Controls -> Status \cup {"old", "blank", "invalid", "hidden"}]
      /\ partly' \subseteq OnPage[page]' /\ turned' \subseteq Controls
      /\ PaintInv' /\ TurnInv'
  BY <1>1, SetTextStep
<1>3. posted' \in Seq(Messages) /\ (ClickWaits' => ClickWaits) /\ QueueInv'
  BY <1>1, TailStep DEF windowVars
<1>4. TypeOK'
  BY <1>1, <1>2, <1>3 DEF IInv, TypeOK, windowVars, mouseVars
<1>5. DownInv'
  BY <1>1, <1>3 DEF IInv, DownInv, windowVars, mouseVars
<1> QED BY <1>2, <1>3, <1>4, <1>5 DEF IInv

\* A pressed control, or a click that waits, is on page 1 as on page 0.
LEMMA InitOkStep ==
  ASSUME IInv, OnInitOk
  PROVE  IInv'
<1>1. /\ posted # <<>> /\ Head(posted) = "initOk" /\ posted' = Tail(posted) /\ ShowPage(1)
      /\ UNCHANGED <<iconic, closed, m_MouseTrack, pressed, m_Status, started>>
  BY DEF OnInitOk, Receive
<1>2. /\ m_OldStatus' \in [Controls -> Status \cup {"needrp"}]
      /\ shown' \in [Controls -> Status \cup {"old", "blank", "invalid", "hidden"}]
      /\ page' = 1 /\ partly' = {} /\ turned' = {}
      /\ mouse' \in Controls \cup {"back", "out"}
      /\ mouse \in {"close", "min"} => mouse' = mouse
      /\ PaintInv' /\ TurnInv'
  BY <1>1, ShowPageStep
<1>3. /\ posted' \in Seq(Messages) /\ (ClickWaits' => ClickWaits)
      /\ posted[1] = "initOk" /\ 1 \in DOMAIN posted
      /\ \A i \in DOMAIN posted' : i + 1 \in DOMAIN posted /\ posted'[i] = posted[i + 1]
      /\ \A i \in DOMAIN posted' : posted'[i] # "initOk"
  BY <1>1, TailStep
<1>4. started /\ page = 0
  BY <1>3 DEF IInv, QueueInv
<1>5. OnPage[0] \ Plain \subseteq {"close", "min"} /\ {"close", "min"} \subseteq OnPage[1] \ Plain
  BY Pages
<1>6. TypeOK'
  BY <1>1, <1>2, <1>3 DEF IInv, TypeOK
<1>7. DownInv'
  BY <1>1, <1>2, <1>3, <1>4, <1>5 DEF IInv, DownInv
<1>8. \A i \in DOMAIN posted', j \in DOMAIN posted' : i + 1 = j + 1 => i = j
  BY <1>3
<1>9. \A i \in DOMAIN posted' : posted'[i] \in Controls =>
        /\ posted'[i] \in OnPage[1] \ Plain
        /\ \A j \in DOMAIN posted' : posted'[j] \in Controls => i = j
  BY <1>3, <1>4, <1>5, <1>8 DEF IInv, QueueInv
<1>10. QueueInv'
  BY <1>1, <1>2, <1>3, <1>4, <1>9 DEF QueueInv
<1> QED BY <1>2, <1>6, <1>7, <1>10 DEF IInv

\* A click that shows another page was the only one, on a page that initOk has left.
LEMMA ClickShowsStep ==
  ASSUME IInv, NEW c \in {"ulogin", "guest", "next", "last"}, NEW p \in 0 .. 3,
         Receive(c), posted' = Tail(posted), ShowPage(p),
         UNCHANGED <<iconic, closed, m_MouseTrack, pressed>>
  PROVE  IInv'
<1>1. posted # <<>> /\ Head(posted) = c /\ UNCHANGED <<m_Status, started>>
  BY DEF Receive
<1>2. /\ m_OldStatus' \in [Controls -> Status \cup {"needrp"}]
      /\ shown' \in [Controls -> Status \cup {"old", "blank", "invalid", "hidden"}]
      /\ page' = p /\ partly' = {} /\ turned' = {}
      /\ mouse' \in Controls \cup {"back", "out"}
      /\ PaintInv' /\ TurnInv'
  BY <1>1, ShowPageStep
<1>3. c \in Controls /\ c \notin {"close", "min"}
  BY DEF Controls
<1>4. /\ posted' \in Seq(Messages)
      /\ posted[1] = c /\ 1 \in DOMAIN posted
      /\ \A i \in DOMAIN posted' : i + 1 \in DOMAIN posted /\ posted'[i] = posted[i + 1]
      /\ \A i \in DOMAIN posted' : posted'[i] \notin Controls
  BY <1>1, <1>3, TailStep
<1>5. ClickWaits
  BY <1>3, <1>4 DEF ClickWaits
<1>6. page # 0
  <2>1. c \in OnPage[page] \ Plain
    BY <1>3, <1>4 DEF IInv, QueueInv
  <2> QED BY <1>3, <2>1, Pages
<1>7. TypeOK'
  BY <1>1, <1>2, <1>4 DEF IInv, TypeOK
<1>8. DownInv'
  BY <1>1, <1>5 DEF IInv, DownInv
<1>9. started /\ \A i \in DOMAIN posted' : posted'[i] # "initOk"
  BY <1>4, <1>6 DEF IInv, QueueInv
<1>10. QueueInv'
  BY <1>1, <1>4, <1>9 DEF QueueInv
<1> QED BY <1>2, <1>7, <1>8, <1>10 DEF IInv

LEMMA MinStep ==
  ASSUME IInv, OnClickMin
  PROVE  IInv'
<1>1. /\ posted # <<>> /\ Head(posted) = "min" /\ posted' = Tail(posted)
      /\ iconic' = TRUE /\ mouse' = "out" /\ pressed' = "none"
      /\ m_OldStatus' = ReqRePaint(page) /\ shown' = Minimised /\ partly' = {} /\ turned' = {}
      /\ UNCHANGED <<page, closed, m_MouseTrack, m_Status, started>>
  BY DEF OnClickMin, Receive
<1>2. "min" \in Controls /\ "info" \in Controls
  BY DEF Controls
<1>3. /\ posted' \in Seq(Messages) /\ QueueInv'
      /\ posted[1] = "min" /\ 1 \in DOMAIN posted
  BY <1>1, TailStep
<1>4. \A c \in Controls : m_Status[c] # "down"
  BY <1>2, <1>3 DEF ClickWaits, IInv, DownInv
<1>5. m_OldStatus' \in [Controls -> Status \cup {"needrp"}]
  BY <1>1 DEF ReqRePaint, IInv, TypeOK
<1>6. /\ shown' \in [Controls -> Status \cup {"old", "blank", "invalid", "hidden"}]
      /\ \A c \in Controls : shown'[c] = "hidden"
  BY <1>1 DEF Minimised
<1>7. TypeOK'
  BY <1>1, <1>3, <1>5, <1>6 DEF IInv, TypeOK
<1>8. PaintInv'
  BY <1>1, <1>2, <1>6 DEF PaintInv
<1>9. TurnInv'
  <2>1. page \in 0 .. 3 /\ OnPage[page] \subseteq Controls
    BY Pages DEF IInv, TypeOK
  <2> QED BY <1>1, <1>6, <2>1 DEF TurnInv
<1>10. DownInv'
  BY <1>1, <1>4 DEF DownInv
<1> QED BY <1>3, <1>7, <1>8, <1>9, <1>10 DEF IInv

LEMMA CloseStep ==
  ASSUME IInv, OnClickClose \/ OnClose
  PROVE  IInv'
<1>1. /\ posted # <<>> /\ (posted' = Append(Tail(posted), "wmClose") \/ posted' = <<>>)
      /\ closed' \in {closed, TRUE}
      /\ UNCHANGED <<page, iconic, mouseVars, paintVars, turned, m_Status, started>>
  BY DEF OnClickClose, OnClose, Receive, windowVars
<1>2. posted \in Seq(Messages)
  BY DEF IInv, TypeOK
<1>3. "wmClose" \in Messages \ Controls /\ "wmClose" # "initOk"
  BY DEF Messages, Controls
<1>4. /\ posted' \in Seq(Messages)
      /\ \A i \in DOMAIN posted' :
           \/ i \in Nat /\ i + 1 \in DOMAIN posted /\ posted'[i] = posted[i + 1]
           \/ posted'[i] = "wmClose"
  <2>1. CASE posted' = <<>>
    BY <2>1
  <2>2. CASE posted' = Append(Tail(posted), "wmClose")
    <3>1. /\ Tail(posted) \in Seq(Messages)
          /\ \A i \in DOMAIN Tail(posted) : i \in Nat /\ i + 1 \in DOMAIN posted /\ Tail(posted)[i] = posted[i + 1]
      BY <1>1, <1>2, HeadTailProperties
    <3> QED BY <1>3, <2>2, <3>1, AppendProperties
  <2> QED BY <1>1, <2>1, <2>2
<1>5. \A i \in DOMAIN posted', j \in DOMAIN posted' : i \in Nat /\ j \in Nat /\ (i + 1 = j + 1 => i = j)
  BY <1>4
<1>6. ClickWaits' => ClickWaits
  BY <1>3, <1>4 DEF ClickWaits
<1>7. \A i \in DOMAIN posted' : posted'[i] \in Controls =>
        /\ posted'[i] \in OnPage[page] \ Plain
        /\ \A j \in DOMAIN posted' : posted'[j] \in Controls => i = j
  BY <1>3, <1>4, <1>5 DEF IInv, QueueInv
<1>8. \A i \in DOMAIN posted' : posted'[i] = "initOk" =>
        /\ started /\ page = 0
        /\ \A j \in DOMAIN posted' : posted'[j] = "initOk" => i = j
  BY <1>3, <1>4, <1>5 DEF IInv, QueueInv
<1>9. QueueInv'
  BY <1>1, <1>7, <1>8 DEF IInv, QueueInv
<1>10. closed' \in BOOLEAN
  BY <1>1 DEF IInv, TypeOK
<1>11. TypeOK'
  BY <1>1, <1>4, <1>10 DEF IInv, TypeOK, mouseVars, paintVars
<1>12. PaintInv' /\ TurnInv'
  BY <1>1 DEF IInv, PaintInv, TurnInv, paintVars
<1>13. DownInv'
  BY <1>1, <1>6 DEF IInv, DownInv, mouseVars
<1> QED BY <1>9, <1>11, <1>12, <1>13 DEF IInv

LEMMA ActivateStep ==
  ASSUME IInv, OnActivate
  PROVE  IInv'
<1>1. /\ iconic' = FALSE /\ m_OldStatus' = ReqRePaint(page) /\ turned' = {}
      /\ shown' = IF iconic THEN Whole(page) ELSE shown
      /\ partly' = IF iconic THEN {} ELSE partly
      /\ UNCHANGED <<page, closed, mouseVars, m_Status, posted, started>>
  BY DEF OnActivate
<1>2. page \in 0 .. 3 /\ OnPage[page] \subseteq Controls /\ "info" \in Controls
  BY Pages, PlainOnes DEF IInv, TypeOK
<1>3. m_OldStatus' \in [Controls -> Status \cup {"needrp"}]
  BY <1>1 DEF ReqRePaint, IInv, TypeOK
<1>4. \A c \in OnPage[page] : m_OldStatus'[c] = "needrp"
  BY <1>1, <1>2 DEF ReqRePaint
<1>5. /\ shown' \in [Controls -> Status \cup {"old", "blank", "invalid", "hidden"}]
      /\ \A c \in Controls : shown'[c] = "hidden" <=> c \notin OnPage[page]
      /\ \A c \in Controls : shown'[c] \in {shown[c], "invalid", "hidden"}
      /\ \A c \in partly' : shown'[c] \notin {"invalid", "hidden"}
      /\ "info" \notin partly' /\ partly' \subseteq OnPage[page]
  BY <1>1, <1>2 DEF Whole, IInv, TypeOK, PaintInv
<1>6. TypeOK'
  BY <1>1, <1>3, <1>5 DEF IInv, TypeOK, mouseVars
<1>7. PaintInv'
  BY <1>1, <1>2, <1>4, <1>5 DEF IInv, PaintInv
<1>8. TurnInv'
  BY <1>1, <1>2, <1>4, Statuses DEF TurnInv, IInv, TypeOK
<1>9. DownInv' /\ QueueInv'
  BY <1>1, SameQueue DEF IInv, DownInv, mouseVars
<1> QED BY <1>6, <1>7, <1>8, <1>9 DEF IInv

\* Nothing waits any more.
LEMMA PaintStep ==
  ASSUME IInv, OnPaint
  PROVE  /\ IInv'
         /\ \A c \in OnPage[page] \ turned : shown'[c] = "blank" => shown[c] = "blank"
<1> DEFINE needPaint == {c \in OnPage[page] : m_OldStatus[c] # m_Status[c]}
           invalid == {c \in Controls : shown[c] = "invalid"}
<1>1. /\ ~iconic
      /\ m_OldStatus' = [c \in Controls |-> IF c \in needPaint THEN m_Status[c] ELSE m_OldStatus[c]]
      /\ shown' = [c \in Controls |->
           CASE c \in (invalid \cup partly) \ needPaint -> "blank"
             [] c \in invalid \cap needPaint -> m_Status[c]
             [] c \in partly \cap needPaint /\ shown[c] \notin {m_Status[c], "blank"} -> "old"
             [] OTHER -> shown[c]]
      /\ partly' = {} /\ turned' = {}
      /\ UNCHANGED <<windowVars, mouseVars, m_Status, posted, started>>
  BY DEF OnPaint
<1>2. page \in 0 .. 3 /\ OnPage[page] \subseteq Controls /\ "info" \in Controls /\ "info" \in Plain
  BY Pages, PlainOnes DEF IInv, TypeOK
<1>3. m_OldStatus' \in [Controls -> Status \cup {"needrp"}]
  BY <1>1 DEF IInv, TypeOK
<1> HIDE DEF needPaint
<1>4. ASSUME NEW c \in Controls
      PROVE  shown'[c] = IF c \in (invalid \cup partly) \ needPaint THEN "blank"
                         ELSE IF c \in invalid THEN m_Status[c] ELSE shown[c]
  <2>1. c \in partly => c # "info" /\ c \notin invalid /\ shown[c] # "hidden"
    BY DEF IInv, PaintInv
  <2>2. c \in partly => shown[c] \in {m_Status[c], "blank"}
    BY <2>1 DEF IInv, PaintInv
  <2>3. CASE c \in (invalid \cup partly) \ needPaint
    BY <1>1, <2>1, <2>3
  <2>4. CASE c \in invalid \cap needPaint
    BY <1>1, <2>1, <2>4
  <2>5. CASE c \notin invalid /\ (c \in partly => c \in needPaint)
    BY <1>1, <2>2, <2>5
  <2> QED BY <2>3, <2>4, <2>5
<1>5. \A c \in Controls : m_Status[c] \in Status
  BY DEF IInv, TypeOK
<1>6. \A c \in Controls : shown'[c] \in Status \cup {"old", "blank", "invalid", "hidden"}
  BY <1>4, <1>5 DEF IInv, TypeOK
<1>7. TypeOK'
  <2>1. shown' \in [Controls -> Status \cup {"old", "blank", "invalid", "hidden"}]
    BY <1>1, <1>6
  <2> QED BY <1>1, <1>3, <2>1 DEF IInv, TypeOK, windowVars, mouseVars
<1>8. PaintInv'
  <2>1. \A c \in Controls : shown'[c] = "hidden" <=> shown[c] = "hidden"
    BY <1>4, <1>5, Statuses DEF IInv, PaintInv
  <2>2. \A c \in Controls \ {"info"} : shown'[c] \in {m_Status[c], "blank", "invalid", "hidden"}
    BY <1>4 DEF IInv, PaintInv
  <2>3. shown["info"] = "invalid" => "info" \in needPaint
    BY <1>2 DEF needPaint, IInv, PaintInv, TypeOK
  <2>4. shown'["info"] \in {"none", "hidden"}
    BY <1>2, <1>4, <2>3 DEF IInv, PaintInv, TypeOK
  <2> QED BY <1>1, <2>1, <2>2, <2>4 DEF IInv, PaintInv, windowVars
<1>9. TurnInv'
  <2>1. \A c \in Controls : shown'[c] # "invalid"
    BY <1>4, <1>5, Statuses
  <2> QED BY <1>1, <1>2, <2>1 DEF TurnInv, windowVars
<1>10. DownInv' /\ QueueInv'
  BY <1>1, SameQueue DEF IInv, DownInv, windowVars, mouseVars
<1>11. \A c \in OnPage[page] \ turned : shown'[c] = "blank" => shown[c] = "blank"
  BY <1>2, <1>4, <1>5, Statuses DEF needPaint, IInv, TurnInv
<1> QED BY <1>7, <1>8, <1>9, <1>10, <1>11 DEF IInv

------------------------------------------------------------------------------
(* The invariant, and what follows from it.                                *)

LEMMA NextInv == IInv /\ [Next]_vars => IInv'
<1> SUFFICES ASSUME IInv, [Next]_vars PROVE IInv'
  OBVIOUS
<1>1. ASSUME NEW pt \in Spots[page], OnMouseMove(pt) PROVE IInv'
  BY <1>1, MoveStep
<1>2. CASE OnMouseLeave
  BY <1>2, LeaveStep
<1>3. CASE OnLButtonDownMsg
  BY <1>3, PressStep
<1>4. CASE OnLButtonUpMsg
  BY <1>4, ReleaseStep
<1>5. CASE ThreadPosts
  BY <1>5, ThreadPostsStep
<1>6. CASE OnText
  BY <1>6, TextStep
<1>7. CASE OnInitOk
  BY <1>7, InitOkStep
<1>8. CASE OnClickULogin \/ OnClickLast \/ OnClickLogin
  <2>1. \E c \in {"ulogin", "guest", "next", "last"}, p \in 0 .. 3 :
          /\ Receive(c) /\ posted' = Tail(posted) /\ ShowPage(p)
          /\ UNCHANGED <<iconic, closed, m_MouseTrack, pressed>>
    BY <1>8 DEF OnClickULogin, OnClickLast, OnClickLogin
  <2> QED BY <2>1, ClickShowsStep
<1>9. CASE OnClickMin
  BY <1>9, MinStep
<1>10. CASE OnClickClose \/ OnClose
  BY <1>10, CloseStep
<1>11. CASE OnActivate
  BY <1>11, ActivateStep
<1>12. CASE OnPaint
  BY <1>12, PaintStep
<1>13. CASE UNCHANGED vars
  <2>1. UNCHANGED <<page, iconic, closed, mouse, m_MouseTrack, pressed, m_Status,
                    m_OldStatus, shown, partly, posted, started, turned>>
    BY <1>13 DEF vars, windowVars, mouseVars, paintVars
  <2>2. TypeOK' /\ PaintInv' /\ TurnInv' /\ DownInv'
    BY <2>1, SameQueue DEF IInv, TypeOK, PaintInv, TurnInv, DownInv
  <2> QED BY <2>1, <2>2, SameQueue DEF IInv
<1> QED BY <1>1, <1>2, <1>3, <1>4, <1>5, <1>6, <1>7, <1>8, <1>9, <1>10, <1>11, <1>12, <1>13 DEF Next

LEMMA Inductive == Spec => []IInv
<1>1. Init => IInv
  BY InitInv
<1>2. IInv /\ [Next]_vars => IInv'
  BY NextInv
<1> QED BY <1>1, <1>2, PTL DEF Spec

\* The variables have their types: a status outside the page's controls stays "none",
\* and only what is on the page waits for WM_PAINT.
THEOREM TypeCorrect == Spec => []TypeOK
<1>1. IInv => TypeOK
  BY DEF IInv
<1> QED BY <1>1, Inductive, PTL

\* What the screen has of a control, and is not to be painted again, is its status and
\* its text, whatever else has drawn in the rectangles that are invalidated.
THEOREM ScreenCurrent == Spec => []ScreenIsCurrent
<1>1. IInv => ScreenIsCurrent
  BY DEF IInv, PaintInv, ScreenIsCurrent, InfoIsShown, Visible
<1> QED BY <1>1, Inductive, PTL

\* A click is handled on a page that has its control, and a press is held on one.
THEOREM ClicksOnPage == Spec => []ClickIsOnPage
<1>1. ASSUME IInv PROVE ClickIsOnPage
  <2>1. ASSUME posted # <<>>, Head(posted) \in Controls PROVE Head(posted) \in OnPage[page]
    BY <1>1, <2>1 DEF IInv, TypeOK, QueueInv
  <2>2. \A c \in Controls : m_Status[c] = "down" => c \in OnPage[page]
    BY <1>1 DEF IInv, DownInv
  <2> QED BY <2>1, <2>2 DEF ClickIsOnPage
<1>2. IInv => ClickIsOnPage
  BY <1>1
<1> QED BY <1>2, Inductive, PTL

\* WM_PAINT erases without drawing only what has changed, or has lain under what has.
THEOREM ErasesTurned == Spec => ErasesOnlyTurned
<1>1. IInv => (OnPaint => \A c \in OnPage[page] \ turned :
                            shown'[c] = "blank" => shown[c] = "blank")
  BY PaintStep
<1> QED BY <1>1, Inductive, PTL DEF ErasesOnlyTurned

\* A message comes at the end of the queue only from OnLButtonUp, for a control that is
\* down, from a thread or from the close button.
THEOREM NoPhantom == Spec => NoPhantomClick
<1>1. ASSUME IInv, [Next]_vars, NEW c \in Controls, posted' = Append(posted, c)
      PROVE  pressed = c
  <2>1. posted \in Seq(Messages) /\ c \in Messages /\ c \notin {"initOk", "text"}
    BY <1>1 DEF IInv, TypeOK, Messages, Controls
  <2>2. /\ Len(posted') = Len(posted) + 1
        /\ posted'[Len(posted) + 1] = c
        /\ posted' \in Seq(Messages)
    BY <1>1, <2>1, AppendProperties
  <2>3. posted' # posted
    BY <2>1, <2>2
  <2>4. posted # <<>> => posted' # Tail(posted) /\ posted' # Append(Tail(posted), "wmClose")
    <3> SUFFICES ASSUME posted # <<>>
                 PROVE  posted' # Tail(posted) /\ posted' # Append(Tail(posted), "wmClose")
      OBVIOUS
    <3>1. Tail(posted) \in Seq(Messages) /\ Len(Tail(posted)) = Len(posted) - 1 /\ Len(posted) \in Nat
      BY <2>1, HeadTailProperties
    <3>2. "wmClose" \in Messages
      BY DEF Messages
    <3>3. Len(Append(Tail(posted), "wmClose")) = Len(posted)
      BY <3>1, <3>2, AppendProperties
    <3>4. \A q : posted' = q => Len(posted') = Len(q)
      OBVIOUS
    <3>5. \A n \in Nat : n + 1 # n - 1 /\ n + 1 # n
      OBVIOUS
    <3> QED BY <2>2, <3>1, <3>3, <3>4, <3>5, Zenon
  <2>5. posted' # <<>>
    BY <2>1, <2>2
  <2>6. \A msg \in {"initOk", "text"} : posted' # Append(posted, msg)
    <3> SUFFICES ASSUME NEW msg \in {"initOk", "text"} PROVE posted' # Append(posted, msg)
      OBVIOUS
    <3>1. Append(posted, msg)[Len(posted) + 1] = msg
      BY <2>1, AppendProperties DEF Messages
    <3> QED BY <2>1, <2>2, <3>1
  <2>7. OnLButtonUpMsg
    <3>1. CASE \E pt \in Spots[page] : OnMouseMove(pt)
      BY <2>3, <3>1 DEF OnMouseMove
    <3>2. CASE OnMouseLeave \/ OnLButtonDownMsg \/ OnActivate \/ OnPaint
      BY <2>3, <3>2 DEF OnMouseLeave, OnLButtonDownMsg, OnActivate, OnPaint
    <3>3. CASE ThreadPosts
      BY <2>6, <3>3 DEF ThreadPosts
    <3>4. CASE OnText \/ OnInitOk \/ OnClickULogin \/ OnClickLast \/ OnClickLogin \/ OnClickMin
      BY <2>4, <3>4 DEF OnText, OnInitOk, OnClickULogin, OnClickLast, OnClickLogin, OnClickMin,
                        Receive
    <3>5. CASE OnClickClose \/ OnClose
      BY <2>4, <2>5, <3>5 DEF OnClickClose, OnClose, Receive
    <3>6. CASE UNCHANGED vars
      BY <2>3, <3>6 DEF vars
    <3> QED BY <1>1, <3>1, <3>2, <3>3, <3>4, <3>5, <3>6 DEF Next
  <2>8. PICK d \in OnPage[page] : PtInCtrl(d, mouse) /\ m_Status[d] = "down"
    BY <2>3, <2>7 DEF OnLButtonUpMsg
  <2>9. posted' = Append(posted, mouse) /\ mouse = d /\ d \in Controls
    <3>1. mouse = d /\ d \in Controls
      BY <1>1, <2>8, Pages DEF PtInCtrl, IInv, TypeOK
    <3>2. posted' = Append(posted, mouse)
      BY <2>7, <2>8 DEF OnLButtonUpMsg
    <3> QED BY <3>1, <3>2
  <2>10. mouse = c
    BY <2>1, <2>2, <2>9, AppendProperties DEF Messages
  <2> QED BY <1>1, <2>8, <2>9, <2>10 DEF IInv, DownInv
<1>2. IInv /\ [Next]_vars => \A c \in Controls : posted' = Append(posted, c) => pressed = c
  BY <1>1
<1> QED BY <1>2, Inductive, PTL DEF Spec, NoPhantomClick

------------------------------------------------------------------------------
(* The layout of the controls in a client area of any size that has room for  *)
(* them.  The dialog of 214 by 134 units (CellView/CellView.rc:81) has that   *)
(* much with any font of at least 4 by 12 pixels.                             *)

\* On every page the mouse sees one control at a point, and no control sticks out of the
\* window: InitCtrl's rectangles neither meet nor leave the client area.
THEOREM PointsAreControls ==
  ASSUME NEW w \in Nat, NEW h \in Nat, NEW uid \in Nat, NEW pass \in Nat,
         w >= 208, h >= 200
  PROVE  MouseSeesOne(w, h, WorkRect(w, h, uid, pass))
<1> DEFINE rc == WorkRect(w, h, uid, pass)
<1>1. /\ rc["close"] = Rect(w - 30, 0, w, 20)
      /\ rc["min"] = Rect(w - 60, 0, w - 30, 20)
      /\ rc["ulogin"] = Rect(w \div 2 - 100, h \div 2 - 80, w \div 2 + 100, h \div 2 - 10)
      /\ rc["guest"] = Rect(w \div 2 - 100, h \div 2 + 10, w \div 2 + 100, h \div 2 + 80)
      /\ rc["last"] = Rect(50, h - 70, 104, h - 30)
      /\ rc["next"] = Rect(w - 104, h - 70, w - 50, h - 30)
  BY DEF WorkRect, Controls
<1>2. /\ w \div 2 \in Nat /\ 2 * (w \div 2) <= w /\ w <= 2 * (w \div 2) + 1
      /\ h \div 2 \in Nat /\ 2 * (h \div 2) <= h /\ h <= 2 * (h \div 2) + 1
  OBVIOUS
<1> HIDE DEF rc
<1>3. SUFFICES ASSUME NEW p \in 0 .. 3, NEW c \in OnPage[p] \ Plain
               PROVE  /\ 0 <= rc[c].l /\ rc[c].r <= w /\ 0 <= rc[c].t /\ rc[c].b <= h
                      /\ \A d \in OnPage[p] \ Plain : c # d => ~Meet(rc[c], rc[d])
  BY DEF MouseSeesOne, rc
<1>4. OnPage[p] \ Plain \in {{"close", "min"}, {"close", "min", "ulogin", "guest"},
                             {"close", "min", "last", "next"}, {"close", "min", "last"}}
  BY DEF OnPage, Plain
<1>5. /\ 0 <= rc[c].l /\ rc[c].r <= w /\ 0 <= rc[c].t /\ rc[c].b <= h
  BY <1>1, <1>2, <1>4 DEF Rect
<1>6. ASSUME NEW d \in OnPage[p] \ Plain, c # d
      PROVE  ~Meet(rc[c], rc[d])
  BY <1>1, <1>2, <1>4, <1>6 DEF Rect, Meet
<1> QED BY <1>5, <1>6

\* A control that changes, and is painted again, leaves what the others on its page
\* have drawn as it is, but for the labels of the input fields, which "last" may reach
\* into if the window is low: the information's text lies above it.
THEOREM ChangesSpareOthers ==
  ASSUME NEW w \in Nat, NEW h \in Nat, NEW uid \in Nat, NEW pass \in Nat, NEW text \in 0 .. 60,
         w >= 208, h >= 200
  PROVE  ChangesLieApart(UnderRect(w, h, uid, pass, text))
<1> DEFINE rc == WorkRect(w, h, uid, pass)
           under == UnderRect(w, h, uid, pass, text)
<1>1. /\ rc["close"] = Rect(w - 30, 0, w, 20)
      /\ rc["min"] = Rect(w - 60, 0, w - 30, 20)
      /\ rc["ulogin"] = Rect(w \div 2 - 100, h \div 2 - 80, w \div 2 + 100, h \div 2 - 10)
      /\ rc["guest"] = Rect(w \div 2 - 100, h \div 2 + 10, w \div 2 + 100, h \div 2 + 80)
      /\ rc["uid"] = Rect(0, 70, 100, 70 + uid)
      /\ rc["upass"] = Rect(0, 100 + uid, 100, 100 + uid + pass)
      /\ rc["last"] = Rect(50, h - 70, 104, h - 30)
      /\ rc["next"] = Rect(w - 104, h - 70, w - 50, h - 30)
      /\ rc["info"] = Rect(4, h \div 2 - 60, w - 4, h \div 2 + 60)
  BY DEF WorkRect, Controls
<1>2. /\ w \div 2 \in Nat /\ 2 * (w \div 2) <= w /\ w <= 2 * (w \div 2) + 1
      /\ h \div 2 \in Nat /\ 2 * (h \div 2) <= h /\ h <= 2 * (h \div 2) + 1
  OBVIOUS
<1>3. \A c \in Controls : under[c] = {d \in Controls \ {c} : Meet(rc[c], Drawn(d, rc[d], text))}
  BY DEF UnderRect
<1> HIDE DEF rc, under
<1>4. SUFFICES ASSUME NEW p \in 0 .. 3, NEW c \in OnPage[p] \ Plain,
                      NEW d \in under[c] \cap OnPage[p]
               PROVE  c = "last" /\ d \in {"uid", "upass"}
  BY DEF ChangesLieApart, under
<1>5. OnPage[p] \in {{"close", "min", "info"}, {"close", "min", "ulogin", "guest"},
                     {"close", "min", "uid", "upass", "last", "next"},
                     {"close", "min", "last", "info"}}
  BY DEF OnPage
<1>6. c \in Controls /\ d \in Controls /\ d # c /\ Meet(rc[c], Drawn(d, rc[d], text))
  BY <1>3, <1>5 DEF Controls
<1>7. CASE d \notin Plain
  <2>1. Meet(rc[c], rc[d])
    BY <1>6, <1>7 DEF Drawn
  <2> QED BY <1>1, <1>2, <1>5, <1>6, <1>7, <2>1 DEF Meet, Rect, Plain
<1>8. CASE d \in Plain
  <2>1. Meet(rc[c], Rect(rc[d].l, (rc[d].t + rc[d].b - text) \div 2,
                         rc[d].r, (rc[d].t + rc[d].b + text) \div 2))
    BY <1>6, <1>8 DEF Drawn
  <2> QED BY <1>1, <1>2, <1>5, <1>6, <1>8, <2>1 DEF Meet, Rect, Plain
<1> QED BY <1>7, <1>8
==============================================================================
