------------------------------ MODULE XControls ------------------------------
(***************************************************************************)
(* The dialog's controls (components/XControlBase.cpp, XLabel, XPicture,   *)
(* XButton) and the handlers of CCellViewDlg that give them the mouse,     *)
(* change the page and paint.  Everything here runs in the UI thread, one  *)
(* message after another; what is hard is the order of the messages.       *)
(*                                                                         *)
(* A point is the control whose rectangle it lies in, or "back" for none   *)
(* (Layout).  Windows hands out the mouse's messages behind the clicks     *)
(* that were posted, and WM_PAINT behind every posted message.             *)
(***************************************************************************)
EXTENDS Layout, Sequences

CONSTANTS UnderInfo,    \* the controls that have drawn in the information's rectangle,
          UnderLast,    \* and in that of "last"; no others meet (XControlsProofs)
          Spots,        \* bound: the points the pointer goes to on each page
          MaxPosted     \* bound: messages in the queue when a thread posts

ASSUME LayoutAssumption == /\ UnderInfo \subseteq Controls \ {"info"}
                           /\ UnderLast \subseteq {"uid", "upass"}
                           /\ Spots \in [0 .. 3 -> SUBSET (Controls \cup {"back"})]
                           /\ MaxPosted \in Nat \ {0}

Status == {"none", "hover", "down", "up"}

\* A WM_XBTN_CLICK is the control's name.
Messages == Controls \cup {"initOk", "text", "wmClose"}

VARIABLES
  page,         \* m_ctrls is the list of this page
  iconic,       \* is the window minimised?
  closed,       \* has the dialog ended?
  mouse,        \* where the pointer is: a point, or "out" of the window
  m_MouseTrack, \* does the next move ask for a WM_MOUSELEAVE?
  m_Status, m_OldStatus,
  posted,       \* the dialog's queue of posted messages
  started,      \* has EnvStartUp posted its message?
  shown,        \* what the screen has of each: the status it was drawn in, an
                \* "old" text, "blank" if it is wholly or partly erased, "invalid" if
                \* all of it waits for WM_PAINT, "hidden" if its page is not there
  partly,       \* of whom a part waits for WM_PAINT
  \* history
  pressed,      \* where the button is held since it went down, or "none"
  turned        \* who has changed, or lain under one that has, since WM_PAINT or
                \* since the page was shown or the window activated

windowVars == <<page, iconic, closed>>
mouseVars  == <<mouse, m_MouseTrack, pressed>>
paintVars  == <<m_OldStatus, shown, partly>>
vars == <<windowVars, mouseVars, m_Status, paintVars, posted, started, turned>>

TypeOK ==
  /\ page \in 0 .. 3
  /\ iconic \in BOOLEAN /\ closed \in BOOLEAN /\ m_MouseTrack \in BOOLEAN
  /\ mouse \in Controls \cup {"back", "out"}
  /\ m_Status \in [Controls -> Status]
  /\ \A c \in Plain : m_Status[c] = "none"
  /\ m_OldStatus \in [Controls -> Status \cup {"needrp"}]
  /\ posted \in Seq(Messages)
  /\ started \in BOOLEAN
  /\ shown \in [Controls -> Status \cup {"old", "blank", "invalid", "hidden"}]
  /\ partly \subseteq OnPage[page]
  /\ pressed \in Controls \cup {"back", "none"}
  /\ turned \subseteq Controls

\* The window appears with page 0; everything has yet to be painted.
Init ==
  /\ page = 0
  /\ iconic = FALSE /\ closed = FALSE
  /\ mouse = "out"
  /\ m_MouseTrack = TRUE
  /\ m_Status = [c \in Controls |-> "none"]
  /\ m_OldStatus = [c \in Controls |-> "hover"]
  /\ posted = <<>>
  /\ started = FALSE
  /\ shown = [c \in Controls |-> IF c \in OnPage[0] THEN "invalid" ELSE "hidden"]
  /\ partly = {}
  /\ pressed = "none"
  /\ turned = {}

------------------------------------------------------------------------------
(* The controls' own operations.                                           *)

PtInCtrl(c, pt) == c \notin Plain /\ c = pt

\* Mutant of OnLeave: a control keeps the press when the pointer leaves it.
OnLeaveHeld(c) == IF m_Status[c] = "down" THEN "down" ELSE "none"

\* Mutant of OnLButtonUp: the status stays when the click is posted.
OnLButtonUpClick(c) == IF m_Status[c] = "down" THEN "down" ELSE "up"

\* OnHover, OnLeave, OnLButtonDown and OnLButtonUp: a control's next status.
OnHover(c)       == IF m_Status[c] = "down" THEN "down" ELSE "hover"
OnLeave(c)       == "none"
OnLButtonDown(c) == "down"
OnLButtonUp(c)   == "up"

\* Is what the screen has of a control to stay there?
Visible(c) == shown[c] \notin {"invalid", "hidden"} /\ c \notin partly

\* Who else has drawn in the rectangles of some controls.
Touched(S) == OnPage[page] \cap ((IF "info" \in S THEN UnderInfo ELSE {})
                                 \cup (IF "last" \in S THEN UnderLast ELSE {}))

\* InvalidateRect of some controls, of which the screen has this: a minimised window
\* has nothing to paint.
InvalidateRect(screen, S) ==
  LET whole == IF iconic THEN {} ELSE S \cap OnPage[page]
      part  == IF iconic THEN {} ELSE Touched(S)
  IN  /\ shown' = [c \in Controls |-> IF c \in whole THEN "invalid" ELSE screen[c]]
      /\ partly' = {c \in partly \cup part : shown'[c] # "invalid"}

\* The window is shown with page p, or gone.
Whole(p)  == [c \in Controls |-> IF c \in OnPage[p] THEN "invalid" ELSE "hidden"]
Minimised == [c \in Controls |-> "hidden"]

\* Mutant of Become: no InvalidateRect when the pointer leaves.
BecomeQuietly(new) ==
  /\ m_Status' = new
  /\ LET changed == {c \in Controls : m_Status'[c] # m_Status[c]}
     IN  /\ InvalidateRect(shown, {c \in changed : new[c] # "none"})
         /\ turned' = turned \cup changed \cup Touched(changed)

\* The controls take the status new; those that change invalidate themselves.
Become(new) ==
  /\ m_Status' = new
  /\ LET changed == {c \in Controls : m_Status'[c] # m_Status[c]}
     IN  /\ InvalidateRect(shown, changed)
         /\ turned' = turned \cup changed \cup Touched(changed)

\* Mutant of ReqRePaint: only the labels, which is what SetText does.
ReqRePaintLabels(p) ==
  [c \in Controls |-> IF c \in OnPage[p] \cap Plain THEN "needrp" ELSE m_OldStatus[c]]

\* ReqRePaint of every control of a page.
ReqRePaint(p) == [c \in Controls |-> IF c \in OnPage[p] THEN "needrp" ELSE m_OldStatus[c]]

\* The text on the screen is no longer the label's.
Outdated == [shown EXCEPT !["info"] = IF @ = "none" THEN "old" ELSE @]

\* SetWindowInfo, that is XLabel::SetText of the information.
SetText ==
  /\ m_OldStatus' = [m_OldStatus EXCEPT !["info"] = "needrp"]
  /\ InvalidateRect(Outdated, {"info"})
  /\ turned' = turned \cup Touched({"info"})

\* The pointer stays where it is, and may so be on another control of the page.
ShowPage(p) ==
  /\ mouse' \in {mouse} \cup IF mouse \in {"out", "close", "min"} THEN {}
                           ELSE (Spots[p] \cap OnPage[p]) \ {"close", "min"}
  /\ page' = p
  /\ m_OldStatus' = ReqRePaint(p)
  /\ shown' = IF iconic THEN Minimised ELSE Whole(p)
  /\ partly' = {}
  /\ turned' = {}

------------------------------------------------------------------------------
(* The mouse.                                                              *)

ClickWaits == \E i \in DOMAIN posted : posted[i] \in Controls

CanInput == ~closed /\ ~iconic /\ ~ClickWaits

\* Everyone on the page gets OnHover or, elsewhere, OnLeave.
OnMouseMove(pt) ==
  /\ CanInput
  /\ mouse' = pt
  /\ m_MouseTrack' = FALSE
  /\ Become([c \in Controls |-> IF c \notin OnPage[page] \ Plain THEN m_Status[c]
                             ELSE IF PtInCtrl(c, pt) THEN OnHover(c) ELSE OnLeave(c)])
  /\ pressed' = IF pt = pressed THEN pressed ELSE "none"
  /\ UNCHANGED <<windowVars, m_OldStatus, posted, started>>

\* Windows sends WM_MOUSELEAVE once for each TrackMouseEvent.
OnMouseLeave ==
  /\ ~closed /\ ~ClickWaits
  /\ ~m_MouseTrack
  /\ mouse' = "out"
  /\ m_MouseTrack' = TRUE
  /\ Become([c \in Controls |-> IF c \in OnPage[page] \ Plain THEN OnLeave(c)
                                                              ELSE m_Status[c]])
  /\ pressed' = "none"
  /\ UNCHANGED <<windowVars, m_OldStatus, posted, started>>

\* The second press of a double click never comes here, its release does.
OnLButtonDownMsg ==
  /\ CanInput
  /\ mouse # "out"
  /\ Become([c \in Controls |-> IF c \notin OnPage[page] \ Plain THEN m_Status[c]
                             ELSE IF PtInCtrl(c, mouse) THEN OnLButtonDown(c) ELSE OnLeave(c)])
  /\ pressed' = mouse
  /\ UNCHANGED <<windowVars, mouse, m_MouseTrack, m_OldStatus, posted, started>>

\* Of the controls, the one under the pointer hears of the release; OnLButtonClick
\* posts its click if it was down.
OnLButtonUpMsg ==
  /\ CanInput
  /\ mouse # "out"
  /\ LET hit == {c \in OnPage[page] : PtInCtrl(c, mouse)}
     IN  /\ Become([c \in Controls |-> IF c \in hit THEN OnLButtonUp(c) ELSE m_Status[c]])
         /\ posted' = IF \E c \in hit : m_Status[c] = "down" THEN Append(posted, mouse)
                                                             ELSE posted
  /\ pressed' = "none"
  /\ UNCHANGED <<windowVars, mouse, m_MouseTrack, m_OldStatus, started>>

------------------------------------------------------------------------------
(* Posted messages.                                                        *)

\* EnvStartUp, sessions and tasks post messages of their own.
ThreadPosts ==
  /\ ~closed
  /\ Len(posted) < MaxPosted
  /\ \/ started /\ posted' = Append(posted, "text") /\ UNCHANGED started
     \/ ~started /\ started' = TRUE
        /\ \E msg \in {"initOk", "text"} : posted' = Append(posted, msg)
  /\ UNCHANGED <<windowVars, mouseVars, m_Status, paintVars, turned>>

Receive(msg) ==
  /\ ~closed
  /\ posted # <<>>
  /\ Head(posted) = msg
  /\ UNCHANGED <<m_Status, started>>

\* WM_INITEND, WM_XMPPMSG and WM_TASKMSG: a text for the information, whatever the
\* page, or the first page with buttons.
OnText ==
  /\ Receive("text")
  /\ posted' = Tail(posted)
  /\ SetText
  /\ UNCHANGED <<windowVars, mouseVars>>

OnInitOk ==
  /\ Receive("initOk")
  /\ posted' = Tail(posted)
  /\ ShowPage(1)
  /\ UNCHANGED <<iconic, closed, m_MouseTrack, pressed>>

OnClickULogin ==
  /\ Receive("ulogin")
  /\ posted' = Tail(posted)
  /\ ShowPage(2)
  /\ UNCHANGED <<iconic, closed, m_MouseTrack, pressed>>

OnClickLast ==
  /\ Receive("last")
  /\ posted' = Tail(posted)
  /\ ShowPage(IF page = 2 THEN 1 ELSE 2)
  /\ UNCHANGED <<iconic, closed, m_MouseTrack, pressed>>

\* OnClickNext and OnClickGstLogin set the text before they show its page.
OnClickLogin ==
  /\ Receive("next") \/ Receive("guest")
  /\ posted' = Tail(posted)
  /\ ShowPage(3)
  /\ UNCHANGED <<iconic, closed, m_MouseTrack, pressed>>

\* The window leaves the screen: OnMove and OnActivate.
OnClickMin ==
  /\ Receive("min")
  /\ posted' = Tail(posted)
  /\ iconic' = TRUE
  /\ mouse' = "out"
  /\ pressed' = "none"
  /\ m_OldStatus' = ReqRePaint(page)
  /\ shown' = Minimised
  /\ partly' = {}
  /\ turned' = {}
  /\ UNCHANGED <<page, closed, m_MouseTrack>>

OnClickClose ==
  /\ Receive("close")
  /\ posted' = Append(Tail(posted), "wmClose")
  /\ UNCHANGED <<windowVars, mouseVars, paintVars, turned>>

OnClose ==
  /\ Receive("wmClose")
  /\ posted' = <<>>
  /\ closed' = TRUE
  /\ UNCHANGED <<page, iconic, mouseVars, paintVars, turned>>

------------------------------------------------------------------------------
(* The window.                                                             *)

\* OnActivate or OnMove; a window that comes back is also invalid as a whole.
OnActivate ==
  /\ ~closed
  /\ iconic' = FALSE
  /\ m_OldStatus' = ReqRePaint(page)
  /\ shown' = IF iconic THEN Whole(page) ELSE shown
  /\ partly' = IF iconic THEN {} ELSE partly
  /\ turned' = {}
  /\ UNCHANGED <<page, closed, mouseVars, m_Status, posted, started>>

\* OnPaint: the background is drawn, and over it those whose status is not the one
\* they were last painted in; of all that the invalid part reaches the screen.
OnPaint ==
  /\ ~closed /\ ~iconic
  /\ posted = <<>>
  /\ partly # {} \/ \E c \in Controls : shown[c] = "invalid"
  /\ LET needPaint == {c \in OnPage[page] : m_OldStatus[c] # m_Status[c]}
         invalid == {c \in Controls : shown[c] = "invalid"}
     IN  /\ m_OldStatus' = [c \in Controls |-> IF c \in needPaint THEN m_Status[c]
                                                                  ELSE m_OldStatus[c]]
         /\ shown' = [c \in Controls |->
              CASE c \in (invalid \cup partly) \ needPaint -> "blank"
                [] c \in invalid \cap needPaint -> m_Status[c]
                [] c \in partly \cap needPaint /\ shown[c] \notin {m_Status[c], "blank"} -> "old"
                [] OTHER -> shown[c]]
  /\ partly' = {}
  /\ turned' = {}
  /\ UNCHANGED <<windowVars, mouseVars, m_Status, posted, started>>

------------------------------------------------------------------------------
Next == \/ \E pt \in Spots[page] : OnMouseMove(pt)
        \/ OnMouseLeave \/ OnLButtonDownMsg \/ OnLButtonUpMsg
        \/ ThreadPosts
        \/ OnText \/ OnInitOk \/ OnClickULogin \/ OnClickLast \/ OnClickLogin
        \/ OnClickMin \/ OnClickClose \/ OnClose
        \/ OnActivate \/ OnPaint

Spec == Init /\ [][Next]_vars
------------------------------------------------------------------------------
(* Properties.                                                             *)

\* The information on the screen is the text that was set last: SetText may come
\* while another page is shown, while the window is minimised or just before ShowPage.
InfoIsShown == Visible("info") => shown["info"] = "none"

\* What the screen has of a control and is not to be painted again is the control's
\* status, and the label's text: NeedPaint skips nobody whose picture is out of date.
ScreenIsCurrent ==
  /\ \A c \in Controls \ {"info"} : Visible(c) => shown[c] \in {m_Status[c], "blank"}
  /\ InfoIsShown

\* WM_PAINT erases of a control without drawing it only if the mouse has been to it, or
\* to one that reaches into it, or a text has been set above it, since the last one.  A
\* new page, a window that comes back and the text itself are drawn whole.
ErasesOnlyTurned ==
  [][OnPaint => \A c \in OnPage[page] \ turned :
       shown'[c] = "blank" => shown[c] = "blank"]_vars

\* A click that is handled, and a press that is held, belong to a control of the page
\* shown, although pages change between the mouse's message and the click's.
ClickIsOnPage ==
  /\ posted # <<>> /\ Head(posted) \in Controls => Head(posted) \in OnPage[page]
  /\ \A c \in Controls : m_Status[c] = "down" => c \in OnPage[page]

\* A click is posted only for the control that the button went down on, if the
\* pointer has not left it, nor the button been up, since then.
NoPhantomClick ==
  [][\A c \in Controls : posted' = Append(posted, c) => pressed = c]_vars
==============================================================================
