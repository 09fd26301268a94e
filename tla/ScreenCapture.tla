---------------------------- MODULE ScreenCapture ----------------------------
(***************************************************************************)
(* A screenshot: CScreenCapTask::Work (CellView/ScreenCapTask.cpp) in the  *)
(* worker's thread, through AnsiToUnicode (chartool/char_code_change.cpp), *)
(* SaveScreenPictureToFILE, CaptureScreenToBitmap and SaveBitmapToStream   *)
(* (worker/XCaptureScreen.cpp).  Every call of the system may fail.  The   *)
(* objects it hands out live until they are given back, from one           *)
(* screenshot to the next; the main thread shuts GDI+ down when the dialog *)
(* is closed (CellView/CellView.cpp), whatever the worker is doing.        *)
(***************************************************************************)
EXTENDS BitmapLayout, Naturals, FiniteSets

CONSTANTS Depths,         \* bits a pixel of the screen may have
          MaxCaptures     \* bound: screenshots asked for

ASSUME DepthsAssumption == Depths \subseteq Nat \ {0}
ASSUME CapturesAssumption == MaxCaptures \in Nat

\* What has to be given back: the wide file name, the device contexts of the screen
\* and of memory, the bitmap, the window's device context, the block of memory and
\* the stream over it.
Kinds == {"name", "screenDC", "memDC", "bitmap", "windowDC", "block", "stream"}

\* Calls whose failure the code does not undo, and what each leaves behind.
Spoiling == {"memDC", "palette", "stream"}

VARIABLES
  gdi,          \* is GDI+ started?
  pc,
  live,         \* how many objects of each kind there are
  depth,        \* bits of a pixel of the screen
  taken,        \* bits of a pixel that SaveBitmapToStream has taken the screen to have
  ret,          \* what Work is going to return
  failed,       \* history: calls that have failed in this screenshot
  saved,        \* history: has the file been written?
  spoilt,       \* history: how often each of Spoiling has failed
  captures      \* how many screenshots have been asked for

taskVars == <<pc, live, ret, failed, saved, spoilt>>
vars == <<gdi, taskVars, depth, taken, captures>>

TypeOK ==
  /\ gdi \in BOOLEAN
  /\ pc \in {"idle", "encoder", "grab", "stream", "image", "free", "undefined"}
  /\ live \in [Kinds -> Nat]
  /\ depth \in Depths
  /\ taken \in Depths \cup {0}
  /\ ret \in BOOLEAN
  /\ failed \subseteq {"encoder", "screenDC", "memDC", "bitmap", "depthDC", "windowDC",
                       "palette", "block", "stream", "image"}
  /\ saved \in BOOLEAN
  /\ spoilt \in [Spoiling -> Nat]
  /\ captures \in Nat

Init ==
  /\ gdi = TRUE
  /\ pc = "idle"
  /\ live = [k \in Kinds |-> 0]
  /\ depth \in Depths
  /\ taken = 0
  /\ ret = FALSE
  /\ failed = {}
  /\ saved = FALSE
  /\ spoilt = [k \in Spoiling |-> 0]
  /\ captures = 0

\* Objects handed out and given back.
Count(S, k) == IF k \in S THEN 1 ELSE 0
Acquire(got, back) == live' = [k \in Kinds |-> live[k] + Count(got, k) - Count(back, k)]
Spoil(F) == spoilt' = [k \in Spoiling |-> spoilt[k] + Count(F, k)]

------------------------------------------------------------------------------
(* The user.                                                               *)

\* The screen gets another mode.
ChangeMode ==
  /\ depth' \in Depths
  /\ UNCHANGED <<gdi, taskVars, taken, captures>>

\* The dialog is closed: InitInstance returns, and ~XGdiPlusInit shuts GDI+ down.
\* Nobody stops the worker; an image that it has open by then is used afterwards.
CloseDialog ==
  /\ gdi
  /\ gdi' = FALSE
  /\ pc' \in IF pc = "image" THEN {"image", "undefined"} ELSE {pc}
  /\ UNCHANGED <<live, ret, failed, saved, spoilt, depth, taken, captures>>

------------------------------------------------------------------------------
(* The worker.                                                             *)

\* Work, and AnsiToUnicode: no file name or no memory for it is a failure.
Work ==
  /\ pc = "idle"
  /\ captures < MaxCaptures
  /\ captures' = captures + 1
  /\ failed' = {}
  /\ saved' = FALSE
  /\ ret' = FALSE
  /\ \/ pc' = "encoder" /\ Acquire({"name"}, {})
     \/ pc' = "idle" /\ UNCHANGED live
  /\ UNCHANGED <<gdi, depth, taken, spoilt>>

\* GetEncoderClsid: there are no encoders without GDI+.
FindEncoder ==
  /\ pc = "encoder"
  /\ \/ gdi /\ pc' = "grab" /\ UNCHANGED failed
     \/ pc' = "free" /\ failed' = failed \cup {"encoder"}
  /\ UNCHANGED <<gdi, depth, taken, live, ret, saved, spoilt, captures>>

\* Mutant of Grab: the memory DC is not deleted.
GrabKeepsDC ==
  /\ pc = "grab"
  /\ \E F \in SUBSET {"screenDC", "memDC", "bitmap"} :
       /\ "screenDC" \in F => "bitmap" \in F
       /\ failed' = failed \cup F
       /\ Acquire({"memDC", "bitmap"} \ F, {})
       /\ Spoil(IF "bitmap" \in F THEN {} ELSE F)
       /\ pc' = IF F = {} THEN "stream" ELSE "free"
  /\ UNCHANGED <<gdi, depth, taken, ret, saved, captures>>

\* CaptureScreenToBitmap.  Both DCs are deleted.  Without a screen DC there is no
\* bitmap.  Without a memory DC, SelectObject returns nothing, and so the bitmap is
\* neither returned nor deleted.
Grab ==
  /\ pc = "grab"
  /\ \E F \in SUBSET {"screenDC", "memDC", "bitmap"} :
       /\ "screenDC" \in F => "bitmap" \in F
       /\ failed' = failed \cup F
       /\ Acquire({"bitmap"} \ F, {})
       /\ Spoil(IF "bitmap" \in F THEN {} ELSE F)
       /\ pc' = IF "memDC" \notin F /\ "bitmap" \notin F THEN "stream" ELSE "free"
  /\ UNCHANGED <<gdi, depth, taken, ret, saved, captures>>

\* The calls of SaveBitmapToStream that may fail.  Without the window's device context
\* there is nothing to select a palette into.
StreamCalls == {F \in SUBSET {"depthDC", "windowDC", "palette", "block", "stream"} :
                  "windowDC" \in F => "palette" \in F}

\* The bits of a pixel that GetDeviceCaps tells: none without a device context.
Taken(F) == IF "depthDC" \in F THEN 0 ELSE depth

\* GetDIBits writes a palette, if that many bits have one, behind the header it is
\* given, which is a variable of SaveBitmapToStream with nothing behind it.
Overruns(F) == "windowDC" \notin F /\ Colours(BitCount(Taken(F))) > 0

\* Mutants of ToStream: the stream is released even if there is none; a failure is
\* not told.
ToStreamUnchecked ==
  /\ pc = "stream"
  /\ \E F \in StreamCalls :
       /\ failed' = failed \cup F
       /\ taken' = Taken(F)
       /\ Spoil(F \ {"palette"})
       /\ pc' = IF F \cap {"block", "stream"} # {} \/ Overruns(F)
                THEN "undefined" ELSE "free"
  /\ UNCHANGED <<gdi, depth, live, ret, saved, captures>>

ToStreamUntold ==
  /\ pc = "stream"
  /\ \E F \in SUBSET {"palette", "stream"} :
       /\ failed' = failed \cup F
       /\ taken' = Taken(F)
       /\ Spoil(F)
       /\ ret' = ("stream" \in F)
       /\ pc' = IF "stream" \in F THEN "free" ELSE "image"
  /\ UNCHANGED <<gdi, depth, live, saved, captures>>

\* SaveBitmapToStream.  A palette that cannot be selected leaves the window's DC
\* unreleased.  A block that cannot be allocated is written to all the same.  A
\* stream that cannot be created leaves the block, which it would have owned; the
\* bitmap is deleted.
ToStream ==
  /\ pc = "stream"
  /\ \E F \in StreamCalls :
       LET unreleased == IF "windowDC" \in F THEN {} ELSE F \cap {"palette"}
       IN /\ failed' = failed \cup F
          /\ taken' = Taken(F)
          /\ Spoil(unreleased \cup (F \cap {"stream"}))
          /\ Acquire((IF unreleased # {} THEN {"windowDC"} ELSE {})
                       \cup ({"block", "stream"} \ F),
                     IF "stream" \in F THEN {"bitmap"} ELSE {})
          /\ pc' = IF "block" \in F \/ Overruns(F) THEN "undefined"
                   ELSE IF "stream" \in F THEN "free" ELSE "image"
  /\ UNCHANGED <<gdi, depth, ret, saved, captures>>

\* An image over the stream is saved as image/jpeg, or not: without GDI+, for want
\* of space, under a name that is none.  Nobody looks.  The stream, its block and the
\* bitmap are given back.
SaveImage ==
  /\ pc = "image"
  /\ \/ gdi /\ saved' = TRUE /\ UNCHANGED failed
     \/ failed' = failed \cup {"image"} /\ UNCHANGED saved
  /\ ret' = TRUE
  /\ Acquire({}, {"stream", "block", "bitmap"})
  /\ pc' = "free"
  /\ UNCHANGED <<gdi, depth, taken, spoilt, captures>>

\* The file name's memory is given back, and WorkEnd answers.
Free ==
  /\ pc = "free"
  /\ Acquire({}, {"name"})
  /\ pc' = "idle"
  /\ UNCHANGED <<gdi, depth, taken, ret, failed, saved, spoilt, captures>>

------------------------------------------------------------------------------
WorkerStep == Work \/ FindEncoder \/ Grab \/ ToStream \/ SaveImage \/ Free

Next == ChangeMode \/ CloseDialog \/ WorkerStep

Spec == Init /\ [][Next]_vars
------------------------------------------------------------------------------
(* Properties.                                                             *)

\* What the worker has in hand, and is going to give back.
InHand == CASE pc \in {"encoder", "grab", "free"} -> {"name"}
            [] pc = "stream"                      -> {"name", "bitmap"}
            [] pc = "image"                       -> {"name", "bitmap", "block", "stream"}
            [] OTHER                              -> {}

\* What the failures so far have left behind.
LeftBehind(k) == CASE k = "bitmap"   -> spoilt["memDC"]
                   [] k = "windowDC" -> spoilt["palette"]
                   [] k = "block"    -> spoilt["stream"]
                   [] OTHER          -> 0

\* Besides what the worker has in hand, the only objects that live are the ones left
\* behind by the three calls whose failure is not undone, one for each time: a
\* screenshot that works leaves nothing, however many there have been.
OnlyFailuresLeak ==
  pc # "undefined" => \A k \in Kinds : live[k] = LeftBehind(k) + Count(InHand, k)

\* The answer is "result" only if the picture was saved, or failed to be at the very
\* last, when the image is written; "error" only if it was not saved.
ResultIsTrue ==
  pc \in {"free", "idle"} => (ret <=> saved \/ "image" \in failed)

\* The worker goes astray only if the dialog is closed under it, there is no memory
\* for the picture, or the picture is one with a palette: the screen had at most 8
\* bits a pixel when they were asked for, or could not be asked.
StaysDefined ==
  pc = "undefined" =>
    \/ ~gdi
    \/ "block" \in failed
    \/ taken <= 8 /\ (taken = 0 => "depthDC" \in failed)
==============================================================================
