-------------------------------- MODULE Layout --------------------------------
(***************************************************************************)
(* Where CCellViewDlg::InitCtrl (CellView/CellViewDlg.cpp) puts the        *)
(* dialog's controls, on which pages, and what each of them draws.  A      *)
(* rectangle has its left and upper edges and not its right and lower ones,*)
(* as PtInRect has it; w and h are the client area's size, uid and pass    *)
(* the heights of the two input fields, text the height of a line.         *)
(***************************************************************************)
EXTENDS Integers

Controls == {"close", "min", "ulogin", "guest", "uid", "upass", "last", "next", "info"}

\* m_Page0Ctrls to m_Page3Ctrls.
OnPage == [p \in 0 .. 3 |-> {"close", "min"} \cup
                            CASE p = 0 -> {"info"}
                              [] p = 1 -> {"ulogin", "guest"}
                              [] p = 2 -> {"uid", "upass", "last", "next"}
                              [] p = 3 -> {"last", "info"}]

\* The labels without m_DrawBK, which the mouse does not see and which draw their
\* text alone.
Plain == {"uid", "upass", "info"}

Rect(l, t, r, b) == [l |-> l, t |-> t, r |-> r, b |-> b]

WorkRect(w, h, uid, pass) ==
  [c \in Controls |->
     CASE c = "close"  -> Rect(w - 30, 0, w, 20)
       [] c = "min"    -> Rect(w - 60, 0, w - 30, 20)
       [] c = "ulogin" -> Rect(w \div 2 - 100, h \div 2 - 80, w \div 2 + 100, h \div 2 - 10)
       [] c = "guest"  -> Rect(w \div 2 - 100, h \div 2 + 10, w \div 2 + 100, h \div 2 + 80)
       [] c = "uid"    -> Rect(0, 70, 100, 70 + uid)
       [] c = "upass"  -> Rect(0, 100 + uid, 100, 100 + uid + pass)
       [] c = "last"   -> Rect(50, h - 70, 104, h - 30)
       [] c = "next"   -> Rect(w - 104, h - 70, w - 50, h - 30)
       [] c = "info"   -> Rect(4, h \div 2 - 60, w - 4, h \div 2 + 60)]

\* The part of its rectangle that a control draws in: a line of text in the middle, or
\* all of it.
Drawn(c, q, text) == IF c \in Plain THEN Rect(q.l, (q.t + q.b - text) \div 2,
                                              q.r, (q.t + q.b + text) \div 2)
                                    ELSE q

Meet(q, s) == /\ q.l < s.r /\ s.l < q.r
              /\ q.t < s.b /\ s.t < q.b

\* The other controls that have drawn in the rectangle of each.
UnderRect(w, h, uid, pass, text) ==
  LET rc == WorkRect(w, h, uid, pass)
  IN [c \in Controls |-> {d \in Controls \ {c} : Meet(rc[c], Drawn(d, rc[d], text))}]

------------------------------------------------------------------------------
(* What the layout is for.                                                 *)

\* The mouse sees one control at a point, and all of each control.
MouseSeesOne(w, h, rc) ==
  \A p \in 0 .. 3 : \A c \in OnPage[p] \ Plain :
    /\ 0 <= rc[c].l /\ rc[c].r <= w /\ 0 <= rc[c].t /\ rc[c].b <= h
    /\ \A d \in OnPage[p] \ Plain : c # d => ~Meet(rc[c], rc[d])

\* Of the controls that the mouse changes, "last" alone has drawn over another, a label.
ChangesLieApart(under) ==
  \A p \in 0 .. 3 : \A c \in OnPage[p] \ Plain :
    under[c] \cap OnPage[p] \subseteq IF c = "last" THEN {"uid", "upass"} ELSE {}
===============================================================================
