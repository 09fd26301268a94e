----------------------------- MODULE MCXControls -----------------------------
(* A small instance of XControls for TLC: the layout of the dialog in a font  *)
(* of 6 by 12 pixels, in which the information meets all that the mouse       *)
(* changes but the two buttons in the corner, and "last" meets a label.       *)
EXTENDS XControls

ASSUME InstanceAssumption ==
  LET under == UnderRect(321, 201, 18, 18, 16)
  IN  /\ UnderInfo = under["info"]
      /\ \A p \in 0 .. 3 : \A c \in OnPage[p] \ Plain :
           under[c] \cap OnPage[p] = IF c = "last" THEN UnderLast \cap OnPage[p] ELSE {}

\* Where a page does not have the control, the spot is empty background.  Each of the
\* two buttons of all pages gets the pointer on two of them.
MCSpots == [p \in 0 .. 3 |-> CASE p = 0 -> {"close", "last"}
                               [] p = 1 -> {"close", "min", "ulogin"}
                               [] p = 2 -> {"last", "next"}
                               [] p = 3 -> {"last", "min"}]
==============================================================================
