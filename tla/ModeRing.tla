------------------------------ MODULE ModeRing ------------------------------
(***************************************************************************)
(* The ring of modes that the keyboard-driven controllers turn, and what a *)
(* press does to it.  KeyDial and StickyDial are two machines on this ring.*)
(***************************************************************************)
EXTENDS Naturals

Size == 3  \* conductivity, pH and millivolt

Position == 0..(Size - 1)
Press == {"left", "right"}

\* The position d leads to from m.
Shifted(m, d) ==
  CASE d = "right" -> (m + 1) % Size
    [] d = "left"  -> (m + Size - 1) % Size
    [] OTHER       -> m

=============================================================================
