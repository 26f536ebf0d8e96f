----------------------------- MODULE StickyDial -----------------------------
(***************************************************************************)
(* What a controller promises whose key stays down until another replaces  *)
(* it, with no threads in it.                                              *)
(*                                                                         *)
(* Whoever types decides which key is down, at any time; the controller    *)
(* only ever reads it.  It takes the key that is down, keeps what it took  *)
(* to itself, and turns the dial by that: one position to the left or the  *)
(* right, or not at all if no press was down.  What is typed between the   *)
(* take and the turn has no part in that turn.  Taking leaves the key down,*)
(* so the next take may find the same press again.                         *)
(*                                                                         *)
(* Until the dial has been started (open = TRUE) its position is arbitrary.*)
(* Once started it stays so, and then only a turn moves the dial.          *)
(***************************************************************************)
EXTENDS ModeRing

VARIABLES
  mode,      \* position of the dial
  open,      \* TRUE until start-up is over
  key,       \* the press that is down, or "none"
  serving    \* what the controller took: a press, "none", or "idle"

stickyVars == <<mode, open, key, serving>>

Init ==
  /\ mode \in Position
  /\ open = TRUE
  /\ key = "none"
  /\ serving = "idle"

\* Start-up sets the dial, and may be over afterwards.
StartUp ==
  /\ open
  /\ mode' \in Position
  /\ open' \in BOOLEAN
  /\ UNCHANGED <<key, serving>>

Type(k) ==
  /\ key' = k
  /\ UNCHANGED <<mode, open, serving>>

Take ==
  /\ serving = "idle"
  /\ serving' = key
  /\ UNCHANGED <<mode, open, key>>

Turn ==
  /\ serving # "idle"
  /\ serving' = "idle"
  /\ \/ mode' = Shifted(mode, serving) /\ UNCHANGED open
     \/ open /\ mode' \in Position /\ open' \in BOOLEAN
  /\ UNCHANGED key

Next ==
  \/ StartUp
  \/ \E k \in Press \cup {"none"} : Type(k)
  \/ Take
  \/ Turn

Spec == Init /\ [][Next]_stickyVars

=============================================================================
