------------------------------ MODULE KeyDial ------------------------------
(***************************************************************************)
(* What a keyboard-driven mode controller promises, with no threads in it. *)
(*                                                                         *)
(* A dial has Size positions on a ring.  Presses ("left", "right") go into *)
(* a slot that holds one of them.  The controller takes the slot's content *)
(* and turns the dial by what it took: one position to the left or right,  *)
(* or not at all if the slot was empty.  A press that comes while another  *)
(* one waits replaces it, and a press that comes while the controller is   *)
(* between a take and the turn may be lost; nothing else loses a press and *)
(* no press is ever acted on twice.                                        *)
(*                                                                         *)
(* Until the dial has been started (open = TRUE) its position is arbitrary.*)
(* Once started it stays so, and then only a turn moves the dial.          *)
(***************************************************************************)
EXTENDS ModeRing

VARIABLES
  mode,      \* position of the dial
  open,      \* TRUE until start-up is over
  slot,      \* the press that waits, or "none"
  serving,   \* what the controller took: a press, "none", or "idle"
  presses,   \* number of presses so far
  turned     \* number of them that have turned the dial

dialVars == <<mode, open, slot, serving, presses, turned>>

Init ==
  /\ mode \in Position
  /\ open = TRUE
  /\ slot = "none"
  /\ serving = "idle"
  /\ presses = 0
  /\ turned = 0

\* Start-up sets the dial, and may be over afterwards.
StartUp ==
  /\ open
  /\ mode' \in Position
  /\ open' \in BOOLEAN
  /\ UNCHANGED <<slot, serving, presses, turned>>

\* A press fills or refills the slot; it may be lost while one is served.
Arrive(d) ==
  /\ presses' = presses + 1
  /\ slot' = d \/ (serving # "idle" /\ slot' = slot)
  /\ UNCHANGED <<mode, open, serving, turned>>

Take ==
  /\ serving = "idle"
  /\ serving' = slot
  /\ slot' = "none"
  /\ UNCHANGED <<mode, open, presses, turned>>

Turn ==
  /\ serving # "idle"
  /\ serving' = "idle"
  /\ turned' = IF serving \in Press THEN turned + 1 ELSE turned
  /\ \/ mode' = Shifted(mode, serving) /\ UNCHANGED open
     \/ open /\ mode' \in Position /\ open' \in BOOLEAN
  /\ UNCHANGED <<slot, presses>>

Next ==
  \/ StartUp
  \/ \E d \in Press : Arrive(d)
  \/ Take
  \/ Turn

Spec == Init /\ [][Next]_dialVars

=============================================================================
