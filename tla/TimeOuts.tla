------------------------------ MODULE TimeOuts ------------------------------
(***************************************************************************)
(* What a program whose threads sleep until a timer wakes them promises,   *)
(* with no semaphores, signals or handlers in it.                          *)
(*                                                                         *)
(* Timer x belongs to thread x.  Each time-out that is kept (one that comes*)
(* while the one before is still on its way to the program may be dropped) *)
(* pays for one pass of the thread through its loop, now or later, and a   *)
(* timer that is not periodic gives no more of them than main set it times.*)
(* In a program whose handlers are disturbing a time-out may also make some*)
(* sleeping thread pass once without one of its own; no timer does so more *)
(* than once.  There is no other way for a thread to pass.                 *)
(***************************************************************************)
EXTENDS Naturals

VARIABLES
  calls,        \* of each timer: how often main sets it
  periodic, disturbing,
  kept,         \* of each timer: its time-outs that were not dropped
  taken,        \* of each thread: passes paid for by its own timer
  disturbedBy   \* of each thread: timers that made it pass all the same

timeOutVars == <<calls, periodic, disturbing, kept, taken, disturbedBy>>

Timer == DOMAIN calls

Init ==
  /\ kept = [x \in Timer |-> 0]
  /\ taken = [x \in Timer |-> 0]
  /\ disturbedBy = [x \in Timer |-> {}]

TimeOut(x) ==
  /\ calls[x] > 0
  /\ periodic \/ kept[x] < calls[x]
  /\ kept' = [kept EXCEPT ![x] = @ + 1]
  /\ UNCHANGED <<calls, periodic, disturbing, taken, disturbedBy>>

Pass(t) ==
  /\ taken[t] < kept[t]
  /\ taken' = [taken EXCEPT ![t] = @ + 1]
  /\ UNCHANGED <<calls, periodic, disturbing, kept, disturbedBy>>

Disturb(x, t) ==
  /\ disturbing
  /\ kept[x] > 0
  /\ \A u \in Timer : x \notin disturbedBy[u]
  /\ disturbedBy' = [disturbedBy EXCEPT ![t] = @ \cup {x}]
  /\ UNCHANGED <<calls, periodic, disturbing, kept, taken>>

Next ==
  \/ \E x \in Timer : TimeOut(x) \/ Pass(x)
  \/ \E x, t \in Timer : Disturb(x, t)

Spec == Init /\ [][Next]_timeOutVars

=============================================================================
