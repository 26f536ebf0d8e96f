---------------------------- MODULE AtomicRounds ----------------------------
(***************************************************************************)
(* What threads that guard a counter with mutexes promise to whoever reads *)
(* the counts they print: each round of a thread happens at one moment. It *)
(* adds Work to the count, whatever the other threads are doing, and no    *)
(* thread makes more than its Rounds.                                      *)
(*                                                                         *)
(* There are no mutexes here, and no load and store: that is how the rounds*)
(* are kept apart, not what they do.                                       *)
(***************************************************************************)
EXTENDS Naturals

CONSTANTS Thread, Rounds, Work

VARIABLES
  count,   \* as it was printed last
  made     \* of each thread: the rounds it has made

roundVars == <<count, made>>

Init ==
  /\ count = 0
  /\ made = [t \in Thread |-> 0]

Round(t) ==
  /\ made[t] < Rounds
  /\ count' = count + Work
  /\ made' = [made EXCEPT ![t] = @ + 1]

Next == \E t \in Thread : Round(t)

Spec == Init /\ [][Next]_roundVars

=============================================================================
