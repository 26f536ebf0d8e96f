---------------------------- MODULE MCLockOrder ----------------------------
(***************************************************************************)
(* The lock orders of the three mutex programs, as values of Order.        *)
(***************************************************************************)
EXTENDS LockOrder

\* mutex_deadlock.c: thread 1 takes mutex1 first, thread 2 takes mutex2 first.
CrossedOrder ==
  [t \in Thread |-> IF t = 1 THEN <<"mutex1", "mutex2">> ELSE <<"mutex2", "mutex1">>]

\* mutex_nested.c: both threads take mutex1, then mutex2.
NestedOrder == [t \in Thread |-> <<"mutex1", "mutex2">>]

\* mutex_sharedVariable_pThread.c: one mutex.
SingleOrder == [t \in Thread |-> <<"mutex">>]

=============================================================================
