----------------------------- MODULE LockOrder -----------------------------
(***************************************************************************)
(* The mutex programs: mutex_nested.c, mutex_deadlock.c and                *)
(* mutex_sharedVariable_pThread.c.  N threads run the same loop: take a    *)
(* sequence of mutexes, increment sharedVariable Work times, print it and  *)
(* release the mutexes in the reverse order.  main creates the threads and *)
(* joins all of them Joins times over.  The programs differ in the order   *)
(* in which each thread takes the mutexes and in Joins.                    *)
(*                                                                         *)
(* sharedVariable++ is a load and a store.  Nothing here needs a bound:    *)
(* the loops of the code are finite, the runs only shorten them.           *)
(***************************************************************************)
EXTENDS Integers, Sequences

CONSTANTS
  N,       \* number of threads
  Mutex,
  Order,   \* Order[t]: the mutexes thread t takes, first to last
  Rounds,  \* iterations of a thread's loop: 5 in the code
  Work,    \* increments in one iteration: 10000 in the code
  Joins,   \* iterations of main's join loop: 5, or 1 for no loop
  CreationChecked  \* whether main looks at the result of pthread_create();
                   \*   where it does not, creation is taken to succeed

Thread == 1..N   \* in the order in which main creates and joins them
NoThread == 0
ESRCH == 3        \* any error number would do

\* A thread takes at least one mutex and none twice: the mutexes are of the
\* default kind, which a thread must not lock again.
ASSUME LockOrderAssumption ==
  /\ N \in Nat \ {0}
  /\ Rounds \in Nat \ {0} /\ Work \in Nat \ {0} /\ Joins \in Nat \ {0}
  /\ CreationChecked \in BOOLEAN
  /\ Order \in [Thread -> Seq(Mutex)]
  /\ \A t \in Thread : Len(Order[t]) > 0
  /\ \A t \in Thread : \A k, l \in 1..Len(Order[t]) :
       Order[t][k] = Order[t][l] => k = l

VARIABLES
  owner,           \* of each mutex
  sharedVariable,
  pc, held, i, j, register,       \* of each thread; held counts its mutexes
  main_pc, main_i, main_t, ret,   \* ret: error of a join in this iteration
  joined,                         \* threads that have been joined
  printed, reports                \* history: last count printed, how many

threadVars == <<owner, sharedVariable, pc, held, i, j, register, printed, reports>>
mainVars == <<main_pc, main_i, main_t, ret, joined>>
vars == <<owner, sharedVariable, pc, held, i, j, register,
          main_pc, main_i, main_t, ret, joined, printed, reports>>

Init ==
  /\ owner = [m \in Mutex |-> NoThread]
  /\ sharedVariable = 0
  /\ pc = [t \in Thread |-> "new"]
  /\ held = [t \in Thread |-> 0]
  /\ i = [t \in Thread |-> 0]
  /\ j = [t \in Thread |-> 0]
  /\ register = [t \in Thread |-> 0]
  /\ main_pc = "create" /\ main_i = 0 /\ main_t = 1 /\ ret = 0
  /\ joined = {}
  /\ printed = 0
  /\ reports = 0

-----------------------------------------------------------------------------
(* A thread *)

\* The process is gone, and its threads with it.
Ended == main_pc \in {"failed", "exit", "crashed", "returned"}

Wanted(t) == Order[t][held[t] + 1]   \* the mutex it locks next
Newest(t) == Order[t][held[t]]       \* the mutex it unlocks next

\* pthread_mutex_lock() whose error, or that of a trylock, is ignored.
LockUnguarded(t) ==
  /\ pc[t] = "lock"
  /\ owner' = [owner EXCEPT ![Wanted(t)] = t]
  /\ held' = [held EXCEPT ![t] = @ + 1]
  /\ pc' = [pc EXCEPT ![t] = IF held'[t] = Len(Order[t]) THEN "load" ELSE "lock"]
  /\ UNCHANGED <<sharedVariable, i, j, register, printed, reports, mainVars>>

\* pthread_mutex_lock() returns.
Lock(t) ==
  /\ pc[t] = "lock"
  /\ owner[Wanted(t)] = NoThread
  /\ owner' = [owner EXCEPT ![Wanted(t)] = t]
  /\ held' = [held EXCEPT ![t] = @ + 1]
  /\ pc' = [pc EXCEPT ![t] = IF held'[t] = Len(Order[t]) THEN "load" ELSE "lock"]
  /\ UNCHANGED <<sharedVariable, i, j, register, printed, reports, mainVars>>

\* The load of sharedVariable++ ...
Load(t) ==
  /\ pc[t] = "load"
  /\ register' = [register EXCEPT ![t] = sharedVariable]
  /\ pc' = [pc EXCEPT ![t] = "store"]
  /\ UNCHANGED <<owner, sharedVariable, held, i, j, printed, reports, mainVars>>

\* ... and its store.
StoreOneMore(t) ==
  /\ pc[t] = "store"
  /\ sharedVariable' = register[t] + 1
  /\ j' = [j EXCEPT ![t] = @ + 1]
  /\ pc' = [pc EXCEPT ![t] = IF j[t] = Work THEN "report" ELSE "load"]
  /\ UNCHANGED <<owner, held, i, register, printed, reports, mainVars>>

Store(t) ==
  /\ pc[t] = "store"
  /\ sharedVariable' = register[t] + 1
  /\ j' = [j EXCEPT ![t] = @ + 1]
  /\ pc' = [pc EXCEPT ![t] = IF j'[t] = Work THEN "report" ELSE "load"]
  /\ UNCHANGED <<owner, held, i, register, printed, reports, mainVars>>

\* "Shared Count = ..."
Report(t) ==
  /\ pc[t] = "report"
  /\ printed' = sharedVariable
  /\ reports' = reports + 1
  /\ j' = [j EXCEPT ![t] = 0]
  /\ pc' = [pc EXCEPT ![t] = "unlock"]
  /\ UNCHANGED <<owner, sharedVariable, held, i, register, mainVars>>

\* A thread that returns from its last iteration with a mutex still locked.
UnlockReturnsEarly(t) ==
  /\ pc[t] = "unlock"
  /\ owner' = [owner EXCEPT ![Newest(t)] = NoThread]
  /\ held' = [held EXCEPT ![t] = @ - 1]
  /\ IF held[t] > 1 /\ i[t] + 1 < Rounds
     THEN UNCHANGED <<i, pc>>
     ELSE /\ i' = [i EXCEPT ![t] = @ + 1]
          /\ pc' = [pc EXCEPT ![t] = IF i'[t] = Rounds THEN "done" ELSE "lock"]
  /\ UNCHANGED <<sharedVariable, j, register, printed, reports, mainVars>>

\* pthread_mutex_unlock(); the last one ends the iteration.
Unlock(t) ==
  /\ pc[t] = "unlock"
  /\ owner' = [owner EXCEPT ![Newest(t)] = NoThread]
  /\ held' = [held EXCEPT ![t] = @ - 1]
  /\ IF held[t] > 1
     THEN UNCHANGED <<i, pc>>
     ELSE /\ i' = [i EXCEPT ![t] = @ + 1]
          /\ pc' = [pc EXCEPT ![t] = IF i'[t] = Rounds THEN "done" ELSE "lock"]
  /\ UNCHANGED <<sharedVariable, j, register, printed, reports, mainVars>>

Step(t) == ~Ended /\ (Lock(t) \/ Load(t) \/ Store(t) \/ Report(t) \/ Unlock(t))

-----------------------------------------------------------------------------
(* main *)

\* After the last thread of a loop main goes on to pc, else to the next thread.
Onward(next) ==
  IF main_t = N
  THEN main_t' = 1 /\ main_pc' = next
  ELSE main_t' = main_t + 1 /\ UNCHANGED main_pc

Create ==
  /\ main_pc = "create"
  /\ pc' = [pc EXCEPT ![main_t] = "lock"]
  /\ Onward("join")
  /\ UNCHANGED <<owner, sharedVariable, held, i, j, register, printed, reports,
                 main_i, ret, joined>>

\* perror() and exit(EXIT_FAILURE), whatever the threads already there are doing.
CreateFails ==
  /\ CreationChecked
  /\ main_pc = "create"
  /\ main_pc' = "failed"
  /\ UNCHANGED <<threadVars, main_i, main_t, ret, joined>>

JoinDoesNotWait ==
  /\ main_pc = "join"
  /\ main_t \notin joined
  /\ joined' = joined \cup {main_t}
  /\ Onward("check")
  /\ UNCHANGED <<threadVars, main_i, ret>>

\* pthread_join() waits for the thread to return.
Join ==
  /\ main_pc = "join"
  /\ main_t \notin joined
  /\ pc[main_t] = "done"
  /\ joined' = joined \cup {main_t}
  /\ Onward("check")
  /\ UNCHANGED <<threadVars, main_i, ret>>

\* Joining a thread again is undefined: glibc answers ESRCH while it still has
\* the dead thread's descriptor, and crashes if that memory is gone.
JoinAgain ==
  /\ main_pc = "join"
  /\ main_t \in joined
  /\ \/ ret' = ESRCH /\ Onward("check")
     \/ main_pc' = "crashed" /\ UNCHANGED <<main_t, ret>>
  /\ UNCHANGED <<threadVars, main_i, joined>>

\* "Deadlock detected after ... iterations", and exit(EXIT_FAILURE).
Detect ==
  /\ main_pc = "check"
  /\ ret # 0
  /\ main_pc' = "exit"
  /\ UNCHANGED <<threadVars, main_i, main_t, ret, joined>>

JoinLoop ==
  /\ main_pc = "check"
  /\ ret = 0
  /\ main_i' = main_i + 1
  /\ main_pc' = IF main_i' = Joins THEN "destroy" ELSE "join"
  /\ UNCHANGED <<threadVars, main_t, ret, joined>>

\* pthread_mutex_destroy() for each mutex, and return 0.
Destroy ==
  /\ main_pc = "destroy"
  /\ main_pc' = "returned"
  /\ UNCHANGED <<threadVars, main_i, main_t, ret, joined>>

Main == Create \/ CreateFails \/ Join \/ JoinAgain \/ Detect \/ JoinLoop \/ Destroy

-----------------------------------------------------------------------------
Terminating == Ended /\ UNCHANGED vars

Next == (\E t \in Thread : Step(t)) \/ Main \/ Terminating

\* Every thread that can go on does.  A mutex is not handed over in turn, so
\* nothing more is assumed of Lock.
Fairness == WF_vars(Main) /\ \A t \in Thread : WF_vars(Step(t))

Spec == Init /\ [][Next]_vars /\ Fairness

-----------------------------------------------------------------------------
(* Properties *)

InSection(t) == pc[t] \in {"load", "store", "report"}

\* Each variable has its type.
Typed ==
  /\ owner \in [Mutex -> Thread \cup {NoThread}]
  /\ sharedVariable \in Nat
  /\ pc \in [Thread -> {"new", "lock", "load", "store", "report", "unlock", "done"}]
  /\ held \in [Thread -> Nat]
  /\ i \in [Thread -> 0..Rounds]
  /\ j \in [Thread -> 0..Work]
  /\ register \in [Thread -> Nat]
  /\ main_pc \in {"create", "join", "check", "destroy",
                  "failed", "exit", "crashed", "returned"}
  /\ main_i \in 0..Joins /\ main_t \in Thread /\ ret \in {0, ESRCH}
  /\ joined \subseteq Thread
  /\ main_pc \in {"create", "join", "check"} => main_i < Joins
  /\ printed \in Nat /\ reports \in Nat

\* How many mutexes a thread holds at each place of its loop, and how far its
\* two counters are there.
Placed(t) ==
  /\ pc[t] = "lock" => held[t] < Len(Order[t])
  /\ InSection(t) => held[t] = Len(Order[t])
  /\ pc[t] = "unlock" => held[t] \in 1..Len(Order[t])
  /\ pc[t] \in {"new", "done"} => held[t] = 0
  /\ pc[t] # "done" => i[t] < Rounds
  /\ pc[t] \in {"load", "store"} => j[t] < Work
  /\ pc[t] = "report" => j[t] = Work
  /\ ~InSection(t) => j[t] = 0

\* Types, and where each thread is when it holds what: all its mutexes in the
\* section that increments the counter, none before and after its loop.
TypeOK == Typed /\ \A t \in Thread : Placed(t)

AllDone == \A t \in Thread : pc[t] = "done"
Blocked(t) == pc[t] = "lock" /\ owner[Wanted(t)] # NoThread

\* A set of threads each of which waits for a mutex that one of them owns.
CircularWait(S) ==
  S # {} /\ \A t \in S : pc[t] = "lock" /\ owner[Wanted(t)] \in S
Deadlocked == \E S \in SUBSET Thread : CircularWait(S)

\* No increment is lost: the counter is Work for every iteration reported, plus
\* the increments of the one thread that may be in its section.
CountExact ==
  /\ (\A t \in Thread : ~InSection(t)) => sharedVariable = Work * reports
  /\ \A t \in Thread : InSection(t) => sharedVariable = Work * reports + j[t]

\* Iterations a thread has reported: the present one too, once it has printed.
Made(t) == IF pc[t] = "unlock" THEN i[t] + 1 ELSE i[t]

Atomic == INSTANCE AtomicRounds WITH
            count <- printed,
            made <- [t \in Thread |-> Made(t)]

\* The counts printed are those of whole iterations that run one after the other,
\* whatever the interleaving of the increments: each is Work more than the one
\* printed before, and each thread prints Rounds of them at most.
ImplementsRounds == Atomic!Spec

\* Threads that take the mutexes in one common order never wait in a circle.
NoCircularWait == ~Deadlocked

\* Each thread completes its iterations, although nothing makes the mutexes
\* fair, and the counter ends at exactly all of their increments.
AllFinish == <>[](AllDone /\ sharedVariable = N * Rounds * Work)

\* A mutex is destroyed only when it is free and its users are gone.
DestroyedFree ==
  main_pc \in {"destroy", "returned"} =>
    AllDone /\ \A m \in Mutex : owner[m] = NoThread

\* If every thread has ended or waits for a mutex, they have all ended or some
\* of them wait in a circle: no mutex is left locked by a thread that is gone.
StuckOnlyInCircle ==
  (\A t \in Thread : pc[t] = "done" \/ Blocked(t)) => AllDone \/ Deadlocked

\* A circular wait is never resolved.
DeadlockIsForever == [][Deadlocked => Deadlocked']_vars

\* main cannot report a deadlock: while there is one it is creating threads, has
\* failed to, or is blocked in its first join loop.
DeadlockIsSilent ==
  Deadlocked => main_pc \in {"create", "failed", "join"} /\ main_i = 0 /\ ret = 0

\* Every run deadlocks or comes to its end; there is no third outcome.
FinishesOrDeadlocks == <>(Deadlocked \/ Ended)

\* "Deadlock detected after %d iterations" is printed when there is one.
MessageMeansDeadlock == main_pc = "exit" => Deadlocked

=============================================================================
