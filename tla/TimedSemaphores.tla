-------------------------- MODULE TimedSemaphores --------------------------
(***************************************************************************)
(* The programs whose threads sleep on semaphores that timers post:        *)
(*   ping_pong_pThread_withTimer/ping_pong_pThread_withTimer.c             *)
(*   ping_pong_pThread_withTimer_semArg/..._semArg.c                       *)
(*   chatGPT_3Threads_withTimers/chatGPT_3Threads_withTimers.c             *)
(*   chatGPT_3Threads_withAlarm/chatGPT_3Threads_withAlarm.c               *)
(* They differ in their timers and in how a time-out reaches the program,  *)
(* and so in what a time-out may do to a thread it was not meant for.      *)
(*                                                                         *)
(* Thread t waits on semaphore t, which the handler of timer t posts.  The *)
(* kernel and glibc are external.  Time is abstracted: an armed timer      *)
(* expires some time later, however late the threads, handlers and main    *)
(* are by then.                                                            *)
(***************************************************************************)
EXTENDS Integers, Sequences, FiniteSets, Functions

CONSTANTS
  Programs,     \* descriptions of the programs considered
  MaxExpired    \* bound: time-outs of each periodic timer

Notification == {"SIGEV_THREAD", "SIGEV_SIGNAL", "SIGALRM"}
Forever == 0    \* rounds of a thread that loops without end

\* threads   how many there are
\* timers    the timer armed by each of main's calls, in order
\* periodic  whether a timer that expired is armed again
\* notify    how a time-out is handled: by a thread that the C library starts,
\*           by a handler installed with sigaction() or with signal()
\* rounds    passes of a thread through its loop
\* realtime  whether the threads ask for SCHED_FIFO, which takes a privilege
\* A program whose handler may interrupt a wait sets each of its timers once, so
\* that a timer names its time-out.
Program == [threads  : Nat \ {0},
            timers   : Seq(Nat \ {0}),
            periodic : BOOLEAN,
            notify   : Notification,
            rounds   : Nat,
            realtime : BOOLEAN]

ASSUME TimedSemaphoresAssumption ==
  /\ Programs \subseteq Program
  /\ \A p \in Programs :
       p.timers # <<>> /\ \A k \in 1..Len(p.timers) : p.timers[k] <= p.threads
  /\ \A p \in Programs : p.notify = "SIGEV_SIGNAL" =>
       ~p.periodic /\ IsInjective(p.timers)
  /\ MaxExpired \in Nat

VARIABLES
  program,      \* which of the programs runs; never changes
  main_pc,      \* place of main, or how the process ended
  call,         \* main's loop counter: the next timer to arm or thread to join
  created,      \* threads whose creation succeeded
  armed,        \* timers that are running
  pending,      \* timers with an expiry that waits to be handled
  handlers,     \* per timer: handler threads that have yet to post
  sem,          \* per semaphore: its value
  pc, i,        \* per thread: its place, and its passes through sem_wait()
  expired,      \* history, per timer: how often it expired,
  overrun,      \*   and how often while the expiry before was still pending
  interruptedBy \* history, per thread: timers whose handler interrupted it

mainVars == <<main_pc, call, created>>
timerVars == <<armed, expired, overrun>>
threadVars == <<pc, i, interruptedBy>>
vars == <<program, mainVars, timerVars, pending, handlers, sem, threadVars>>

-----------------------------------------------------------------------------
Thread == 1..program.threads

\* The process has not ended.
Running == main_pc \notin {"returned", "ended"}

Add(f, x, n) == [f EXCEPT ![x] = @ + n]

Init ==
  /\ program \in Programs
  /\ main_pc = "create" /\ call = 1 /\ created = {}
  /\ armed = {} /\ pending = {}
  /\ handlers = [x \in Thread |-> 0]
  /\ sem = [x \in Thread |-> 0]
  /\ pc = [t \in Thread |-> "wait"]
  /\ i = [t \in Thread |-> 0]
  /\ expired = [x \in Thread |-> 0]
  /\ overrun = [x \in Thread |-> 0]
  /\ interruptedBy = [t \in Thread |-> {}]

-----------------------------------------------------------------------------
(* main *)

\* pthread_create(), whose result is ignored.  Thread t asks for priority t, and
\* without the privilege only priorities up to some limit are granted: none at
\* all by default.
Create ==
  /\ main_pc = "create"
  /\ \E m \in IF program.realtime THEN 0..program.threads ELSE {program.threads} :
       created' = 1..m
  /\ main_pc' = "timers"
  /\ UNCHANGED <<program, call, timerVars, pending, handlers, sem, threadVars>>

\* timer_create(): if it fails create_timer() exits; and the ping-pong programs
\* leave sigev_notify_attributes uninitialised, which may crash it.  There is no
\* such call in front of alarm().
CreateTimers ==
  /\ main_pc = "timers"
  /\ main_pc' \in IF program.notify = "SIGALRM" THEN {"arm"} ELSE {"arm", "ended"}
  /\ UNCHANGED <<program, call, created, timerVars, pending, handlers, sem, threadVars>>

\* A loop that begins with the second timer.
ArmSkipsFirst ==
  /\ main_pc = "arm"
  /\ armed' = IF call = 1 THEN armed ELSE armed \cup {program.timers[call]}
  /\ IF call < Len(program.timers)
     THEN call' = call + 1 /\ UNCHANGED main_pc
     ELSE call' = 1 /\ main_pc' = "join"
  /\ UNCHANGED <<program, created, expired, overrun, pending, handlers, sem, threadVars>>

\* timer_settime() or alarm().  A timer that is running is set anew: of two calls
\* of alarm() only the later one expires, unless the earlier has already.
Arm ==
  /\ main_pc = "arm"
  /\ armed' = armed \cup {program.timers[call]}
  /\ IF call < Len(program.timers)
     THEN call' = call + 1 /\ UNCHANGED main_pc
     ELSE call' = 1 /\ main_pc' = "join"
  /\ UNCHANGED <<program, created, expired, overrun, pending, handlers, sem, threadVars>>

\* pthread_join() of a thread that was not created is undefined: the id is not
\* initialised.  It returns an error (ignored), crashes or blocks.
AfterJoin ==
  LET next == IF call < program.threads THEN "join" ELSE "returned"
  IN  IF call \in created THEN {next} ELSE {next, "ended", "hung"}

\* The joins, and after the last of them the destroys and the return.
Join ==
  /\ main_pc = "join"
  /\ call \in created => pc[call] = "finished"
  /\ main_pc' \in AfterJoin
  /\ call' = IF main_pc' = "join" THEN call + 1 ELSE call
  /\ UNCHANGED <<program, created, timerVars, pending, handlers, sem, threadVars>>

Main == Create \/ CreateTimers \/ Arm \/ Join

-----------------------------------------------------------------------------
(* Kernel and C library (external) *)

\* At most one expiry of a timer is queued; a further one is an overrun.
Expire(x) ==
  /\ Running
  /\ x \in armed
  /\ program.periodic => expired[x] < MaxExpired
  /\ armed' = IF program.periodic THEN armed ELSE armed \ {x}
  /\ expired' = Add(expired, x, 1)
  /\ pending' = pending \cup {x}
  /\ overrun' = IF x \in pending THEN Add(overrun, x, 1) ELSE overrun
  /\ UNCHANGED <<program, mainVars, handlers, sem, threadVars>>

\* SIGEV_THREAD: the C library's helper takes the expiry and starts a thread for
\* the handler.
StartHandler(x) ==
  /\ Running
  /\ program.notify = "SIGEV_THREAD"
  /\ x \in pending
  /\ pending' = pending \ {x}
  /\ handlers' = Add(handlers, x, 1)
  /\ UNCHANGED <<program, mainVars, timerVars, sem, threadVars>>

\* ping_timer_handler(), pong_timer_handler()
Post(x) ==
  /\ Running
  /\ handlers[x] > 0
  /\ handlers' = Add(handlers, x, -1)
  /\ sem' = Add(sem, x, 1)
  /\ UNCHANGED <<program, mainVars, timerVars, pending, threadVars>>

\* A handler that returns by its default case.
HandleDefault(x) ==
  /\ Running
  /\ program.notify # "SIGEV_THREAD"
  /\ x \in pending
  /\ pending' = pending \ {x}
  /\ UNCHANGED <<program, mainVars, timerVars, handlers, sem, threadVars>>

\* timer_handler() in main, or in a thread that it does not disturb.
Handle(x) ==
  /\ Running
  /\ program.notify # "SIGEV_THREAD"
  /\ x \in pending
  /\ pending' = pending \ {x}
  /\ sem' = Add(sem, x, 1)
  /\ UNCHANGED <<program, mainVars, timerVars, handlers, threadVars>>

\* A handler installed with sigaction() without SA_RESTART, for the alarms too.
InterruptAlways(x, t) ==
  /\ Running
  /\ program.notify # "SIGEV_THREAD"
  /\ x \in pending
  /\ t \in created /\ pc[t] = "wait"
  /\ pending' = pending \ {x}
  /\ sem' = Add(sem, x, 1)
  /\ i' = Add(i, t, 1)
  /\ pc' = [pc EXCEPT ![t] = "run"]
  /\ interruptedBy' = [interruptedBy EXCEPT ![t] = @ \cup {x}]
  /\ UNCHANGED <<program, mainVars, timerVars, handlers>>

\* timer_handler() in a thread that sleeps in sem_wait(): the handler was
\* installed without SA_RESTART, so sem_wait() fails with EINTR, and the thread
\* goes on as if its semaphore had been posted.  signal() asks for a restart.
Interrupt(x, t) ==
  /\ Running
  /\ program.notify = "SIGEV_SIGNAL"
  /\ x \in pending
  /\ t \in created /\ pc[t] = "wait"
  /\ pending' = pending \ {x}
  /\ sem' = Add(sem, x, 1)
  /\ i' = Add(i, t, 1)
  /\ pc' = [pc EXCEPT ![t] = "run"]
  /\ interruptedBy' = [interruptedBy EXCEPT ![t] = @ \cup {x}]
  /\ UNCHANGED <<program, mainVars, timerVars, handlers>>

-----------------------------------------------------------------------------
(* ping_thread(), pong_thread(), thread_function() *)

\* A sem_wait() that finds the semaphore posted and leaves it so.
WakeKeepsPost(t) ==
  /\ Running
  /\ t \in created /\ pc[t] = "wait"
  /\ sem[t] > 0
  /\ i[t] <= MaxExpired
  /\ i' = Add(i, t, 1)
  /\ pc' = [pc EXCEPT ![t] = "run"]
  /\ UNCHANGED <<program, mainVars, timerVars, pending, handlers, sem, interruptedBy>>

\* A sem_wait() that does not wait, once.
WakeUnposted(t) ==
  /\ Running
  /\ t \in created /\ pc[t] = "wait"
  /\ sem[t] >= 0
  /\ sem' = Add(sem, t, -1)
  /\ i' = Add(i, t, 1)
  /\ pc' = [pc EXCEPT ![t] = "run"]
  /\ UNCHANGED <<program, mainVars, timerVars, pending, handlers, interruptedBy>>

\* sem_wait() returns.
Wake(t) ==
  /\ Running
  /\ t \in created /\ pc[t] = "wait"
  /\ sem[t] > 0
  /\ sem' = Add(sem, t, -1)
  /\ i' = Add(i, t, 1)
  /\ pc' = [pc EXCEPT ![t] = "run"]
  /\ UNCHANGED <<program, mainVars, timerVars, pending, handlers, interruptedBy>>

\* A loop that ends one pass early.
RunOneLess(t) ==
  /\ Running
  /\ t \in created /\ pc[t] = "run"
  /\ pc' = [pc EXCEPT ![t] = IF i[t] + 1 = program.rounds THEN "finished" ELSE "wait"]
  /\ UNCHANGED <<program, mainVars, timerVars, pending, handlers, sem, i, interruptedBy>>

\* printf() and, with alarms, sleep(1); then the loop's condition.
Run(t) ==
  /\ Running
  /\ t \in created /\ pc[t] = "run"
  /\ pc' = [pc EXCEPT ![t] = IF i[t] = program.rounds THEN "finished" ELSE "wait"]
  /\ UNCHANGED <<program, mainVars, timerVars, pending, handlers, sem, i, interruptedBy>>

-----------------------------------------------------------------------------
TimerStep(x) ==
  \/ Expire(x) \/ StartHandler(x) \/ Post(x) \/ Handle(x)
  \/ \E t \in Thread : Interrupt(x, t)

ThreadStep(t) == Wake(t) \/ Run(t)

Next ==
  \/ Main
  \/ \E x \in Thread : TimerStep(x)
  \/ \E t \in Thread : ThreadStep(t)

Spec == Init /\ [][Next]_vars

\* The kernel runs every thread that can run; a timer that is armed expires; a
\* pending signal is delivered, to whomever.  Threads exist per program.
Live(t) ==
  /\ WF_vars(t \in Thread /\ ThreadStep(t))
  /\ WF_vars(t \in Thread /\ Expire(t))
  /\ WF_vars(t \in Thread /\ (StartHandler(t) \/ Handle(t) \/ \E u \in Thread : Interrupt(t, u)))
  /\ WF_vars(t \in Thread /\ Post(t))

MaxThreads == CHOOSE n \in {p.threads : p \in Programs} : \A p \in Programs : p.threads <= n

FairSpec == Spec /\ WF_vars(Main) /\ \A t \in 1..MaxThreads : Live(t)

-----------------------------------------------------------------------------
TypeOK ==
  /\ program \in Programs
  /\ main_pc \in {"create", "timers", "arm", "join", "hung", "returned", "ended"}
  /\ call \in Nat \ {0}
  /\ main_pc \in {"create", "timers"} => call = 1
  /\ main_pc = "arm" => call <= Len(program.timers)
  /\ created \subseteq Thread
  /\ armed \subseteq Thread /\ pending \subseteq Thread
  /\ handlers \in [Thread -> Nat]
  /\ sem \in [Thread -> Nat]
  /\ pc \in [Thread -> {"wait", "run", "finished"}]
  /\ i \in [Thread -> Nat]
  /\ expired \in [Thread -> Nat]
  /\ overrun \in [Thread -> Nat]
  /\ interruptedBy \in [Thread -> SUBSET Thread]

-----------------------------------------------------------------------------
(* Safety *)

\* Passes of t through its loop that a post paid for.
Taken(t) == i[t] - Cardinality(interruptedBy[t])

\* An expiry that waits to be handled.
Waiting(x) == IF x \in pending THEN 1 ELSE 0

\* No time-out is lost or handled twice on its way from the timer through
\* handler and semaphore to the thread's loop, however far the thread is behind;
\* the only ones without a post of their own are the kernel's overruns.
Accounted ==
  \A x \in Thread :
    expired[x] = overrun[x] + Waiting(x) + handlers[x] + sem[x] + Taken(x)

Owner(t) == \E k \in 1..Len(program.timers) : program.timers[k] = t

\* No thread ever ends, in the programs that count their passes either: three
\* threads wait five times each for timers that fire once, and not even the
\* passes without a post suffice.  main waits for them for ever, unless there is
\* no thread.
NobodyFinishes ==
  /\ \A t \in Thread : pc[t] # "finished"
  /\ main_pc = "returned" => created = {}

\* How often main sets timer x.
Calls(x) == Cardinality({k \in 1..Len(program.timers) : program.timers[k] = x})

\* Its time-outs that are handled, each on its own.
Kept(x) == expired[x] - overrun[x]

Promise == INSTANCE TimeOuts WITH
             calls <- [x \in Thread |-> Calls(x)],
             periodic <- program.periodic,
             disturbing <- (program.notify = "SIGEV_SIGNAL"),
             kept <- [x \in Thread |-> Kept(x)],
             taken <- [t \in Thread |-> Taken(t)],
             disturbedBy <- interruptedBy

\* Timers, handlers, semaphores and threads together deliver time-outs one by one:
\* each step but a few is invisible from the loops of the threads, a time-out pays
\* for one pass, and a disturbance is the only way to pass for nothing.
ImplementsTimeOuts == Promise!Spec

-----------------------------------------------------------------------------
(* Liveness *)

Owed(t) == t \in pending \/ handlers[t] > 0 \/ sem[t] > 0

\* A thread handles every time-out of its timer that was not an overrun, one pass
\* for each, although it may be asleep, at work or interrupted when they come.
OwedIsTaken ==
  \A t \in 1..MaxThreads : \A n \in 0..MaxExpired :
    (t \in created /\ Running /\ Owed(t) /\ Taken(t) = n) ~> (t \in created => Taken(t) > n)

\* Every thread with a timer is woken once main has come to its joins.
OwnersWoken ==
  \A t \in 1..MaxThreads :
    (main_pc = "join" /\ t \in created /\ Owner(t)) ~> (t \in created => Taken(t) > 0)

=============================================================================
