---------------------- MODULE TimedSemaphoresProofs ------------------------
(***************************************************************************)
(* Theorems about TimedSemaphores, for every set of programs that satisfy  *)
(* TimedSemaphoresAssumption, with any number of threads and time-outs.    *)
(***************************************************************************)
EXTENDS MCTimedSemaphores, FiniteSetTheorems, TLAPS

\* What the descriptions of the programs say, with Programs unexpanded.
LEMMA ProgramFacts ==
  ASSUME NEW p \in Programs
  PROVE  /\ p.threads \in Nat \ {0}
         /\ p.timers \in Seq(Nat \ {0})
         /\ Len(p.timers) \in Nat \ {0}
         /\ \A k \in 1..Len(p.timers) : p.timers[k] \in 1..p.threads
         /\ p.notify \in Notification
         /\ p.rounds \in Nat
<1>1. /\ p \in Program
      /\ p.timers # <<>> /\ \A k \in 1..Len(p.timers) : p.timers[k] <= p.threads
  BY TimedSemaphoresAssumption
<1>2. /\ p.threads \in Nat \ {0} /\ p.timers \in Seq(Nat \ {0})
      /\ p.notify \in Notification /\ p.rounds \in Nat
  BY <1>1 DEF Program
<1>3. Len(p.timers) \in Nat \ {0} /\ \A k \in 1..Len(p.timers) : p.timers[k] \in Nat \ {0}
  BY <1>1, <1>2
<1> QED
  BY <1>1, <1>2, <1>3

\* A program whose handler interrupts uses each timer once.
LEMMA TimersOnce ==
  ASSUME NEW p \in Programs, p.notify = "SIGEV_SIGNAL"
  PROVE  /\ ~p.periodic
         /\ \A j, k \in 1..Len(p.timers) : p.timers[j] = p.timers[k] => j = k
<1>1. ~p.periodic /\ IsInjective(p.timers) /\ DOMAIN p.timers = 1..Len(p.timers)
  BY TimedSemaphoresAssumption, ProgramFacts
<1> QED
  BY <1>1 DEF IsInjective

-----------------------------------------------------------------------------
\* Places, counters and sets stay in their types; no semaphore goes below zero
\* and no handler thread posts twice.
LEMMA TypeStep == TypeOK /\ [Next]_vars => TypeOK'
<1> SUFFICES ASSUME TypeOK, [Next]_vars
             PROVE  TypeOK'
  OBVIOUS
<1>0. /\ program \in Programs
      /\ Len(program.timers) \in Nat \ {0}
      /\ \A k \in 1..Len(program.timers) : program.timers[k] \in Thread
  BY ProgramFacts DEF TypeOK, Thread
<1> USE DEF TypeOK, Add
<1>1. CASE Create
  <2>1. created' \subseteq Thread
    <3>1. program.threads \in Nat
      BY <1>0, ProgramFacts
    <3>2. PICK m \in IF program.realtime THEN 0..program.threads
                                         ELSE {program.threads} : created' = 1..m
      BY <1>1 DEF Create
    <3>3. m \in 0..program.threads
      BY <3>1, <3>2
    <3> QED
      BY <3>1, <3>2, <3>3 DEF Thread
  <2> QED
    BY <1>1, <2>1 DEF Create, Thread, timerVars, threadVars
<1>2. CASE CreateTimers
  <2>1. main_pc' \in {"arm", "ended"} /\ call' = 1 /\ call' <= Len(program.timers)
    BY <1>0, <1>2 DEF CreateTimers
  <2> QED
    BY <1>2, <2>1 DEF CreateTimers, Thread, timerVars, threadVars
<1>3. CASE Arm
  <2>1. program.timers[call] \in Thread
    BY <1>0, <1>3 DEF Arm
  <2>2. /\ main_pc' \in {"arm", "join"}
        /\ call' \in Nat \ {0}
        /\ main_pc' = "arm" => call' <= Len(program.timers)
    BY <1>0, <1>3 DEF Arm
  <2>3. armed' \subseteq Thread
    BY <1>3, <2>1 DEF Arm
  <2> QED
    BY <1>3, <2>2, <2>3 DEF Arm, Thread, threadVars
<1>4. CASE Join
  <2>1. main_pc' \in {"join", "returned", "ended", "hung"}
    BY <1>4 DEF Join, AfterJoin
  <2>2. call' \in Nat \ {0}
    BY <1>4 DEF Join
  <2> QED
    BY <1>4, <2>1, <2>2 DEF Join, Thread, timerVars, threadVars
<1>5. ASSUME NEW x \in Thread, TimerStep(x)
      PROVE  TypeOK'
  <2>1. CASE Expire(x)
    BY <2>1 DEF Expire, Thread, mainVars, threadVars
  <2>2. CASE StartHandler(x)
    BY <2>2 DEF StartHandler, Thread, mainVars, timerVars, threadVars
  <2>3. CASE Post(x)
    BY <2>3 DEF Post, Thread, mainVars, timerVars, threadVars
  <2>4. CASE Handle(x)
    BY <2>4 DEF Handle, Thread, mainVars, timerVars, threadVars
  <2>5. ASSUME NEW t \in Thread, Interrupt(x, t)
        PROVE  TypeOK'
    <3>1. interruptedBy' \in [Thread -> SUBSET Thread]
      BY <2>5 DEF Interrupt
    <3>2. sem' \in [Thread -> Nat] /\ i' \in [Thread -> Nat]
      BY <2>5 DEF Interrupt
    <3>3. pc' \in [Thread -> {"wait", "run", "finished"}] /\ pending' \subseteq Thread
      BY <2>5 DEF Interrupt
    <3> QED
      BY <2>5, <3>1, <3>2, <3>3 DEF Interrupt, Thread, mainVars, timerVars
  <2> QED
    BY <1>5, <2>1, <2>2, <2>3, <2>4, <2>5 DEF TimerStep
<1>6. ASSUME NEW t \in Thread, ThreadStep(t)
      PROVE  TypeOK'
  <2>1. CASE Wake(t)
    BY <2>1 DEF Wake, Thread, mainVars, timerVars
  <2>2. CASE Run(t)
    BY <2>2 DEF Run, Thread, mainVars, timerVars
  <2> QED
    BY <1>6, <2>1, <2>2 DEF ThreadStep
<1>7. CASE UNCHANGED vars
  BY <1>7 DEF vars, Thread, mainVars, timerVars, threadVars
<1> QED
  BY <1>1, <1>2, <1>3, <1>4, <1>5, <1>6, <1>7 DEF Next, Main

\* TypeOK holds throughout, in every program.
THEOREM TypeCorrect == Spec => []TypeOK
<1>1. Init => TypeOK
  BY DEF Init, TypeOK, Thread
<1> QED
  BY <1>1, TypeStep, PTL DEF Spec

-----------------------------------------------------------------------------
\* main has set timer x.
Called(x) ==
  /\ main_pc \notin {"create", "timers"}
  /\ \E k \in 1..Len(program.timers) :
       program.timers[k] = x /\ (main_pc = "arm" => k < call)

\* Whatever expired was set, and where handlers interrupt it was set once and
\* expires once.
TimersInv ==
  \A x \in Thread :
    /\ x \in armed \/ expired[x] > 0 => Called(x)
    /\ x \in pending => expired[x] > 0
    /\ program.notify = "SIGEV_SIGNAL" =>
         expired[x] <= 1 /\ (x \in armed => expired[x] = 0)

\* No timer is unset, and the program stays the same.
LEMMA CalledStays == ASSUME TypeOK, [Next]_vars, NEW x \in Thread, Called(x)
                     PROVE  Called(x)'
<1> USE DEF Called
<1>1. program' = program
  BY DEF Next, vars, Main, Create, CreateTimers, Arm, Join, TimerStep, Expire,
         StartHandler, Post, Handle, Interrupt, ThreadStep, Wake, Run
<1>2. CASE Arm
  BY <1>1, <1>2 DEF Arm, TypeOK
<1>3. CASE Create \/ CreateTimers
  BY <1>3 DEF Create, CreateTimers
<1>4. CASE Join
  BY <1>1, <1>4 DEF Join, AfterJoin
<1>5. CASE UNCHANGED mainVars
  BY <1>1, <1>5 DEF mainVars
<1>6. Arm \/ Create \/ CreateTimers \/ Join \/ UNCHANGED mainVars
  BY DEF Next, vars, Main, TimerStep, Expire, StartHandler, Post, Handle,
         Interrupt, ThreadStep, Wake, Run
<1> QED
  BY <1>2, <1>3, <1>4, <1>5, <1>6

LEMMA TimersStep == TypeOK /\ TimersInv /\ [Next]_vars => TimersInv'
<1> SUFFICES ASSUME TypeOK, TimersInv, [Next]_vars
             PROVE  TimersInv'
  OBVIOUS
<1>1. program' = program /\ Thread' = Thread /\ program \in Programs
  BY DEF Next, vars, Main, Create, CreateTimers, Arm, Join, TimerStep, Expire,
         StartHandler, Post, Handle, Interrupt, ThreadStep, Wake, Run, Thread, TypeOK
<1>2. SUFFICES ASSUME NEW y \in Thread
               PROVE  /\ y \in armed' \/ expired'[y] > 0 => Called(y)'
                      /\ y \in pending' => expired'[y] > 0
                      /\ program.notify = "SIGEV_SIGNAL" =>
                           expired'[y] <= 1 /\ (y \in armed' => expired'[y] = 0)
  BY <1>1 DEF TimersInv
<1>3. /\ y \in armed \/ expired[y] > 0 => Called(y)'
      /\ y \in pending => expired[y] > 0
      /\ program.notify = "SIGEV_SIGNAL" =>
           expired[y] <= 1 /\ (y \in armed => expired[y] = 0)
  BY CalledStays DEF TimersInv
<1>4. expired[y] \in Nat
  BY DEF TypeOK
<1>5. CASE Arm
  <2>1. y \in armed' => y \in armed \/ y = program.timers[call]
    BY <1>5 DEF Arm
  <2>2. call \in 1..Len(program.timers)
    BY <1>1, <1>5, ProgramFacts DEF Arm, TypeOK
  <2>3. y = program.timers[call] => Called(y)'
    BY <1>1, <1>5, <2>2, ProgramFacts DEF Arm, Called
  <2>4. ASSUME program.notify = "SIGEV_SIGNAL", y = program.timers[call]
        PROVE  expired[y] = 0
    <3>1. ~Called(y)
      BY <1>1, <1>5, <2>2, <2>4, TimersOnce DEF Called, Arm
    <3> QED
      BY <1>4, <3>1 DEF TimersInv
  <2> QED
    BY <1>3, <1>5, <2>1, <2>3, <2>4 DEF Arm
<1>6. ASSUME NEW x \in Thread, Expire(x)
      PROVE  /\ y \in armed' \/ expired'[y] > 0 => Called(y)'
             /\ y \in pending' => expired'[y] > 0
             /\ program.notify = "SIGEV_SIGNAL" =>
                  expired'[y] <= 1 /\ (y \in armed' => expired'[y] = 0)
  <2>1. CASE y = x
    <3>1. expired'[y] = expired[y] + 1 /\ y \in armed
      BY <1>6, <2>1 DEF Expire, Add, TypeOK
    <3>2. program.notify = "SIGEV_SIGNAL" => y \notin armed'
      BY <1>1, <1>6, <2>1, TimersOnce DEF Expire
    <3> QED
      BY <1>3, <1>4, <3>1, <3>2
  <2>2. CASE y # x
    <3>1. /\ expired'[y] = expired[y]
          /\ y \in armed' => y \in armed
          /\ y \in pending' => y \in pending
      BY <1>6, <2>2 DEF Expire, Add, TypeOK
    <3> QED
      BY <1>3, <3>1
  <2> QED
    BY <2>1, <2>2
<1>7. CASE UNCHANGED timerVars /\ pending' \subseteq pending
  BY <1>3, <1>7 DEF timerVars
<1>8. \/ Arm \/ (\E x \in Thread : Expire(x))
      \/ UNCHANGED timerVars /\ pending' \subseteq pending
  BY DEF Next, vars, Main, Create, CreateTimers, Join, TimerStep, StartHandler,
         Post, Handle, Interrupt, ThreadStep, Wake, Run, timerVars
<1> QED
  BY <1>5, <1>6, <1>7, <1>8

\* A signal handler interrupts at most one wait, however many threads sleep, and
\* only one installed with sigaction() does: without a restart flag, a thread
\* passes sem_wait() without a post once for each timer at most.
InterruptsPaid ==
  \A t \in Thread : \A x \in interruptedBy[t] :
    /\ program.notify = "SIGEV_SIGNAL"
    /\ expired[x] > 0 /\ x \notin pending
    /\ \A u \in Thread \ {t} : x \notin interruptedBy[u]

\* A timer that has interrupted a wait is over and done with.
LEMMA PaidStep ==
  TypeOK /\ TimersInv /\ InterruptsPaid /\ [Next]_vars => InterruptsPaid'
<1> SUFFICES ASSUME TypeOK, TimersInv, InterruptsPaid, [Next]_vars
             PROVE  InterruptsPaid'
  OBVIOUS
<1>1. program' = program /\ Thread' = Thread
  BY DEF Next, vars, Main, Create, CreateTimers, Arm, Join, TimerStep, Expire,
         StartHandler, Post, Handle, Interrupt, ThreadStep, Wake, Run, Thread
<1>2. ASSUME NEW x \in Thread, Expire(x)
      PROVE  InterruptsPaid'
  <2>1. \A t \in Thread : x \notin interruptedBy[t]
    BY <1>2 DEF Expire, InterruptsPaid, TimersInv, TypeOK
  <2>2. \A y \in Thread \ {x} : expired'[y] = expired[y] /\ (y \in pending' <=> y \in pending)
    BY <1>2 DEF Expire, Add, TypeOK
  <2>3. interruptedBy' = interruptedBy /\ interruptedBy \in [Thread -> SUBSET Thread]
    BY <1>2 DEF Expire, threadVars, TypeOK
  <2> QED
    BY <1>1, <2>1, <2>2, <2>3 DEF InterruptsPaid
<1>3. ASSUME NEW x \in Thread, NEW t \in Thread, Interrupt(x, t)
      PROVE  InterruptsPaid'
  <2>1. /\ program.notify = "SIGEV_SIGNAL"
        /\ x \in pending /\ pending' = pending \ {x}
        /\ expired' = expired /\ expired[x] > 0
    BY <1>3 DEF Interrupt, timerVars, TimersInv
  <2>2. \A u \in Thread : x \notin interruptedBy[u]
    BY <2>1 DEF InterruptsPaid
  <2>3. \A u \in Thread : interruptedBy'[u] = IF u = t THEN interruptedBy[u] \cup {x}
                                              ELSE interruptedBy[u]
    BY <1>3 DEF Interrupt, TypeOK
  <2>4. SUFFICES ASSUME NEW u \in Thread, NEW y \in interruptedBy'[u]
                 PROVE  /\ program.notify = "SIGEV_SIGNAL"
                        /\ expired[y] > 0 /\ y \notin pending'
                        /\ \A v \in Thread \ {u} : y \notin interruptedBy'[v]
    BY <1>1, <2>1 DEF InterruptsPaid
  <2>5. CASE y = x
    <3>1. u = t
      BY <2>2, <2>3, <2>4, <2>5
    <3> QED
      BY <2>1, <2>2, <2>3, <2>5, <3>1
  <2>6. CASE y # x
    <3>1. \A v \in Thread : y \in interruptedBy'[v] <=> y \in interruptedBy[v]
      BY <2>3, <2>6
    <3>2. /\ expired[y] > 0 /\ y \notin pending
          /\ \A v \in Thread \ {u} : y \notin interruptedBy[v]
      BY <2>4, <3>1 DEF InterruptsPaid
    <3> QED
      BY <2>1, <3>1, <3>2
  <2> QED
    BY <2>5, <2>6
<1>4. CASE UNCHANGED <<expired, interruptedBy>> /\ pending' \subseteq pending
  BY <1>1, <1>4 DEF InterruptsPaid
<1>5. \/ \E x \in Thread : Expire(x) \/ \E t \in Thread : Interrupt(x, t)
      \/ UNCHANGED <<expired, interruptedBy>> /\ pending' \subseteq pending
  BY DEF Next, vars, Main, Create, CreateTimers, Arm, Join, TimerStep, StartHandler,
         Post, Handle, ThreadStep, Wake, Run, timerVars, threadVars
<1> QED
  BY <1>2, <1>3, <1>4, <1>5


-----------------------------------------------------------------------------
\* A thread's passes are no fewer than its interruptions, and one that runs has
\* made a pass.
PassesInv ==
  \A t \in Thread :
    /\ Cardinality(interruptedBy[t]) <= i[t]
    /\ pc[t] = "run" => i[t] > 0

\* The timers that interrupt a thread can be counted, and there are no more of
\* them than there are threads.
LEMMA InterruptionsFinite ==
  ASSUME TypeOK, NEW t \in Thread
  PROVE  /\ IsFiniteSet(interruptedBy[t])
         /\ Cardinality(interruptedBy[t]) \in Nat
         /\ Cardinality(interruptedBy[t]) <= program.threads
<1>1. program.threads \in Nat /\ interruptedBy[t] \in SUBSET Thread
  BY ProgramFacts DEF TypeOK
<1>2. IsFiniteSet(Thread) /\ Cardinality(Thread) = program.threads
  BY <1>1, FS_Interval DEF Thread
<1> QED
  BY <1>1, <1>2, FS_Subset, FS_CardinalityType

\* A post is made once for each expiry, and taken once.
LEMMA AccountedStep ==
  TypeOK /\ InterruptsPaid /\ PassesInv /\ Accounted /\ [Next]_vars
    => Accounted' /\ PassesInv'
<1> SUFFICES ASSUME TypeOK, InterruptsPaid, PassesInv, Accounted, [Next]_vars
             PROVE  Accounted' /\ PassesInv'
  OBVIOUS
<1>1. Thread' = Thread
  BY DEF Next, vars, Main, Create, CreateTimers, Arm, Join, TimerStep, Expire,
         StartHandler, Post, Handle, Interrupt, ThreadStep, Wake, Run, Thread
<1> DEFINE Balance(y) ==
             expired[y] = overrun[y] + Waiting(y) + handlers[y] + sem[y] + Taken(y)
           Passes(y) == /\ Cardinality(interruptedBy[y]) <= i[y]
                        /\ pc[y] = "run" => i[y] > 0
<1>2. SUFFICES ASSUME NEW y \in Thread
               PROVE  Balance(y)' /\ Passes(y)'
  BY <1>1 DEF Accounted, PassesInv
<1>3. /\ Balance(y) /\ Passes(y)
      /\ Cardinality(interruptedBy[y]) \in Nat
  BY InterruptionsFinite DEF Accounted, PassesInv
<1>4. /\ expired[y] \in Nat /\ overrun[y] \in Nat /\ handlers[y] \in Nat
      /\ sem[y] \in Nat /\ i[y] \in Nat
  BY DEF TypeOK
<1>5. CASE UNCHANGED <<timerVars, pending, handlers, sem, threadVars>>
  BY <1>3, <1>5 DEF timerVars, threadVars, Waiting, Taken
<1>6. ASSUME NEW x \in Thread, TimerStep(x)
      PROVE  Balance(y)' /\ Passes(y)'
  <2> USE DEF Add, TypeOK, Waiting, Taken, timerVars, threadVars
  <2>1. CASE Expire(x)
    <3>1. UNCHANGED <<handlers, sem, pc, i, interruptedBy>>
      BY <2>1 DEF Expire
    <3>2. /\ expired'[y] = IF y = x THEN expired[y] + 1 ELSE expired[y]
          /\ overrun'[y] = IF y = x /\ y \in pending THEN overrun[y] + 1 ELSE overrun[y]
          /\ y \in pending' <=> y = x \/ y \in pending
      BY <2>1 DEF Expire
    <3> HIDE DEF TypeOK
    <3> QED
      BY <1>3, <1>4, <3>1, <3>2
  <2>2. CASE StartHandler(x)
    BY <1>3, <1>4, <2>2 DEF StartHandler
  <2>3. CASE Post(x)
    <3>1. UNCHANGED <<expired, overrun, pending, pc, i, interruptedBy>>
      BY <2>3 DEF Post
    <3>2. /\ handlers'[y] = IF y = x THEN handlers[y] - 1 ELSE handlers[y]
          /\ sem'[y] = IF y = x THEN sem[y] + 1 ELSE sem[y]
      BY <2>3 DEF Post
    <3> HIDE DEF TypeOK
    <3> QED
      BY <1>3, <1>4, <3>1, <3>2
  <2>4. CASE Handle(x)
    <3>1. UNCHANGED <<expired, overrun, handlers, pc, i, interruptedBy>>
      BY <2>4 DEF Handle
    <3>2. /\ sem'[y] = IF y = x THEN sem[y] + 1 ELSE sem[y]
          /\ y \in pending' <=> y # x /\ y \in pending
          /\ y = x => y \in pending
      BY <2>4 DEF Handle
    <3> HIDE DEF TypeOK
    <3> QED
      BY <1>3, <1>4, <3>1, <3>2
  <2>5. ASSUME NEW t \in Thread, Interrupt(x, t)
        PROVE  Balance(y)' /\ Passes(y)'
    <3>1. /\ sem'[y] = IF y = x THEN sem[y] + 1 ELSE sem[y]
          /\ Waiting(y)' = IF y = x THEN 0 ELSE Waiting(y)
          /\ y = x => Waiting(y) = 1
          /\ UNCHANGED <<expired, overrun, handlers>>
      BY <2>5 DEF Interrupt
    <3>2. CASE y = t
      <4>1. interruptedBy'[y] = interruptedBy[y] \cup {x} /\ x \notin interruptedBy[y]
        BY <2>5, <3>2 DEF Interrupt, InterruptsPaid
      <4>2. Cardinality(interruptedBy'[y]) = Cardinality(interruptedBy[y]) + 1
        BY <4>1, InterruptionsFinite, FS_AddElement
      <4>3. i'[y] = i[y] + 1
        BY <2>5, <3>2 DEF Interrupt
      <4>4. Taken(y)' = Taken(y)
        BY <1>3, <1>4, <4>2, <4>3
      <4>5. Taken(y) \in Int /\ Waiting(y) \in Int
        BY <1>3, <1>4
      <4>6. Balance(y)'
        <5>1. /\ Balance(y)
              /\ sem[y] \in Nat /\ expired[y] \in Nat /\ overrun[y] \in Nat
              /\ handlers[y] \in Nat
          BY <1>3, <1>4
        <5>2. /\ expired'[y] = expired[y] /\ overrun'[y] = overrun[y]
              /\ handlers'[y] = handlers[y]
          BY <3>1
        <5> HIDE DEF TypeOK, Taken, Waiting
        <5> QED
          BY <5>1, <5>2, <3>1, <4>4, <4>5
      <4> HIDE DEF Balance, TypeOK
      <4> QED
        BY <1>3, <1>4, <4>2, <4>3, <4>6
    <3>3. CASE y # t
      <4>1. interruptedBy'[y] = interruptedBy[y] /\ i'[y] = i[y] /\ pc'[y] = pc[y]
        BY <2>5, <3>3 DEF Interrupt
      <4>2. Taken(y)' = Taken(y) /\ Taken(y) \in Int /\ Waiting(y) \in Int
        BY <1>3, <1>4, <4>1
      <4>3. Balance(y)'
        <5> HIDE DEF TypeOK, Taken, Waiting
        <5> QED
          BY <1>3, <1>4, <3>1, <4>2
      <4> HIDE DEF Balance, TypeOK
      <4> QED
        BY <1>3, <4>1, <4>3
    <3> QED
      BY <3>2, <3>3
  <2> QED
    BY <1>6, <2>1, <2>2, <2>3, <2>4, <2>5 DEF TimerStep
<1>7. ASSUME NEW t \in Thread, ThreadStep(t)
      PROVE  Balance(y)' /\ Passes(y)'
  <2> USE DEF Add, TypeOK, Waiting, Taken, timerVars, threadVars
  <2>1. CASE Wake(t)
    <3>1. UNCHANGED <<expired, overrun, pending, handlers, interruptedBy>>
      BY <2>1 DEF Wake
    <3>2. /\ sem'[y] = IF y = t THEN sem[y] - 1 ELSE sem[y]
          /\ i'[y] = IF y = t THEN i[y] + 1 ELSE i[y]
          /\ y # t => pc'[y] = pc[y]
      BY <2>1 DEF Wake
    <3> HIDE DEF TypeOK
    <3> QED
      BY <1>3, <1>4, <3>1, <3>2
  <2>2. CASE Run(t)
    BY <1>3, <1>4, <2>2 DEF Run
  <2> QED
    BY <1>7, <2>1, <2>2 DEF ThreadStep
<1>8. \/ UNCHANGED <<timerVars, pending, handlers, sem, threadVars>>
      \/ Arm
      \/ \E x \in Thread : TimerStep(x)
      \/ \E t \in Thread : ThreadStep(t)
  BY DEF Next, vars, Main, Create, CreateTimers, Join
<1>9. CASE Arm
  BY <1>3, <1>9 DEF Arm, threadVars, Waiting, Taken
<1> QED
  BY <1>5, <1>6, <1>7, <1>8, <1>9

-----------------------------------------------------------------------------
Inv == TypeOK /\ TimersInv /\ InterruptsPaid /\ PassesInv /\ Accounted

LEMMA InvHolds == Spec => []Inv
<1>1. Init => Inv
  <2> SUFFICES ASSUME Init
               PROVE  Inv
    OBVIOUS
  <2>1. TypeOK
    BY DEF Init, TypeOK, Thread
  <2>2. TimersInv
    BY DEF Init, TimersInv
  <2>3. InterruptsPaid
    BY DEF Init, InterruptsPaid
  <2>4. \A t \in Thread : Cardinality(interruptedBy[t]) = 0
    BY FS_EmptySet DEF Init
  <2>5. PassesInv
    BY <2>4 DEF Init, PassesInv
  <2>6. Accounted
    BY <2>4 DEF Init, Accounted, Waiting, Taken
  <2> QED
    BY <2>1, <2>2, <2>3, <2>5, <2>6 DEF Inv
<1>2. Inv /\ [Next]_vars => Inv'
  BY TypeStep, TimersStep, PaidStep, AccountedStep DEF Inv
<1> QED
  BY <1>1, <1>2, PTL DEF Spec

\* No time-out is lost or handled twice between a timer and the loop of its
\* thread, whatever the thread is doing when it comes.
THEOREM TimeOutsAccounted == Spec => []Accounted
<1>1. Inv => Accounted
  BY DEF Inv
<1> QED
  BY <1>1, InvHolds, PTL

\* Each time-out makes at most one thread pass sem_wait() without a post.
THEOREM InterruptsArePaid == Spec => []InterruptsPaid
<1>1. Inv => InterruptsPaid
  BY DEF Inv
<1> QED
  BY <1>1, InvHolds, PTL

\* A loop that counts its passes is never completed if it counts to more than
\* one time-out of its own and one interruption by each timer: five exceeds that
\* for three threads.  Nobody returns to main, which therefore never returns
\* but when no thread could be created.
THEOREM NobodyEverFinishes ==
  ASSUME \A p \in Programs :
           \/ p.rounds = Forever
           \/ p.notify = "SIGEV_SIGNAL" /\ p.rounds > p.threads + 1
  PROVE  Spec => []NobodyFinishes
<1> DEFINE Joins == /\ created # {} => 1 \in created
                    /\ main_pc = "create" => created = {}
                    /\ main_pc = "join" /\ call > 1 => created = {}
<1>1. Init => NobodyFinishes /\ Joins
  BY DEF Init, NobodyFinishes
<1>2. Inv /\ NobodyFinishes /\ Joins /\ [Next]_vars => NobodyFinishes' /\ Joins'
  <2> SUFFICES ASSUME Inv, NobodyFinishes, Joins, [Next]_vars
               PROVE  NobodyFinishes' /\ Joins'
    OBVIOUS
  <2>1. TypeOK
    BY DEF Inv
  <2>2. ASSUME NEW t \in Thread, Run(t)
        PROVE  NobodyFinishes' /\ Joins'
    <3>1. i[t] # program.rounds
      <4>1. PICK p \in Programs : p = program
        BY <2>1 DEF TypeOK
      <4>2. CASE p.rounds = Forever
        BY <2>2, <4>1, <4>2 DEF Run, Inv, PassesInv, Forever
      <4>3. CASE p.notify = "SIGEV_SIGNAL" /\ p.rounds > p.threads + 1
        <5>1. /\ expired[t] <= 1 /\ expired[t] \in Nat
              /\ overrun[t] \in Nat /\ handlers[t] \in Nat /\ sem[t] \in Nat
              /\ i[t] \in Nat /\ Waiting(t) \in Nat
          BY <2>1, <4>1, <4>3 DEF Inv, TimersInv, TypeOK, Waiting
        <5>2. /\ Cardinality(interruptedBy[t]) \in Nat
              /\ Cardinality(interruptedBy[t]) <= program.threads
          BY <2>1, InterruptionsFinite
        <5>3. expired[t] = overrun[t] + Waiting(t) + handlers[t] + sem[t]
                             + (i[t] - Cardinality(interruptedBy[t]))
          BY DEF Inv, Accounted, Taken
        <5>4. p.threads \in Nat /\ p.rounds \in Nat
          BY ProgramFacts
        <5>5. i[t] <= p.threads + 1
          BY <4>1, <5>1, <5>2, <5>3, <5>4
        <5> QED
          BY <4>1, <4>3, <5>1, <5>4, <5>5
      <4> QED
        BY <4>2, <4>3
    <3>2. \A u \in Thread : pc'[u] # "finished"
      BY <2>1, <2>2, <3>1 DEF Run, NobodyFinishes, TypeOK
    <3> QED
      BY <2>2, <3>2 DEF Run, NobodyFinishes, Thread, mainVars
  <2>3. ASSUME NEW t \in Thread, Wake(t)
        PROVE  NobodyFinishes' /\ Joins'
    <3>1. \A u \in Thread : pc'[u] # "finished"
      BY <2>1, <2>3 DEF Wake, NobodyFinishes, TypeOK
    <3> QED
      BY <2>3, <3>1 DEF Wake, NobodyFinishes, Thread, mainVars
  <2>4. ASSUME NEW x \in Thread, NEW t \in Thread, Interrupt(x, t)
        PROVE  NobodyFinishes' /\ Joins'
    <3>1. \A u \in Thread : pc'[u] # "finished"
      BY <2>1, <2>4 DEF Interrupt, NobodyFinishes, TypeOK
    <3> QED
      BY <2>4, <3>1 DEF Interrupt, NobodyFinishes, Thread, mainVars
  <2>5. CASE Create
    <3>1. PICK m \in Nat : created' = 1..m
      <4>1. program.threads \in Nat
        BY <2>1, ProgramFacts DEF TypeOK
      <4> QED
        BY <2>5, <4>1 DEF Create
    <3>2. created' # {} => 1 \in created'
      BY <3>1
    <3> QED
      BY <2>5, <3>2 DEF Create, NobodyFinishes, Thread, threadVars
  <2>6. CASE CreateTimers
    <3>1. main_pc' \in {"arm", "ended"}
      BY <2>6 DEF CreateTimers
    <3> QED
      BY <2>6, <3>1 DEF CreateTimers, NobodyFinishes, Thread, threadVars
  <2>7. CASE Arm
    BY <2>1, <2>7 DEF Arm, NobodyFinishes, Thread, threadVars, TypeOK
  <2>8. CASE Join
    <3>1. call \notin created
      BY <2>1, <2>8 DEF Join, NobodyFinishes, TypeOK
    <3>2. created = {}
      BY <2>1, <2>8, <3>1 DEF Join, TypeOK
    <3>3. main_pc' # "create" /\ created' = created
      BY <2>8 DEF Join, AfterJoin
    <3> QED
      BY <2>8, <3>2, <3>3 DEF Join, NobodyFinishes, Thread, threadVars
  <2>9. CASE UNCHANGED <<program, mainVars, threadVars>>
    BY <2>9 DEF NobodyFinishes, Thread, mainVars, threadVars
  <2>10. \/ Create \/ CreateTimers \/ Arm \/ Join
         \/ \E t \in Thread : Run(t) \/ Wake(t)
         \/ \E x \in Thread, t \in Thread : Interrupt(x, t)
         \/ UNCHANGED <<program, mainVars, threadVars>>
    BY DEF Next, vars, Main, TimerStep, Expire, StartHandler, Post, Handle, ThreadStep
  <2> QED
    BY <2>2, <2>3, <2>4, <2>5, <2>6, <2>7, <2>8, <2>9, <2>10
<1> QED
  BY <1>1, <1>2, InvHolds, PTL DEF Spec

\* The four programs of the repository are among those.
COROLLARY NoneOfTheFourFinishes == ASSUME Programs = AllPrograms
                                   PROVE  Spec => []NobodyFinishes
<1>1. ASSUME NEW p \in Programs
      PROVE  \/ p.rounds = Forever
             \/ p.notify = "SIGEV_SIGNAL" /\ p.rounds > p.threads + 1
  BY <1>1 DEF AllPrograms, PingPong, PingPongSemArg, ThreeTimers, ThreeAlarms
<1> QED
  BY <1>1, NobodyEverFinishes

-----------------------------------------------------------------------------
(* The abstract specification *)

\* The calls main has made that set timer x.
CallsMade(x) ==
  {k \in 1..Len(program.timers) : /\ program.timers[k] = x
                                  /\ main_pc \notin {"create", "timers"}
                                  /\ main_pc = "arm" => k < call}

\* A timer that is not periodic expires once for each of them at most.
CallsInv ==
  \A x \in Thread : ~program.periodic =>
    expired[x] + (IF x \in armed THEN 1 ELSE 0) <= Cardinality(CallsMade(x))

\* main's calls are a few of the program's.
LEMMA CallsFinite ==
  ASSUME TypeOK, NEW x \in Thread
  PROVE  /\ IsFiniteSet(CallsMade(x))
         /\ Cardinality(CallsMade(x)) \in Nat
         /\ Calls(x) \in Nat
         /\ Cardinality(CallsMade(x)) <= Calls(x)
         /\ Called(x) => Calls(x) > 0
<1> DEFINE All == {k \in 1..Len(program.timers) : program.timers[k] = x}
<1>1. Len(program.timers) \in Nat
  BY ProgramFacts DEF TypeOK
<1>2. IsFiniteSet(1..Len(program.timers))
  BY <1>1, FS_Interval
<1>3. IsFiniteSet(All) /\ Cardinality(All) \in Nat
  BY <1>2, FS_Subset, FS_CardinalityType
<1>4. CallsMade(x) \subseteq All
  BY DEF CallsMade
<1>5. /\ IsFiniteSet(CallsMade(x)) /\ Cardinality(CallsMade(x)) \in Nat
      /\ Cardinality(CallsMade(x)) <= Cardinality(All)
  BY <1>3, <1>4, FS_Subset, FS_CardinalityType
<1>6. Called(x) => All # {}
  BY DEF Called
<1>7. All # {} => Cardinality(All) # 0
  BY <1>3, FS_EmptySet
<1> QED
  BY <1>3, <1>5, <1>6, <1>7 DEF Calls

\* Only Arm makes calls, one at a time, and only Expire uses one up.
LEMMA CallsStep == TypeOK /\ CallsInv /\ [Next]_vars => CallsInv'
<1> SUFFICES ASSUME TypeOK, CallsInv, [Next]_vars
             PROVE  CallsInv'
  OBVIOUS
<1>1. program' = program /\ Thread' = Thread /\ program \in Programs
  BY DEF Next, vars, Main, Create, CreateTimers, Arm, Join, TimerStep, Expire,
         StartHandler, Post, Handle, Interrupt, ThreadStep, Wake, Run, Thread, TypeOK
<1> DEFINE Due(x) == IF x \in armed THEN 1 ELSE 0
<1>2. SUFFICES ASSUME NEW y \in Thread, ~program.periodic
               PROVE  expired'[y] + Due(y)' <= Cardinality(CallsMade(y)')
  BY <1>1 DEF CallsInv
<1>3. /\ expired[y] + Due(y) <= Cardinality(CallsMade(y))
      /\ expired[y] \in Nat /\ Cardinality(CallsMade(y)) \in Nat
      /\ IsFiniteSet(CallsMade(y))
  BY <1>2, CallsFinite DEF CallsInv, TypeOK
<1>4. IsFiniteSet(CallsMade(y)') /\ Cardinality(CallsMade(y)') \in Nat
  <2>1. TypeOK'
    BY TypeStep
  <2>2. TypeOK' => IsFiniteSet(CallsMade(y)') /\ Cardinality(CallsMade(y)') \in Nat
    <3>1. ASSUME TypeOK'
          PROVE  IsFiniteSet(1..Len(program'.timers))
      BY <1>1, ProgramFacts, FS_Interval
    <3>2. CallsMade(y)' \subseteq 1..Len(program'.timers)
      BY DEF CallsMade
    <3> QED
      BY <3>1, <3>2, FS_Subset, FS_CardinalityType
  <2> QED
    BY <2>1, <2>2
<1>5. CASE Arm
  <2>1. /\ call \in 1..Len(program.timers) /\ main_pc = "arm"
        /\ armed' = armed \cup {program.timers[call]} /\ expired' = expired
        /\ \/ main_pc' = "arm" /\ call' = call + 1
           \/ main_pc' = "join" /\ call = Len(program.timers)
    BY <1>1, <1>5, ProgramFacts DEF Arm, TypeOK
  <2>2. CASE y = program.timers[call]
    <3>1. CallsMade(y)' = CallsMade(y) \cup {call} /\ call \notin CallsMade(y)
      BY <1>1, <2>1, <2>2 DEF CallsMade
    <3>2. Cardinality(CallsMade(y)') = Cardinality(CallsMade(y)) + 1
      BY <1>3, <3>1, FS_AddElement
    <3>3. Due(y)' <= 1 /\ Due(y) >= 0 /\ Due(y)' \in Nat /\ Due(y) \in Nat
      OBVIOUS
    <3> HIDE DEF Due
    <3> QED
      BY <1>3, <2>1, <3>2, <3>3
  <2>3. CASE y # program.timers[call]
    <3>1. CallsMade(y)' = CallsMade(y)
      BY <1>1, <2>1, <2>3 DEF CallsMade
    <3> QED
      BY <1>3, <2>1, <2>3, <3>1
  <2> QED
    BY <2>2, <2>3
<1>6. ASSUME NEW x \in Thread, Expire(x)
      PROVE  expired'[y] + Due(y)' <= Cardinality(CallsMade(y)')
  <2>1. CallsMade(y)' = CallsMade(y)
    BY <1>1, <1>6 DEF Expire, CallsMade, mainVars
  <2>2. CASE y = x
    <3>1. expired'[y] = expired[y] + 1 /\ y \in armed /\ y \notin armed'
      BY <1>2, <1>6, <2>2 DEF Expire, Add, TypeOK
    <3> QED
      BY <1>3, <2>1, <3>1
  <2>3. CASE y # x
    <3>1. expired'[y] = expired[y] /\ (y \in armed' <=> y \in armed)
      BY <1>6, <2>3 DEF Expire, Add, TypeOK
    <3> QED
      BY <1>3, <2>1, <3>1
  <2> QED
    BY <2>2, <2>3
<1>7. CASE UNCHANGED timerVars /\ ~Arm
  <2>1. CallsMade(y) \subseteq CallsMade(y)'
    <3>1. \/ Create \/ CreateTimers \/ Join \/ UNCHANGED mainVars
      BY <1>7 DEF Next, vars, Main, TimerStep, Expire, StartHandler, Post, Handle,
                  Interrupt, ThreadStep, Wake, Run
    <3>2. CASE Create \/ CreateTimers
      BY <3>2 DEF Create, CreateTimers, CallsMade
    <3>3. CASE Join
      BY <1>1, <3>3 DEF Join, AfterJoin, CallsMade
    <3>4. CASE UNCHANGED mainVars
      BY <1>1, <3>4 DEF mainVars, CallsMade
    <3> QED
      BY <3>1, <3>2, <3>3, <3>4
  <2>2. Cardinality(CallsMade(y)) <= Cardinality(CallsMade(y)')
    BY <1>4, <2>1, FS_Subset
  <2>3. expired'[y] = expired[y] /\ Due(y)' = Due(y) /\ Due(y) \in Nat
    BY <1>7 DEF timerVars
  <2> HIDE DEF Due
  <2> QED
    BY <1>3, <1>4, <2>2, <2>3
<1>8. Arm \/ (\E x \in Thread : Expire(x)) \/ UNCHANGED timerVars
  BY DEF Next, vars, Main, Create, CreateTimers, Join, TimerStep, StartHandler,
         Post, Handle, Interrupt, ThreadStep, Wake, Run, timerVars
<1> QED
  BY <1>5, <1>6, <1>7, <1>8

LEMMA CallsInvariant == Spec => [](Inv /\ CallsInv)
<1>1. Init => CallsInv
  <2> SUFFICES ASSUME Init, NEW x \in Thread
               PROVE  expired[x] + (IF x \in armed THEN 1 ELSE 0) <= Cardinality(CallsMade(x))
    BY DEF CallsInv
  <2>1. CallsMade(x) = {}
    BY DEF Init, CallsMade
  <2>2. expired[x] = 0 /\ x \notin armed
    BY DEF Init
  <2> QED
    BY <2>1, <2>2, FS_EmptySet
<1>2. Inv /\ CallsInv /\ [Next]_vars => CallsInv'
  BY CallsStep DEF Inv
<1> QED
  BY <1>1, <1>2, InvHolds, PTL DEF Spec

\* The program with alarms: whenever the one alarm goes off, before main has set it
\* anew or after, it wakes thread A, three times at most, and threads B and C are
\* never woken.
THEOREM OnlyThreadAWakes ==
  Spec => [](program = ThreeAlarms => i[1] <= 3 /\ i[2] = 0 /\ i[3] = 0)
<1>1. Inv /\ CallsInv => (program = ThreeAlarms => i[1] <= 3 /\ i[2] = 0 /\ i[3] = 0)
  <2> SUFFICES ASSUME Inv, CallsInv, program = ThreeAlarms
               PROVE  i[1] <= 3 /\ i[2] = 0 /\ i[3] = 0
    OBVIOUS
  <2>1. /\ Thread = 1..3 /\ program.timers = <<1, 1, 1>> /\ ~program.periodic
        /\ program.notify = "SIGALRM"
    BY DEF ThreeAlarms, Thread
  <2>2. ASSUME NEW t \in Thread
        PROVE  i[t] \in Nat /\ expired[t] \in Nat /\ i[t] <= expired[t]
    <3>1. /\ i[t] \in Nat /\ expired[t] \in Nat /\ overrun[t] \in Nat
          /\ handlers[t] \in Nat /\ sem[t] \in Nat /\ Waiting(t) \in Nat
      BY DEF Inv, TypeOK, Waiting
    <3>2. interruptedBy[t] = {}
      BY <2>1 DEF Inv, InterruptsPaid
    <3>3. Cardinality(interruptedBy[t]) = 0
      BY <3>2, FS_EmptySet
    <3> QED
      BY <3>1, <3>3 DEF Inv, Accounted, Taken
  <2>3. ASSUME NEW t \in {2, 3}
        PROVE  i[t] = 0
    <3>1. t \in Thread /\ ~Called(t)
      BY <2>1 DEF Called
    <3>2. ~(expired[t] > 0)
      BY <3>1 DEF Inv, TimersInv
    <3> QED
      BY <2>2, <3>1, <3>2
  <2>4. expired[1] <= 3
    <3>1. IsFiniteSet(1..3) /\ Cardinality(1..3) = 3
      <4>1. \A n \in Nat : /\ IsFiniteSet(1..n)
                           /\ Cardinality(1..n) = IF 1 > n THEN 0 ELSE n - 1 + 1
        BY FS_Interval
      <4>2. 3 \in Nat
        OBVIOUS
      <4>3. IsFiniteSet(1..3) /\ Cardinality(1..3) = IF 1 > 3 THEN 0 ELSE 3 - 1 + 1
        BY <4>1, <4>2
      <4> QED
        BY <4>3
    <3>2. CallsMade(1) \subseteq 1..3
      BY <2>1 DEF CallsMade
    <3>3. Cardinality(CallsMade(1)) \in Nat /\ Cardinality(CallsMade(1)) <= 3
      BY <3>1, <3>2, FS_Subset, FS_CardinalityType
    <3>4. expired[1] + (IF 1 \in armed THEN 1 ELSE 0) <= Cardinality(CallsMade(1))
      BY <2>1 DEF CallsInv
    <3> QED
      BY <2>1, <2>2, <3>3, <3>4
  <2> QED
    BY <2>1, <2>2, <2>3, <2>4
<1> QED
  BY <1>1, CallsInvariant, PTL

\* What the abstract specification sees is counted in numbers.
LEMMA PromiseTypes == ASSUME Inv, NEW x \in Thread
                      PROVE  /\ Kept(x) \in Int /\ Taken(x) \in Int
                             /\ Kept(x) = Waiting(x) + handlers[x] + sem[x] + Taken(x)
                             /\ Waiting(x) \in Nat /\ handlers[x] \in Nat /\ sem[x] \in Nat
                             /\ Taken(x) >= 0
                             /\ Kept(x) <= expired[x] /\ expired[x] \in Nat
<1>1. /\ expired[x] \in Nat /\ overrun[x] \in Nat /\ handlers[x] \in Nat
      /\ sem[x] \in Nat /\ i[x] \in Nat /\ Waiting(x) \in Nat
  BY DEF Inv, TypeOK, Waiting
<1>2. Cardinality(interruptedBy[x]) \in Nat /\ Cardinality(interruptedBy[x]) <= i[x]
  BY InterruptionsFinite DEF Inv, PassesInv
<1>3. Taken(x) \in Int /\ Taken(x) >= 0
  BY <1>1, <1>2 DEF Taken
<1>4. expired[x] = overrun[x] + Waiting(x) + handlers[x] + sem[x] + Taken(x)
  BY DEF Inv, Accounted
<1> HIDE DEF Taken, Waiting
<1> QED
  BY <1>1, <1>3, <1>4 DEF Kept

\* The program that runs does not change.
LEMMA ProgramStays == [Next]_vars => program' = program /\ Thread' = Thread
  BY DEF Next, vars, Main, Create, CreateTimers, Arm, Join, TimerStep, Expire,
         StartHandler, Post, Handle, Interrupt, ThreadStep, Wake, Run, Thread

\* A step that no loop and no history notices is a stutter.
LEMMA HiddenStep == ASSUME program' = program, UNCHANGED <<expired, overrun, i, interruptedBy>>
                    PROVE  UNCHANGED Promise!timeOutVars
<1>1. Thread' = Thread
  BY DEF Thread
<1>2. \A x : Calls(x)' = Calls(x) /\ Kept(x)' = Kept(x) /\ Taken(x)' = Taken(x)
  BY DEF Calls, Kept, Taken
<1> QED
  BY <1>1, <1>2 DEF Promise!timeOutVars

\* A timer expires: a time-out, or an overrun that nobody hears of.
LEMMA ExpireIsTimeOut == ASSUME Inv, CallsInv, NEW x \in Thread, Expire(x)
                         PROVE  Promise!TimeOut(x) \/ UNCHANGED Promise!timeOutVars
<1>1. /\ program' = program /\ Thread' = Thread
      /\ UNCHANGED <<i, interruptedBy>>
  BY DEF Expire, Thread, threadVars
<1>2. \A y : Calls(y)' = Calls(y) /\ Taken(y)' = Taken(y)
  BY <1>1 DEF Calls, Taken
<1>3. CASE x \in pending
  <2>1. \A y \in Thread : Kept(y)' = Kept(y)
    <3>1. /\ expired' = Add(expired, x, 1) /\ overrun' = Add(overrun, x, 1)
          /\ expired \in [Thread -> Nat] /\ overrun \in [Thread -> Nat]
      BY <1>3 DEF Expire, Inv, TypeOK
    <3> QED
      BY <3>1 DEF Kept, Add
  <2> QED
    BY <1>1, <1>2, <2>1 DEF Promise!timeOutVars
<1>4. CASE x \notin pending
  <2>1. \A y \in Thread : Kept(y)' = IF y = x THEN Kept(y) + 1 ELSE Kept(y)
    <3>1. /\ expired' = Add(expired, x, 1) /\ overrun' = overrun
          /\ expired \in [Thread -> Nat] /\ overrun \in [Thread -> Nat]
      BY <1>4 DEF Expire, Inv, TypeOK
    <3> QED
      BY <3>1 DEF Kept, Add
  <2>2. Calls(x) > 0
    BY CallsFinite DEF Expire, Inv, TimersInv
  <2>3. program.periodic \/ Kept(x) < Calls(x)
    <3>1. SUFFICES ASSUME ~program.periodic
                   PROVE  Kept(x) < Calls(x)
      OBVIOUS
    <3>2. expired[x] + 1 <= Cardinality(CallsMade(x))
      BY <3>1 DEF CallsInv, Expire
    <3>3. /\ Cardinality(CallsMade(x)) <= Calls(x)
          /\ Calls(x) \in Nat /\ Cardinality(CallsMade(x)) \in Nat
      BY CallsFinite DEF Inv
    <3> QED
      BY <3>2, <3>3, PromiseTypes
  <2> QED
    BY <1>1, <1>2, <2>1, <2>2, <2>3 DEF Promise!TimeOut, Promise!Timer
<1> QED
  BY <1>3, <1>4

\* sem_wait() returns: a pass.
LEMMA WakeIsPass == ASSUME Inv, NEW t \in Thread, Wake(t)
                    PROVE  Promise!Pass(t)
<1>1. /\ program' = program /\ Thread' = Thread
      /\ UNCHANGED <<expired, overrun, interruptedBy>>
      /\ \A y \in Thread : i'[y] = IF y = t THEN i[y] + 1 ELSE i[y]
  BY DEF Wake, Thread, timerVars, Add, Inv, TypeOK
<1>2. \A y : Calls(y)' = Calls(y) /\ Kept(y)' = Kept(y)
  BY <1>1 DEF Calls, Kept
<1>3. \A y \in Thread : Taken(y)' = IF y = t THEN Taken(y) + 1 ELSE Taken(y)
  <2>1. \A y \in Thread : i[y] \in Nat /\ Cardinality(interruptedBy[y]) \in Nat
    BY InterruptionsFinite DEF Inv, TypeOK
  <2> QED
    BY <1>1, <2>1 DEF Taken
<1>4. Taken(t) < Kept(t)
  <2>1. sem[t] > 0
    BY DEF Wake
  <2> QED
    BY <2>1, PromiseTypes
<1> QED
  BY <1>1, <1>2, <1>3, <1>4 DEF Promise!Pass, Promise!Timer

\* A handler runs in a thread that sleeps: a disturbance, the only one by its timer.
LEMMA InterruptIsDisturbance == ASSUME Inv, NEW x \in Thread, NEW t \in Thread, Interrupt(x, t)
                                PROVE  Promise!Disturb(x, t)
<1>1. /\ program' = program /\ Thread' = Thread
      /\ program.notify = "SIGEV_SIGNAL" /\ x \in pending
      /\ UNCHANGED <<expired, overrun>>
      /\ i' = Add(i, t, 1)
      /\ interruptedBy' = [interruptedBy EXCEPT ![t] = @ \cup {x}]
  BY DEF Interrupt, Thread, timerVars
<1>2. \A y : Calls(y)' = Calls(y) /\ Kept(y)' = Kept(y)
  BY <1>1 DEF Calls, Kept
<1>3. \A u \in Thread : x \notin interruptedBy[u]
  BY <1>1 DEF Inv, InterruptsPaid
<1>4. ASSUME NEW y \in Thread
      PROVE  Taken(y)' = Taken(y)
  <2>1. /\ interruptedBy \in [Thread -> SUBSET Thread] /\ i \in [Thread -> Nat]
        /\ IsFiniteSet(interruptedBy[y]) /\ Cardinality(interruptedBy[y]) \in Nat
    BY InterruptionsFinite DEF Inv, TypeOK
  <2>2. CASE y = t
    <3>1. interruptedBy'[y] = interruptedBy[y] \cup {x} /\ i'[y] = i[y] + 1
      BY <1>1, <2>1, <2>2 DEF Add
    <3>2. Cardinality(interruptedBy'[y]) = Cardinality(interruptedBy[y]) + 1
      BY <1>3, <2>1, <3>1, FS_AddElement
    <3>3. i[y] \in Nat
      BY <2>1
    <3> QED
      BY <2>1, <3>1, <3>2, <3>3 DEF Taken
  <2>3. CASE y # t
    BY <1>1, <2>1, <2>3 DEF Add, Taken
  <2> QED
    BY <2>2, <2>3
<1>5. Kept(x) > 0
  <2>1. Waiting(x) = 1
    BY <1>1 DEF Waiting
  <2> QED
    BY <2>1, PromiseTypes
<1> QED
  BY <1>1, <1>2, <1>3, <1>4, <1>5 DEF Promise!Disturb, Promise!Timer

\* In every program, with any number of threads and timers, a time-out does what
\* the abstract specification allows and nothing else.
THEOREM TimeOutsImplemented == Spec => ImplementsTimeOuts
<1>1. Init => Promise!Init
  <2> SUFFICES ASSUME Init
               PROVE  Promise!Init
    OBVIOUS
  <2>1. \A x \in Thread : Kept(x) = 0 /\ Taken(x) = 0
    <3>1. Cardinality({}) = 0
      BY FS_EmptySet
    <3> QED
      BY <3>1 DEF Init, Kept, Taken
  <2>2. interruptedBy = [x \in Thread |-> {}]
    BY DEF Init
  <2> QED
    BY <2>1, <2>2 DEF Promise!Init, Promise!Timer
<1>2. Inv /\ CallsInv /\ [Next]_vars => [Promise!Next]_(Promise!timeOutVars)
  <2> SUFFICES ASSUME Inv, CallsInv, [Next]_vars
               PROVE  [Promise!Next]_(Promise!timeOutVars)
    OBVIOUS
  <2>1. ASSUME NEW x \in Thread, Expire(x)
        PROVE  [Promise!Next]_(Promise!timeOutVars)
    BY <2>1, ExpireIsTimeOut DEF Promise!Next, Promise!Timer
  <2>2. ASSUME NEW t \in Thread, Wake(t)
        PROVE  [Promise!Next]_(Promise!timeOutVars)
    BY <2>2, WakeIsPass DEF Promise!Next, Promise!Timer
  <2>3. ASSUME NEW x \in Thread, NEW t \in Thread, Interrupt(x, t)
        PROVE  [Promise!Next]_(Promise!timeOutVars)
    BY <2>3, InterruptIsDisturbance DEF Promise!Next, Promise!Timer
  <2>4. CASE UNCHANGED <<expired, overrun, i, interruptedBy>>
    BY <2>4, ProgramStays, HiddenStep
  <2>5. \/ \E x \in Thread : Expire(x) \/ Wake(x) \/ \E t \in Thread : Interrupt(x, t)
        \/ UNCHANGED <<expired, overrun, i, interruptedBy>>
    BY DEF Next, vars, Main, Create, CreateTimers, Arm, Join, TimerStep, StartHandler,
           Post, Handle, ThreadStep, Run, timerVars, threadVars
  <2> QED
    BY <2>1, <2>2, <2>3, <2>4, <2>5
<1> QED
  BY <1>1, <1>2, CallsInvariant, PTL DEF Spec, ImplementsTimeOuts, Promise!Spec

-----------------------------------------------------------------------------
(* The way of a time-out *)

\* The steps that the time-outs of t still have before them: a pending one is
\* given to a handler, which posts, and the thread wakes.
OwedWork(t) == 3 * Waiting(t) + 2 * handlers[t] + sem[t]

\* The steps that bring a time-out of t on its way.
Serves(t) ==
  \/ StartHandler(t) \/ Post(t) \/ Handle(t) \/ Wake(t)
  \/ \E u \in Thread : Interrupt(t, u)

LEMMA OwedWorkType == ASSUME TypeOK, NEW t \in Thread
                      PROVE  /\ Waiting(t) \in {0, 1} /\ handlers[t] \in Nat /\ sem[t] \in Nat
                             /\ OwedWork(t) \in Nat
                             /\ OwedWork(t) = 0 <=> ~Owed(t)
<1>1. /\ handlers[t] \in Nat /\ sem[t] \in Nat
      /\ Waiting(t) = IF t \in pending THEN 1 ELSE 0
  BY DEF TypeOK, Waiting
<1>2. Owed(t) <=> Waiting(t) # 0 \/ handlers[t] # 0 \/ sem[t] # 0
  BY <1>1 DEF Owed
<1>3. Waiting(t) \in {0, 1}
  BY <1>1
<1> QED
  BY <1>1, <1>2, <1>3 DEF OwedWork

\* What a step can do to the way of t's time-outs: shorten it if it serves t,
\* lengthen it if t's timer expires, and nothing in all other cases.
OwedCounted(t) ==
  IF Serves(t) THEN OwedWork(t)' < OwedWork(t)
  ELSE IF Expire(t) THEN OwedWork(t)' \in {OwedWork(t), OwedWork(t) + 3}
  ELSE OwedWork(t)' = OwedWork(t)

LEMMA OwedStep == ASSUME TypeOK, [Next]_vars, NEW t \in Thread
                  PROVE  OwedCounted(t)
<1> DEFINE w == Waiting(t)
           h == handlers[t]
           s == sem[t]
<1>1. w \in {0, 1} /\ h \in Nat /\ s \in Nat
  BY OwedWorkType
<1>2. OwedWork(t) = 3 * w + 2 * h + s /\ OwedWork(t)' = 3 * w' + 2 * h' + s'
  BY DEF OwedWork
<1>3. ASSUME NEW x \in Thread, StartHandler(x)
      PROVE  IF x = t THEN w = 1 /\ w' = 0 /\ h' = h + 1 /\ s' = s
                      ELSE w' = w /\ h' = h /\ s' = s
  BY <1>3 DEF StartHandler, TypeOK, Waiting, Add
<1>4. ASSUME NEW x \in Thread, Post(x)
      PROVE  IF x = t THEN w' = w /\ h' = h - 1 /\ s' = s + 1
                      ELSE w' = w /\ h' = h /\ s' = s
  BY <1>4 DEF Post, TypeOK, Waiting, Add
<1>5. ASSUME NEW x \in Thread, Handle(x) \/ \E u \in Thread : Interrupt(x, u)
      PROVE  IF x = t THEN w = 1 /\ w' = 0 /\ h' = h /\ s' = s + 1
                      ELSE w' = w /\ h' = h /\ s' = s
  BY <1>5 DEF Handle, Interrupt, TypeOK, Waiting, Add
<1>6. ASSUME NEW u \in Thread, Wake(u)
      PROVE  IF u = t THEN w' = w /\ h' = h /\ s' = s - 1
                      ELSE w' = w /\ h' = h /\ s' = s
  BY <1>6 DEF Wake, TypeOK, Waiting, Add
<1>7. ASSUME NEW x \in Thread, Expire(x)
      PROVE  IF x = t THEN w' = 1 /\ h' = h /\ s' = s
                      ELSE w' = w /\ h' = h /\ s' = s
  BY <1>7 DEF Expire, Waiting
<1>8. \/ \E x \in Thread : \/ StartHandler(x) \/ Post(x) \/ Wake(x) \/ Expire(x)
                           \/ Handle(x) \/ \E u \in Thread : Interrupt(x, u)
      \/ UNCHANGED <<pending, handlers, sem>>
  BY DEF Next, vars, Main, Create, CreateTimers, Arm, Join, TimerStep, ThreadStep, Run
<1>9. UNCHANGED <<pending, handlers, sem>> => w' = w /\ h' = h /\ s' = s
  BY DEF Waiting
<1> HIDE DEF w, h, s
<1>10. CASE Serves(t)
  <2>1. \/ w = 1 /\ w' = 0 /\ h' = h + 1 /\ s' = s
        \/ w' = w /\ h' = h - 1 /\ s' = s + 1
        \/ w = 1 /\ w' = 0 /\ h' = h /\ s' = s + 1
        \/ w' = w /\ h' = h /\ s' = s - 1
    BY <1>3, <1>4, <1>5, <1>6, <1>10 DEF Serves
  <2>2. OwedWork(t)' < OwedWork(t)
    BY <1>1, <1>2, <2>1
  <2> QED
    BY <1>10, <2>2 DEF OwedCounted
<1>11. CASE ~Serves(t) /\ Expire(t)
  <2>1. w' = 1 /\ h' = h /\ s' = s
    BY <1>7, <1>11
  <2>2. OwedWork(t)' \in {OwedWork(t), OwedWork(t) + 3}
    BY <1>1, <1>2, <2>1
  <2> QED
    BY <1>11, <2>2 DEF OwedCounted
<1>12. CASE ~Serves(t) /\ ~Expire(t)
  <2>1. w' = w /\ h' = h /\ s' = s
    BY <1>3, <1>4, <1>5, <1>6, <1>7, <1>8, <1>9, <1>12 DEF Serves
  <2>2. OwedWork(t)' = OwedWork(t)
    BY <1>2, <2>1
  <2> QED
    BY <1>12, <2>2 DEF OwedCounted
<1> QED
  BY <1>10, <1>11, <1>12

\* A time-out on its way gets there in three steps at most, and no other timer,
\* handler or thread can put it back: only a later time-out of the same timer
\* adds to what is on the way.
THEOREM OwedRunsDown ==
  Spec => /\ [](\A t \in Thread : /\ OwedWork(t) \in Nat
                                  /\ OwedWork(t) = 0 <=> ~Owed(t))
          /\ [][\A t \in Thread : OwedCounted(t)]_vars
<1>1. TypeOK => \A t \in Thread : /\ OwedWork(t) \in Nat
                                  /\ OwedWork(t) = 0 <=> ~Owed(t)
  BY OwedWorkType
<1>2. TypeOK /\ [Next]_vars => [\A t \in Thread : OwedCounted(t)]_vars
  BY OwedStep
<1> QED
  BY <1>1, <1>2, TypeCorrect, PTL DEF Spec

=============================================================================
