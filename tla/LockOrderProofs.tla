-------------------------- MODULE LockOrderProofs --------------------------
(***************************************************************************)
(* Theorems about LockOrder, for every number of threads and mutexes, every*)
(* order in which the threads take them, and every length of the loops.    *)
(***************************************************************************)
EXTENDS LockOrder, FiniteSetTheorems, WellFoundedInduction, TLAPS

-----------------------------------------------------------------------------
(* Types *)

\* main creates the threads in turn: those still to come are new, no other is;
\* if it fails to, some stay new.
Creation ==
  /\ main_pc = "create" => \A t \in Thread : pc[t] = "new" <=> t >= main_t
  /\ main_pc \notin {"create", "failed"} => \A t \in Thread : pc[t] # "new"

TypeInv == TypeOK /\ Creation

\* The mutex a thread waits for, and those it holds, are mutexes.
LEMMA OrderTypes == \A t \in Thread :
                      /\ Len(Order[t]) \in Nat \ {0}
                      /\ \A k \in 1..Len(Order[t]) : Order[t][k] \in Mutex
  BY LockOrderAssumption

\* The lengths of the loops.
LEMMA Bounds == /\ N \in Nat /\ N > 0 /\ Rounds \in Nat /\ Rounds > 0
                /\ Work \in Nat /\ Work > 0 /\ Joins \in Nat /\ Joins > 0
  BY LockOrderAssumption

\* main goes through the threads in turn.
LEMMA OnwardTypes == ASSUME NEW next, Onward(next), main_t \in Thread
                     PROVE  main_t' \in Thread /\ main_pc' \in {next, main_pc}
  BY Bounds DEF Onward, Thread

\* The program starts with every variable in its type.
LEMMA InitTypes == Init => TypeInv
<1> SUFFICES ASSUME Init
             PROVE  TypeInv
  OBVIOUS
<1>1. Typed
  BY Bounds DEF Init, Typed, Thread, NoThread
<1>2. ASSUME NEW t \in Thread
      PROVE  Placed(t)
  BY <1>2, LockOrderAssumption DEF Init, Placed, InSection
<1>3. Creation
  BY DEF Init, Creation, Thread
<1> QED
  BY <1>1, <1>2, <1>3 DEF TypeInv, TypeOK

\* main's share of the type invariant.
LEMMA MainTypes == TypeInv /\ Main => TypeInv'
<1> SUFFICES ASSUME TypeInv, Main
             PROVE  TypeInv'
  OBVIOUS
<1> USE DEF TypeInv, TypeOK
<1>1. ASSUME UNCHANGED threadVars, UNCHANGED main_pc \/ main_pc' # "create",
             main_pc \notin {"create", "failed"}
      PROVE  (\A t \in Thread : Placed(t))' /\ Creation'
  BY <1>1 DEF threadVars, Placed, InSection, Creation
<1>0. CASE CreateFails
  <2>1. Typed'
    BY <1>0 DEF CreateFails, Typed, threadVars
  <2>2. (\A t \in Thread : Placed(t))' /\ Creation'
    BY <1>0 DEF CreateFails, threadVars, Placed, InSection, Creation
  <2> QED
    BY <2>1, <2>2
<1>2. CASE Create
  <2>1. main_t \in 1..N /\ pc[main_t] = "new"
    BY <1>2 DEF Create, Creation, Typed, Thread
  <2>2. Typed'
    <3>1. main_t' \in Thread /\ main_pc' \in {"join", "create"}
      BY <1>2, <2>1, OnwardTypes DEF Create, Thread
    <3> QED
      BY <1>2, <3>1 DEF Create, Typed
  <2>3. ASSUME NEW t \in Thread
        PROVE  Placed(t)'
    <3>1. held[t] = held'[t] /\ i[t] = i'[t] /\ j[t] = j'[t]
      BY <1>2 DEF Create
    <3>2. CASE t = main_t
      <4>1. pc'[t] = "lock"
        BY <1>2, <3>2 DEF Create, Typed
      <4>2. held[t] = 0 /\ 0 < Len(Order[t]) /\ i[t] < Rounds /\ j[t] = 0
        BY <2>1, <3>2, LockOrderAssumption DEF Placed, InSection
      <4> QED
        BY <3>1, <4>1, <4>2 DEF Placed, InSection
    <3>3. CASE t # main_t
      <4>1. pc'[t] = pc[t]
        BY <1>2, <3>3 DEF Create, Typed
      <4> QED
        BY <3>1, <4>1 DEF Placed, InSection
    <3> QED
      BY <3>2, <3>3
  <2>4. Creation'
    <3>1. \A t \in Thread : pc'[t] = IF t = main_t THEN "lock" ELSE pc[t]
      BY <1>2 DEF Create, Typed
    <3> QED
      BY <1>2, <2>1, <3>1, LockOrderAssumption DEF Create, Onward, Creation, Thread
  <2> QED
    BY <2>2, <2>3, <2>4
<1>3. CASE Join
  <2>1. Typed'
    <3>1. main_t' \in Thread /\ main_pc' \in {"check", "join"}
      BY <1>3, OnwardTypes DEF Join, Typed
    <3> QED
      BY <1>3, <3>1 DEF Join, Typed, threadVars
  <2> QED
    BY <1>1, <1>3, <2>1 DEF Join, Onward
<1>4. CASE JoinAgain
  <2>1. Typed'
    <3>1. main_t' \in Thread /\ main_pc' \in {"check", "join", "crashed"}
      BY <1>4, OnwardTypes DEF JoinAgain, Typed
    <3> QED
      BY <1>4, <3>1 DEF JoinAgain, Typed, threadVars
  <2> QED
    BY <1>1, <1>4, <2>1 DEF JoinAgain, Onward
<1>5. CASE Detect
  <2>1. Typed'
    BY <1>5 DEF Detect, Typed, threadVars
  <2> QED
    BY <1>1, <1>5, <2>1 DEF Detect
<1>6. CASE JoinLoop
  <2>1. Typed'
    BY <1>6, Bounds DEF JoinLoop, Typed, threadVars
  <2> QED
    BY <1>1, <1>6, <2>1 DEF JoinLoop
<1>7. CASE Destroy
  <2>1. Typed'
    BY <1>7 DEF Destroy, Typed, threadVars
  <2> QED
    BY <1>1, <1>7, <2>1 DEF Destroy
<1> QED
  BY <1>0, <1>2, <1>3, <1>4, <1>5, <1>6, <1>7 DEF Main

\* A step of one thread leaves the others where they are.
LEMMA OthersStay == ASSUME NEW t \in Thread, TypeInv, Step(t),
                           NEW u \in Thread, u # t
                    PROVE  /\ pc'[u] = pc[u] /\ held'[u] = held[u]
                           /\ i'[u] = i[u] /\ j'[u] = j[u]
                           /\ register'[u] = register[u]
  BY DEF TypeInv, TypeOK, Typed, Step, Lock, Load, Store, Report, Unlock

\* What a thread waits for is the next mutex of its order.
LEMMA WantedIsMutex == ASSUME NEW t \in Thread, TypeInv, pc[t] = "lock"
                       PROVE  held[t] + 1 \in 1..Len(Order[t]) /\ Wanted(t) \in Mutex
<1>1. held[t] \in Nat /\ held[t] < Len(Order[t])
  BY DEF TypeInv, TypeOK, Typed, Placed
<1>2. held[t] + 1 \in 1..Len(Order[t])
  BY <1>1, OrderTypes
<1> QED
  BY <1>2, OrderTypes DEF Wanted

\* A thread's share of the type invariant.
LEMMA StepTypes == ASSUME NEW t \in Thread, TypeInv, Step(t)
                   PROVE  TypeInv'
<1> USE DEF TypeInv, TypeOK
<1>1. pc[t] \notin {"new", "done"} /\ pc'[t] # "new" /\ UNCHANGED mainVars
  BY DEF Step, Lock, Load, Store, Report, Unlock, Typed
<1>2. Creation'
  BY <1>1, OthersStay DEF Creation, mainVars
<1>3. ASSUME NEW u \in Thread, u # t
      PROVE  Placed(u)'
  BY <1>3, OthersStay DEF Placed, InSection
<1>4. Typed' /\ Placed(t)'
  <2> USE DEF Typed, Placed, InSection, mainVars
  <2>1. CASE Lock(t)
    <3>1. Wanted(t) \in Mutex
      <4>1. TypeInv /\ pc[t] = "lock"
        BY <2>1 DEF Lock
      <4> HIDE DEF TypeInv, TypeOK, Typed, Placed
      <4> QED
        BY <4>1, WantedIsMutex
    <3>2. held'[t] = held[t] + 1 /\ held'[t] \in 1..Len(Order[t])
      BY <2>1, OrderTypes DEF Lock
    <3>3. Typed'
      BY <2>1, <3>1, <3>2 DEF Lock, NoThread
    <3>4. Placed(t)'
      BY <2>1, <3>2, Bounds DEF Lock
    <3> QED
      BY <3>3, <3>4
  <2>2. CASE Load(t)
    BY <2>2 DEF Load
  <2>3. CASE Store(t)
    <3>1. j'[t] = j[t] + 1 /\ j'[t] \in 1..Work
      BY <2>3, Bounds DEF Store
    <3>2. pc'[t] = IF j'[t] = Work THEN "report" ELSE "load"
      BY <2>3 DEF Store
    <3>3. held'[t] = held[t] /\ held[t] = Len(Order[t]) /\ i'[t] = i[t] /\ i[t] < Rounds
      BY <2>3 DEF Store
    <3>4. Typed'
      BY <2>3, <3>1 DEF Store
    <3>5. Placed(t)'
      BY <3>1, <3>2, <3>3, Bounds
    <3> QED
      BY <3>4, <3>5
  <2>4. CASE Report(t)
    <3>1. pc'[t] = "unlock" /\ j'[t] = 0 /\ held'[t] = held[t] /\ i'[t] = i[t]
      BY <2>4 DEF Report
    <3>2. held[t] \in 1..Len(Order[t])
      BY <2>4, OrderTypes DEF Report
    <3>3. Typed'
      BY <2>4, Bounds DEF Report
    <3>4. Placed(t)'
      BY <2>4, <3>1, <3>2 DEF Report
    <3> QED
      BY <3>3, <3>4
  <2>5. CASE Unlock(t)
    <3>1. /\ Newest(t) \in Mutex
          /\ held'[t] = held[t] - 1
          /\ held'[t] \in 0..(Len(Order[t]) - 1)
      BY <2>5, OrderTypes DEF Unlock, Newest
    <3>2. /\ owner' \in [Mutex -> Thread \cup {NoThread}]
          /\ held' \in [Thread -> Nat]
      BY <2>5, <3>1 DEF Unlock, NoThread
    <3>3. CASE held[t] > 1
      <4>1. UNCHANGED <<i, pc>> /\ held'[t] > 0
        BY <2>5, <3>1, <3>3 DEF Unlock
      <4>2. Typed'
        BY <2>5, <3>2, <4>1 DEF Unlock
      <4>3. pc'[t] = "unlock" /\ i'[t] < Rounds /\ j'[t] = 0
        BY <2>5, <4>1 DEF Unlock
      <4>4. held'[t] \in 1..Len(Order[t])
        BY <3>1, <4>1, OrderTypes
      <4>5. Placed(t)'
        BY <4>3, <4>4
      <4> QED
        BY <4>2, <4>5
    <3>4. CASE ~(held[t] > 1)
      <4>1. i'[t] = i[t] + 1 /\ i'[t] \in 1..Rounds /\ i' \in [Thread -> 0..Rounds]
        <5>1. i[t] \in 0..Rounds /\ i[t] < Rounds
          BY <2>5 DEF Unlock
        <5>2. i' = [i EXCEPT ![t] = i[t] + 1]
          BY <2>5, <3>4 DEF Unlock
        <5> QED
          BY <5>1, <5>2, Bounds
      <4>2. pc' = [pc EXCEPT ![t] = IF i'[t] = Rounds THEN "done" ELSE "lock"]
        BY <2>5, <3>4 DEF Unlock
      <4>3. Typed'
        BY <2>5, <3>2, <4>1, <4>2 DEF Unlock
      <4>4. held'[t] = 0 /\ j'[t] = 0 /\ Len(Order[t]) \in Nat \ {0}
        <5>1. Len(Order[t]) \in Nat \ {0}
          BY OrderTypes
        <5>2. held[t] \in 1..Len(Order[t])
          BY <2>5 DEF Unlock
        <5>3. j'[t] = 0
          BY <2>5 DEF Unlock
        <5> QED
          BY <3>1, <3>4, <5>1, <5>2, <5>3
      <4>5. /\ pc'[t] = IF i'[t] = Rounds THEN "done" ELSE "lock"
            /\ pc'[t] = "lock" => i'[t] < Rounds
        BY <4>1, <4>2, Bounds
      <4>6. Placed(t)'
        BY <4>4, <4>5
      <4> QED
        BY <4>3, <4>6
    <3> QED
      BY <3>3, <3>4
  <2> QED
    BY <2>1, <2>2, <2>3, <2>4, <2>5 DEF Step
<1> QED
  BY <1>2, <1>3, <1>4

\* Every step keeps the type invariant.
LEMMA NextTypes == TypeInv /\ [Next]_vars => TypeInv'
<1>1. TypeInv /\ UNCHANGED vars => TypeInv'
  BY DEF TypeInv, TypeOK, Typed, Placed, Creation, vars, InSection
<1> QED
  BY <1>1, MainTypes, StepTypes DEF Next, Terminating

\* The threads and main keep every variable in its type, and each thread where
\* its program counter says it is.
THEOREM TypeCorrect == Spec => []TypeOK
<1>1. TypeInv => TypeOK
  BY DEF TypeInv
<1> QED
  BY <1>1, InitTypes, NextTypes, PTL DEF Spec

-----------------------------------------------------------------------------
(* Who holds what *)

\* A thread owns the first held[t] mutexes of its order, and nothing else is
\* owned.
Ownership ==
  /\ \A t \in Thread : \A k \in 1..held[t] : owner[Order[t][k]] = t
  /\ \A m \in Mutex : owner[m] # NoThread =>
       \E k \in 1..held[owner[m]] : Order[owner[m]][k] = m

OwnerInv == TypeInv /\ Ownership

\* A thread holds no more mutexes than its order has.
LEMMA HeldBound == TypeInv => \A t \in Thread : held[t] \in 0..Len(Order[t])
<1> SUFFICES ASSUME TypeInv, NEW t \in Thread
             PROVE  held[t] \in 0..Len(Order[t])
  OBVIOUS
<1>1. held[t] \in Nat /\ Len(Order[t]) \in Nat /\ Placed(t)
  BY OrderTypes DEF TypeInv, TypeOK, Typed
<1>2. pc[t] \in {"new", "lock", "load", "store", "report", "unlock", "done"}
  BY DEF TypeInv, TypeOK, Typed
<1> QED
  BY <1>1, <1>2 DEF Placed, InSection

\* Every step keeps the ownership.
LEMMA OwnershipStep == OwnerInv /\ [Next]_vars => Ownership'
<1> SUFFICES ASSUME TypeInv, Ownership, [Next]_vars
             PROVE  Ownership'
  BY DEF OwnerInv
<1>1. ASSUME owner' = owner, held' = held
      PROVE  Ownership'
  BY <1>1 DEF Ownership
<1>2. ASSUME NEW t \in Thread, Lock(t)
      PROVE  Ownership'
  <2>1. /\ Wanted(t) \in Mutex
        /\ held[t] + 1 \in 1..Len(Order[t])
        /\ held[t] \in Nat
    BY <1>2, WantedIsMutex DEF Lock, TypeInv, TypeOK, Typed
  <2>2. /\ \A m \in Mutex : owner'[m] = IF m = Wanted(t) THEN t ELSE owner[m]
        /\ \A u \in Thread : held'[u] = IF u = t THEN held[t] + 1 ELSE held[u]
    BY <1>2, <2>1 DEF Lock, TypeInv, TypeOK, Typed
  <2>3. ASSUME NEW u \in Thread, NEW k \in 1..held'[u]
        PROVE  owner'[Order[u][k]] = u
    <3>1. CASE u = t /\ k = held[t] + 1
      BY <3>1, <2>1, <2>2 DEF Wanted
    <3>2. CASE ~(u = t /\ k = held[t] + 1)
      <4>1. k \in 1..held[u] /\ k \in 1..Len(Order[u])
        BY <3>2, <2>1, <2>2, HeldBound, OrderTypes
      <4>2. owner[Order[u][k]] = u /\ Order[u][k] \in Mutex
        BY <4>1, OrderTypes DEF Ownership
      <4>3. Order[u][k] # Wanted(t)
        BY <4>2, <1>2 DEF Lock, NoThread, Thread
      <4> QED
        BY <4>2, <4>3, <2>2
    <3> QED
      BY <3>1, <3>2
  <2>4. ASSUME NEW m \in Mutex, owner'[m] # NoThread
        PROVE  \E k \in 1..held'[owner'[m]] : Order[owner'[m]][k] = m
    <3>1. CASE m = Wanted(t)
      BY <3>1, <2>1, <2>2 DEF Wanted
    <3>2. CASE m # Wanted(t)
      <4>1. owner'[m] = owner[m] /\ owner[m] \in Thread
        BY <3>2, <2>2, <2>4 DEF TypeInv, TypeOK, Typed
      <4>2. PICK k \in 1..held[owner[m]] : Order[owner[m]][k] = m
        BY <4>1, <2>4 DEF Ownership
      <4>3. k \in 1..held'[owner[m]]
        BY <4>1, <4>2, <2>1, <2>2, HeldBound
      <4> QED
        BY <4>1, <4>2, <4>3
    <3> QED
      BY <3>1, <3>2
  <2> QED
    BY <2>3, <2>4 DEF Ownership
<1>3. ASSUME NEW t \in Thread, Unlock(t)
      PROVE  Ownership'
  <2>1. held[t] \in 1..Len(Order[t]) /\ Newest(t) \in Mutex
    BY <1>3, OrderTypes DEF Unlock, Newest, TypeInv, TypeOK, Placed
  <2>2. /\ \A m \in Mutex : owner'[m] = IF m = Newest(t) THEN NoThread ELSE owner[m]
        /\ \A u \in Thread : held'[u] = IF u = t THEN held[t] - 1 ELSE held[u]
    BY <1>3, <2>1 DEF Unlock, TypeInv, TypeOK, Typed
  <2>3. ASSUME NEW u \in Thread, NEW k \in 1..held'[u]
        PROVE  owner'[Order[u][k]] = u
    <3>1. k \in 1..held[u] /\ k \in 1..Len(Order[u]) /\ (u = t => k # held[t])
      BY <2>1, <2>2, HeldBound, OrderTypes
    <3>2. owner[Order[u][k]] = u /\ Order[u][k] \in Mutex
      BY <3>1, OrderTypes DEF Ownership
    <3>3. Order[u][k] # Newest(t)
      <4>1. CASE u = t
        BY <4>1, <3>1, <2>1, LockOrderAssumption DEF Newest
      <4>2. CASE u # t
        BY <4>2, <3>2, <2>1 DEF Newest, Ownership
      <4> QED
        BY <4>1, <4>2
    <3> QED
      BY <3>2, <3>3, <2>2
  <2>4. ASSUME NEW m \in Mutex, owner'[m] # NoThread
        PROVE  \E k \in 1..held'[owner'[m]] : Order[owner'[m]][k] = m
    <3>1. m # Newest(t) /\ owner'[m] = owner[m] /\ owner[m] \in Thread
      BY <2>2, <2>4 DEF TypeInv, TypeOK, Typed
    <3>2. PICK k \in 1..held[owner[m]] : Order[owner[m]][k] = m
      BY <3>1, <2>4 DEF Ownership
    <3>3. k \in 1..held'[owner[m]]
      BY <3>1, <3>2, <2>1, <2>2, HeldBound DEF Newest
    <3> QED
      BY <3>1, <3>2, <3>3
  <2> QED
    BY <2>3, <2>4 DEF Ownership
<1> QED
  BY <1>1, <1>2, <1>3
     DEF Next, Step, Load, Store, Report, Main, Create, CreateFails, Join, JoinAgain,
         Detect, JoinLoop, Destroy, Terminating, threadVars, vars

\* What every thread owns is what it has locked and not yet unlocked.
LEMMA OwnerInvariant == Spec => []OwnerInv
<1>1. Init => OwnerInv
  BY InitTypes DEF Init, OwnerInv, Ownership
<1>2. OwnerInv /\ [Next]_vars => OwnerInv'
  BY NextTypes, OwnershipStep DEF OwnerInv
<1> QED
  BY <1>1, <1>2, PTL DEF Spec

-----------------------------------------------------------------------------
(* The shared counter *)

\* Every thread takes g before it touches the counter.
Guards(g) == g \in Mutex /\ \A t \in Thread : \E k \in 1..Len(Order[t]) : Order[t][k] = g

Exclusion == \A t, u \in Thread : InSection(t) /\ InSection(u) => t = u

\* The inductive form of CountExact: what is in a register about to be stored
\* is still the value of the counter, and the last count printed is exact.
CountInv ==
  /\ CountExact
  /\ \A t \in Thread : pc[t] = "store" => register[t] = sharedVariable
  /\ printed = Work * reports

\* A common mutex keeps the threads out of each other's sections.
LEMMA GuardExcludes == ASSUME NEW g, Guards(g)
                       PROVE  OwnerInv => Exclusion
<1> SUFFICES ASSUME OwnerInv, NEW t \in Thread, NEW u \in Thread,
                    InSection(t), InSection(u)
             PROVE  t = u
  BY DEF Exclusion
<1>1. held[t] = Len(Order[t]) /\ held[u] = Len(Order[u])
  BY DEF OwnerInv, TypeInv, TypeOK, Placed
<1>2. PICK k \in 1..held[t] : Order[t][k] = g
  BY <1>1 DEF Guards
<1>3. PICK l \in 1..held[u] : Order[u][l] = g
  BY <1>1 DEF Guards
<1> QED
  BY <1>2, <1>3 DEF OwnerInv, Ownership

\* One more round of Work.
LEMMA OneMoreRound == ASSUME NEW n \in Nat
                      PROVE  Work * (n + 1) = Work * n + Work
  BY Bounds

\* Every step of threads that exclude each other keeps the counter exact.
LEMMA CountStep == OwnerInv /\ Exclusion /\ CountInv /\ [Next]_vars /\ Exclusion' => CountInv'
<1> SUFFICES ASSUME TypeInv, Exclusion, Exclusion', CountInv, [Next]_vars
             PROVE  CountInv'
  BY DEF OwnerInv
<1> USE DEF TypeInv, TypeOK, CountInv, CountExact
<1>1. CASE Main \/ Terminating \/ UNCHANGED vars
  <2>1. /\ UNCHANGED <<sharedVariable, register, j, printed, reports>>
        /\ \A t \in Thread : pc'[t] = pc[t] \/ (pc[t] = "new" /\ pc'[t] = "lock")
    <3>1. CASE Create
      <4>1. main_t \in Thread /\ pc[main_t] = "new"
        BY <3>1, Bounds DEF Create, Creation, Typed, Thread
      <4> QED
        BY <3>1, <4>1 DEF Create, Typed
    <3>2. CASE ~Create
      BY <1>1, <3>2 DEF Main, CreateFails, Join, JoinAgain, Detect, JoinLoop,
                        Destroy, Terminating, threadVars, vars
    <3> QED
      BY <3>1, <3>2
  <2> QED
    BY <2>1 DEF InSection
<1>2. ASSUME NEW t \in Thread, Step(t)
      PROVE  CountInv'
  <2>1. \A u \in Thread \ {t} : /\ InSection(u)' <=> InSection(u)
                                /\ j'[u] = j[u] /\ pc'[u] = pc[u]
                                /\ register'[u] = register[u]
    BY <1>2, OthersStay DEF InSection
  <2>2. CASE Lock(t)
    <3>1. /\ UNCHANGED <<sharedVariable, register, j, printed, reports>>
          /\ j[t] = 0 /\ ~InSection(t) /\ pc'[t] # "store"
      BY <2>2 DEF Lock, Typed, Placed, InSection
    <3>2. CASE InSection(t)'
      <4>1. \A u \in Thread : ~InSection(u)
        BY <2>1, <3>1, <3>2 DEF Exclusion
      <4>2. sharedVariable = Work * reports /\ Work * reports + 0 = Work * reports
        BY <4>1, Bounds DEF Typed
      <4> QED
        BY <2>1, <3>1, <3>2, <4>1, <4>2
    <3>3. CASE ~InSection(t)'
      BY <2>1, <3>1, <3>3
    <3> QED
      BY <3>2, <3>3
  <2>3. CASE Load(t)
    <3>1. /\ UNCHANGED <<sharedVariable, j, printed, reports>>
          /\ register'[t] = sharedVariable
          /\ InSection(t) /\ InSection(t)'
      BY <2>3 DEF Load, Typed, InSection
    <3> QED
      BY <2>1, <3>1
  <2>4. CASE Store(t)
    <3>1. /\ UNCHANGED <<printed, reports>>
          /\ sharedVariable' = sharedVariable + 1
          /\ j'[t] = j[t] + 1
          /\ InSection(t) /\ InSection(t)' /\ pc'[t] # "store"
      BY <2>4 DEF Store, Typed, InSection
    <3>2. \A u \in Thread \ {t} : ~InSection(u) /\ ~InSection(u)'
      BY <2>1, <3>1 DEF Exclusion
    <3>3. sharedVariable' = Work * reports' + j'[t]
      <4>1. Work * reports \in Nat /\ j[t] \in Nat /\ sharedVariable \in Nat
        BY Bounds DEF Typed
      <4>2. sharedVariable = Work * reports + j[t]
        BY <3>1
      <4> QED
        BY <3>1, <4>1, <4>2
    <3>4. \A u \in Thread \ {t} : pc'[u] # "store"
      BY <3>2 DEF InSection
    <3> QED
      BY <3>1, <3>2, <3>3, <3>4
  <2>5. CASE Report(t)
    <3>1. /\ UNCHANGED <<sharedVariable, register>>
          /\ printed' = sharedVariable /\ reports' = reports + 1
          /\ j[t] = Work
          /\ InSection(t) /\ ~InSection(t)' /\ pc'[t] # "store"
      BY <2>5 DEF Report, Typed, Placed, InSection
    <3>2. \A u \in Thread : ~InSection(u)'
      BY <2>1, <3>1 DEF Exclusion
    <3>3. sharedVariable = Work * (reports + 1)
      BY <3>1, OneMoreRound DEF Typed
    <3>4. \A u \in Thread : pc'[u] # "store"
      BY <3>2 DEF InSection
    <3> QED
      BY <3>1, <3>2, <3>3, <3>4
  <2>6. CASE Unlock(t)
    <3>1. /\ UNCHANGED <<sharedVariable, register, j, printed, reports>>
          /\ ~InSection(t) /\ ~InSection(t)' /\ pc'[t] # "store"
      BY <2>6 DEF Unlock, Typed, InSection
    <3> QED
      BY <2>1, <3>1
  <2> QED
    BY <1>2, <2>2, <2>3, <2>4, <2>5, <2>6 DEF Step
<1> QED
  BY <1>1, <1>2 DEF Next

\* The counter and what is printed of it are exact at every moment.
LEMMA CountInvariant == ASSUME NEW g, Guards(g)
                        PROVE  Spec => [](OwnerInv /\ CountInv)
<1>1. Init => CountInv
  BY Bounds DEF Init, CountInv, CountExact, InSection
<1>2. OwnerInv /\ CountInv /\ [Next]_vars /\ OwnerInv' => CountInv'
  <2>1. OwnerInv => Exclusion
    BY GuardExcludes
  <2>2. OwnerInv' => Exclusion'
    BY <2>1, PTL
  <2> QED
    BY <2>1, <2>2, CountStep
<1> QED
  BY <1>1, <1>2, OwnerInvariant, PTL DEF Spec

\* No increment of sharedVariable is lost, if all threads take some mutex in
\* common: any number of them, and whatever else they lock.
THEOREM NoIncrementLost == ASSUME NEW g, Guards(g)
                           PROVE  Spec => []CountExact
<1>1. CountInv => CountExact
  BY DEF CountInv
<1> QED
  BY <1>1, CountInvariant, PTL

-----------------------------------------------------------------------------
(* Rounds *)

\* main's steps change no round and print nothing.
LEMMA MainKeepsRounds == TypeInv /\ (Main \/ Terminating \/ UNCHANGED vars)
                           => printed' = printed /\ \A t \in Thread : Made(t)' = Made(t)
<1> SUFFICES ASSUME TypeInv, Main \/ Terminating \/ UNCHANGED vars
             PROVE  printed' = printed /\ \A t \in Thread : Made(t)' = Made(t)
  OBVIOUS
<1>1. CASE Create
  <2>1. main_t \in Thread /\ pc[main_t] = "new"
    BY <1>1, Bounds DEF Create, Creation, TypeInv, TypeOK, Typed, Thread
  <2> QED
    BY <1>1, <2>1 DEF Create, Made, TypeInv, TypeOK, Typed
<1>2. CASE ~Create
  BY <1>2 DEF Main, CreateFails, Join, JoinAgain, Detect, JoinLoop, Destroy,
              Terminating, threadVars, vars, Made
<1> QED
  BY <1>1, <1>2

\* A thread's steps leave the rounds as they are, except the one that prints.
LEMMA OnlyReportMakes == ASSUME NEW t \in Thread, TypeInv, Step(t), ~Report(t)
                         PROVE  printed' = printed /\ \A u \in Thread : Made(u)' = Made(u)
<1>1. \A u \in Thread \ {t} : Made(u)' = Made(u)
  BY OthersStay DEF Made
<1>2. CASE Lock(t) \/ Load(t) \/ Store(t)
  BY <1>1, <1>2 DEF Lock, Load, Store, Made, TypeInv, TypeOK, Typed
<1>3. CASE Unlock(t)
  <2>1. Made(t)' = Made(t)
    BY <1>3 DEF Unlock, Made, TypeInv, TypeOK, Typed
  <2> QED
    BY <1>1, <1>3, <2>1 DEF Unlock
<1> QED
  BY <1>2, <1>3 DEF Step

\* The step that prints is a round.
LEMMA ReportIsRound == ASSUME NEW t \in Thread, TypeInv, CountInv, CountInv', Step(t), Report(t)
                       PROVE  Atomic!Round(t)
<1>1. Made(t) = i[t] /\ i[t] < Rounds /\ i[t] \in Nat
  BY DEF Report, Made, TypeInv, TypeOK, Typed, Placed
<1>2. Made(t)' = Made(t) + 1 /\ \A u \in Thread \ {t} : Made(u)' = Made(u)
  <2>1. pc'[t] = "unlock" /\ i'[t] = i[t]
    BY DEF Report, TypeInv, TypeOK, Typed
  <2> QED
    BY <1>1, <2>1, OthersStay DEF Made
<1>3. printed' = printed + Work
  <2>1. reports' = reports + 1 /\ reports \in Nat
    BY DEF Report, TypeInv, TypeOK, Typed
  <2> QED
    BY <2>1, OneMoreRound DEF CountInv
<1> QED
  BY <1>1, <1>2, <1>3 DEF Atomic!Round

\* Seen through the counts they print, threads with a mutex in common make their
\* rounds one at a time and all at once, whatever else they lock.
THEOREM RoundsImplemented == ASSUME NEW g, Guards(g)
                             PROVE  Spec => ImplementsRounds
<1>1. Init => Atomic!Init
  BY DEF Init, Atomic!Init, Made
<1>2. OwnerInv /\ CountInv /\ (OwnerInv /\ CountInv)' /\ [Next]_vars
        => [Atomic!Next]_(Atomic!roundVars)
  <2> SUFFICES ASSUME TypeInv, CountInv, CountInv', [Next]_vars
               PROVE  [Atomic!Next]_(Atomic!roundVars)
    BY DEF OwnerInv
  <2>1. CASE Main \/ Terminating \/ UNCHANGED vars
    BY <2>1, MainKeepsRounds DEF Atomic!roundVars
  <2>2. ASSUME NEW t \in Thread, Step(t)
        PROVE  [Atomic!Next]_(Atomic!roundVars)
    <3>1. CASE Report(t)
      BY <2>2, <3>1, ReportIsRound DEF Atomic!Next
    <3>2. CASE ~Report(t)
      BY <2>2, <3>2, OnlyReportMakes DEF Atomic!roundVars
    <3> QED
      BY <3>1, <3>2
  <2> QED
    BY <2>1, <2>2 DEF Next
<1> QED
  BY <1>1, <1>2, CountInvariant, PTL DEF Spec, ImplementsRounds, Atomic!Spec

\* mutex_sharedVariable_pThread.c: one mutex is enough for that.
COROLLARY OneMutexRounds == ASSUME NEW m \in Mutex, Order = [t \in Thread |-> <<m>>]
                            PROVE  Spec => []CountExact /\ ImplementsRounds
<1>1. Guards(m)
  BY DEF Guards
<1> QED
  BY <1>1, NoIncrementLost, RoundsImplemented

-----------------------------------------------------------------------------
(* Deadlock *)

\* A non-empty set of natural numbers has a least element.
LEMMA LeastNat == ASSUME NEW T, T \subseteq Nat, T # {}
                  PROVE  \E x \in T : \A y \in T : x <= y
<1> DEFINE Below == {0..x : x \in T}
           Smaller == StrictSubsetOrdering(Nat)
<1>1. Below \subseteq FiniteSubsetsOf(Nat) /\ Below # {}
  <2>1. \A x \in T : IsFiniteSet(0..x)
    BY FS_Interval
  <2>2. \A x \in T : 0..x \in SUBSET Nat
    OBVIOUS
  <2> QED
    BY <2>1, <2>2 DEF FiniteSubsetsOf
<1>2. \E s \in Below : \A r \in Below : <<r, s>> \notin Smaller
  <2>1. IsWellFoundedOn(Smaller, FiniteSubsetsOf(Nat))
    BY FS_StrictSubsetOrderingWellFounded
  <2> HIDE DEF Below, Smaller
  <2> QED
    BY <1>1, <2>1, WFMin
<1>3. PICK x \in T : \A y \in T : <<0..y, 0..x>> \notin Smaller
  BY <1>2
<1>4. ASSUME NEW y \in T, y < x
      PROVE  FALSE
  <2>1. x \in Nat /\ y \in Nat
    OBVIOUS
  <2>2. 0..y \subseteq 0..x /\ x \notin 0..y /\ x \in 0..x
    BY <1>4, <2>1
  <2>3. 0..y \in SUBSET Nat /\ 0..x \in SUBSET Nat /\ 0..y # 0..x
    BY <2>1, <2>2
  <2> QED
    BY <1>3, <2>2, <2>3 DEF StrictSubsetOrdering
<1> QED
  BY <1>4

\* Rank falls along the order of every thread.
Ranks(Rank) ==
  /\ Rank \in [Mutex -> Nat]
  /\ \A t \in Thread : \A k, l \in 1..Len(Order[t]) :
       k < l => Rank[Order[t][l]] < Rank[Order[t][k]]

\* In a circular wait, the mutex of least rank anyone waits for is owned by a
\* thread that waits for one of a still lesser rank.
LEMMA RankedNeverCircular == ASSUME NEW Rank, Ranks(Rank)
                             PROVE  OwnerInv => NoCircularWait
<1> SUFFICES ASSUME OwnerInv, NEW S \in SUBSET Thread, CircularWait(S)
             PROVE  FALSE
  BY DEF NoCircularWait, Deadlocked
<1>1. \A t \in S : /\ held[t] + 1 \in 1..Len(Order[t])
                   /\ Wanted(t) \in Mutex
                   /\ owner[Wanted(t)] \in S
  BY WantedIsMutex DEF CircularWait, OwnerInv
<1> DEFINE Awaited == {Rank[Wanted(t)] : t \in S}
<1>2. Awaited \subseteq Nat /\ Awaited # {}
  BY <1>1 DEF CircularWait, Ranks
<1>3. PICK t \in S : \A u \in S : Rank[Wanted(t)] <= Rank[Wanted(u)]
  <2>1. \E x \in Awaited : \A y \in Awaited : x <= y
    <3> HIDE DEF Awaited
    <3> QED
      BY <1>2, LeastNat
  <2> QED
    BY <2>1
<1>4. PICK u \in S : owner[Wanted(t)] = u
  BY <1>1
<1>5. PICK k \in 1..held[u] : Order[u][k] = Wanted(t)
  BY <1>1, <1>4 DEF OwnerInv, Ownership, NoThread, Thread
<1>6. k \in 1..Len(Order[u]) /\ k < held[u] + 1
  <2>1. held[u] \in Nat /\ Len(Order[u]) \in Nat
    BY OrderTypes DEF OwnerInv, TypeInv, TypeOK, Typed
  <2>2. held[u] + 1 <= Len(Order[u])
    BY <1>1, <2>1
  <2> QED
    BY <1>5, <2>1, <2>2
<1>7. Rank[Wanted(u)] < Rank[Wanted(t)]
  BY <1>1, <1>5, <1>6 DEF Ranks, Wanted
<1>8. Rank[Wanted(u)] \in Nat /\ Rank[Wanted(t)] \in Nat
  BY <1>1 DEF Ranks
<1> QED
  BY <1>3, <1>7, <1>8

\* Any number of threads that take any mutexes along one common ranking never
\* wait in a circle.
THEOREM OrderedLocksNeverDeadlock == ASSUME NEW Rank, Ranks(Rank)
                                     PROVE  Spec => []NoCircularWait
<1>1. OwnerInv => NoCircularWait
  BY RankedNeverCircular
<1> QED
  BY <1>1, OwnerInvariant, PTL

\* mutex_nested.c: threads that all take m1, then m2, never wait in a circle.
COROLLARY NestedLocksNeverDeadlock ==
  ASSUME NEW m1 \in Mutex, NEW m2 \in Mutex, m1 # m2,
         Order = [t \in Thread |-> <<m1, m2>>]
  PROVE  Spec => []NoCircularWait
<1> DEFINE Rank == [m \in Mutex |-> IF m = m1 THEN 1 ELSE 0]
<1>1. Ranks(Rank)
  BY DEF Ranks
<1> HIDE DEF Rank
<1> QED
  BY <1>1, OrderedLocksNeverDeadlock

\* A thread that has ended owns nothing, so whoever is blocked is blocked by
\* one that is blocked as well.
LEMMA StuckIsCircular == OwnerInv => StuckOnlyInCircle
<1> SUFFICES ASSUME OwnerInv,
                    \A t \in Thread : pc[t] = "done" \/ Blocked(t),
                    ~AllDone
             PROVE  Deadlocked
  BY DEF StuckOnlyInCircle
<1> DEFINE S == {t \in Thread : Blocked(t)}
<1>1. S # {}
  BY DEF AllDone
<1>2. ASSUME NEW t \in S
      PROVE  pc[t] = "lock" /\ owner[Wanted(t)] \in S
  <2>1. pc[t] = "lock" /\ Wanted(t) \in Mutex /\ owner[Wanted(t)] # NoThread
    BY OrderTypes
       DEF Blocked, Wanted, OwnerInv, TypeInv, TypeOK, Typed, Placed
  <2>2. PICK u \in Thread : owner[Wanted(t)] = u
    BY <2>1 DEF OwnerInv, TypeInv, TypeOK, Typed
  <2>3. \E k \in 1..held[u] : Order[u][k] = Wanted(t)
    BY <2>1, <2>2 DEF OwnerInv, Ownership
  <2>4. pc[u] # "done"
    BY <2>3 DEF OwnerInv, TypeInv, TypeOK, Placed
  <2> QED
    BY <2>1, <2>2, <2>4
<1>3. CircularWait(S)
  BY <1>1, <1>2 DEF CircularWait
<1> QED
  BY <1>3 DEF Deadlocked

\* Whatever the lock orders, threads that are all stuck wait in a circle.
THEOREM StuckMeansCircle == Spec => []StuckOnlyInCircle
  BY StuckIsCircular, OwnerInvariant, PTL

\* A circle of threads that wait for each other cannot be broken: they take no
\* step themselves, and no other thread owns what they wait for.
THEOREM DeadlockStays == Spec => DeadlockIsForever
<1>1. OwnerInv /\ [Next]_vars => [Deadlocked => Deadlocked']_vars
  <2> SUFFICES ASSUME OwnerInv, Next, NEW S \in SUBSET Thread, CircularWait(S)
               PROVE  CircularWait(S)'
    BY DEF Deadlocked
  <2> USE DEF OwnerInv, TypeInv, TypeOK
  <2>1. \A t \in S : /\ pc[t] = "lock"
                     /\ Wanted(t) \in Mutex
                     /\ owner[Wanted(t)] \in S
                     /\ owner[Wanted(t)] # NoThread
    <3>1. \A t \in S : pc[t] = "lock" /\ owner[Wanted(t)] \in S
      BY DEF CircularWait
    <3>3. \A t \in S : Wanted(t) \in Mutex
      <4> HIDE DEF TypeInv
      <4> QED
        BY <3>1, WantedIsMutex
    <3>4. NoThread \notin S
      BY DEF NoThread, Thread
    <3> QED
      BY <3>1, <3>3, <3>4
  <2>2. \A t \in S : /\ pc'[t] = pc[t]
                     /\ held'[t] = held[t]
                     /\ owner'[Wanted(t)] = owner[Wanted(t)]
    <3>1. CASE Create
      BY <3>1, <2>1 DEF Create, Creation, Typed
    <3>2. CASE (Main /\ ~Create) \/ Terminating
      BY <3>2 DEF Main, CreateFails, Join, JoinAgain, Detect, JoinLoop, Destroy,
                  Terminating, threadVars, vars
    <3>3. ASSUME NEW u \in Thread, Step(u), NEW t \in S
          PROVE  /\ pc'[t] = pc[t]
                 /\ held'[t] = held[t]
                 /\ owner'[Wanted(t)] = owner[Wanted(t)]
      <4>1. u \notin S
        BY <3>3, <2>1 DEF Step, Lock, Load, Store, Report, Unlock
      <4>2. pc'[t] = pc[t] /\ held'[t] = held[t]
        BY <3>3, <4>1, OthersStay
      <4>3. owner'[Wanted(t)] = owner[Wanted(t)]
        <5>1. CASE Lock(u)
          BY <5>1, <2>1 DEF Lock, Typed
        <5>2. CASE Unlock(u)
          <6>1. owner[Newest(u)] = u
            <7>1. held[u] \in 1..held[u]
              BY <5>2, OrderTypes DEF Unlock, Placed
            <7> QED
              BY <7>1 DEF Newest, Ownership
          <6> QED
            BY <5>2, <6>1, <4>1, <2>1 DEF Unlock, Typed
        <5>3. CASE Load(u) \/ Store(u) \/ Report(u)
          BY <5>3 DEF Load, Store, Report
        <5> QED
          BY <3>3, <5>1, <5>2, <5>3 DEF Step
      <4> QED
        BY <4>2, <4>3
    <3> QED
      BY <3>1, <3>2, <3>3 DEF Next
  <2> QED
    BY <2>1, <2>2 DEF CircularWait, Wanted
<1> QED
  BY <1>1, OwnerInvariant, PTL DEF Spec, DeadlockIsForever

-----------------------------------------------------------------------------
(* main *)

\* Where main is and whom it has joined: a joined thread has ended, the first
\* join loop goes through the threads in turn, and main leaves it only when it
\* has joined them all.
JoinInv ==
  /\ \A t \in joined : pc[t] = "done"
  /\ main_pc \in {"create", "failed", "join"} /\ main_i = 0 => ret = 0
  /\ main_pc \in {"create", "failed"} => main_i = 0 /\ joined = {}
  /\ main_pc = "join" /\ main_i = 0 => joined = 1..(main_t - 1)
  /\ main_pc = "join" /\ main_i > 0 => joined = Thread
  /\ main_pc \notin {"create", "failed", "join"} => joined = Thread

\* Every step keeps it.
LEMMA JoinStep == TypeInv /\ JoinInv /\ [Next]_vars => JoinInv'
<1> SUFFICES ASSUME TypeInv, JoinInv, [Next]_vars
             PROVE  JoinInv'
  OBVIOUS
<1>1. /\ N \in Nat /\ main_t \in 1..N /\ main_i \in Nat /\ joined \subseteq 1..N
      /\ Thread = 1..N /\ N > 0
  BY Bounds DEF TypeInv, TypeOK, Typed, Thread
<1>2. CASE UNCHANGED vars \/ Terminating
  BY <1>2 DEF JoinInv, vars, Terminating
<1>3. ASSUME NEW t \in Thread, Step(t)
      PROVE  JoinInv'
  <2>1. pc[t] # "done" /\ UNCHANGED mainVars
    BY <1>3 DEF Step, Lock, Load, Store, Report, Unlock
  <2>2. \A u \in joined : u \in Thread /\ u # t
    BY <1>1, <2>1 DEF JoinInv
  <2>3. \A u \in joined : pc'[u] = pc[u]
    BY <1>3, <2>2, OthersStay
  <2> QED
    BY <2>1, <2>3 DEF JoinInv, mainVars
<1>4. CASE Create
  <2>1. joined = {} /\ main_i = 0 /\ ret = 0 /\ UNCHANGED <<joined, main_i, ret>>
    BY <1>4 DEF Create, JoinInv
  <2>2. main_pc' = "create" \/ (main_pc' = "join" /\ main_t' = 1)
    BY <1>4 DEF Create, Onward
  <2>3. 1..(1 - 1) = {}
    OBVIOUS
  <2> QED
    BY <2>1, <2>2, <2>3 DEF JoinInv
<1>5. CASE Join
  <2>1. /\ \A u \in joined' : pc'[u] = "done"
        /\ joined' = joined \cup {main_t} /\ main_t \notin joined
        /\ main_pc = "join" /\ UNCHANGED <<main_i, ret>>
    BY <1>5 DEF Join, JoinInv, threadVars
  <2>2. main_i = 0 /\ joined = 1..(main_t - 1)
    BY <1>1, <2>1 DEF JoinInv
  <2>3. joined' = 1..main_t
    BY <1>1, <2>1, <2>2
  <2> QED
    BY <1>1, <1>5, <2>1, <2>2, <2>3 DEF Join, Onward, JoinInv
<1>6. CASE JoinAgain
  <2>1. main_i > 0 /\ joined = Thread
    BY <1>1, <1>6 DEF JoinAgain, JoinInv
  <2> QED
    BY <1>1, <1>6, <2>1 DEF JoinAgain, Onward, JoinInv, threadVars
<1>7. CASE CreateFails \/ Detect \/ Destroy
  BY <1>7 DEF CreateFails, Detect, Destroy, JoinInv, threadVars
<1>8. CASE JoinLoop
  <2>1. joined = Thread /\ main_i' > 0
    BY <1>1, <1>8 DEF JoinLoop, JoinInv
  <2> QED
    BY <1>8, <2>1 DEF JoinLoop, JoinInv, threadVars
<1> QED
  BY <1>2, <1>3, <1>4, <1>5, <1>6, <1>7, <1>8 DEF Next, Main

\* main has joined exactly whom it has waited for.
LEMMA JoinInvariant == Spec => [](OwnerInv /\ JoinInv)
<1>1. Init => JoinInv
  BY DEF Init, JoinInv
<1>2. OwnerInv /\ JoinInv /\ [Next]_vars => JoinInv'
  BY JoinStep DEF OwnerInv
<1> QED
  BY <1>1, <1>2, OwnerInvariant, PTL DEF Spec

\* The mutexes are destroyed only when all threads have ended and released
\* them, whatever the lock orders.
THEOREM DestroyIsSafe == Spec => []DestroyedFree
<1>1. OwnerInv /\ JoinInv => DestroyedFree
  <2> SUFFICES ASSUME OwnerInv, JoinInv, main_pc \in {"destroy", "returned"}
               PROVE  AllDone /\ \A m \in Mutex : owner[m] = NoThread
    BY DEF DestroyedFree
  <2>1. AllDone
    BY DEF JoinInv, AllDone
  <2>2. \A t \in Thread : held[t] = 0
    BY <2>1 DEF AllDone, OwnerInv, TypeInv, TypeOK, Placed
  <2>3. ASSUME NEW m \in Mutex, owner[m] # NoThread
        PROVE  FALSE
    <3>1. owner[m] \in Thread
      BY <2>3 DEF OwnerInv, TypeInv, TypeOK, Typed
    <3> QED
      BY <2>2, <2>3, <3>1 DEF OwnerInv, Ownership
  <2> QED
    BY <2>1, <2>3
<1> QED
  BY <1>1, JoinInvariant, PTL

\* main never gets to the check of its join results while there is a circular
\* wait: no deadlock is ever reported.
THEOREM DeadlockNeverReported == Spec => []DeadlockIsSilent
<1>1. OwnerInv /\ JoinInv => DeadlockIsSilent
  <2> SUFFICES ASSUME OwnerInv, JoinInv, NEW S \in SUBSET Thread, CircularWait(S)
               PROVE  main_pc \in {"create", "failed", "join"} /\ main_i = 0 /\ ret = 0
    BY DEF DeadlockIsSilent, Deadlocked
  <2>1. PICK t \in S : pc[t] = "lock"
    BY DEF CircularWait
  <2>2. t \in Thread /\ t \notin joined
    BY <2>1 DEF JoinInv
  <2>3. main_i \in Nat
    BY Bounds DEF OwnerInv, TypeInv, TypeOK, Typed
  <2> QED
    BY <2>2, <2>3 DEF JoinInv
<1> QED
  BY <1>1, JoinInvariant, PTL

\* "Deadlock detected" is printed only when every thread has ended, and nobody
\* waits for anybody.
THEOREM MessageMeansAllDone == Spec => [](main_pc = "exit" => AllDone /\ ~Deadlocked)
<1>1. OwnerInv /\ JoinInv => (main_pc = "exit" => AllDone /\ ~Deadlocked)
  BY DEF JoinInv, AllDone, Deadlocked, CircularWait
<1> QED
  BY <1>1, JoinInvariant, PTL

-----------------------------------------------------------------------------
(* Progress *)

\* Threads that have come to be and have not ended.
Unfinished == {t \in Thread : pc[t] \notin {"new", "done"}}

\* Unless there is a circular wait, not all of them wait for a mutex.
SomeoneGoesOn == Deadlocked \/ (Unfinished # {} => \E t \in Unfinished : ~Blocked(t))

\* Whoever waits, waits for a thread that has not ended.
LEMMA WaitsForUnfinished == ASSUME OwnerInv, NEW t \in Thread, Blocked(t)
                            PROVE  owner[Wanted(t)] \in Unfinished
<1>1. Wanted(t) \in Mutex /\ owner[Wanted(t)] # NoThread
  BY WantedIsMutex DEF Blocked, OwnerInv
<1>2. PICK u \in Thread : owner[Wanted(t)] = u
  BY <1>1 DEF OwnerInv, TypeInv, TypeOK, Typed
<1>3. \E k \in 1..held[u] : Order[u][k] = Wanted(t)
  BY <1>1, <1>2 DEF OwnerInv, Ownership
<1>4. held[u] # 0
  BY <1>3
<1>5. pc[u] \notin {"new", "done"}
  BY <1>4 DEF OwnerInv, TypeInv, TypeOK, Placed
<1> QED
  BY <1>2, <1>5 DEF Unfinished

\* Whatever the lock orders, threads come to a stop only by waiting in a circle,
\* also while main is still creating others.
THEOREM OnlyCirclesStop == Spec => []SomeoneGoesOn
<1>1. OwnerInv => SomeoneGoesOn
  <2> SUFFICES ASSUME OwnerInv, Unfinished # {}, \A t \in Unfinished : Blocked(t)
               PROVE  Deadlocked
    BY DEF SomeoneGoesOn
  <2>1. \A t \in Unfinished : pc[t] = "lock" /\ owner[Wanted(t)] \in Unfinished
    BY WaitsForUnfinished DEF Blocked, Unfinished
  <2>2. CircularWait(Unfinished) /\ Unfinished \in SUBSET Thread
    BY <2>1 DEF CircularWait, Unfinished
  <2> QED
    BY <2>2 DEF Deadlocked
<1> QED
  BY <1>1, OwnerInvariant, PTL

\* The steps of one iteration: the locks, a load and a store for each increment,
\* the line, the unlocks.
IterationSteps(t) == 2 * Len(Order[t]) + 2 * Work + 1

\* What is left of them.
LeftInIteration(t) ==
  CASE pc[t] \in {"new", "lock"} -> IterationSteps(t) - held[t]
    [] pc[t] = "load"            -> 2 * (Work - j[t]) + 1 + Len(Order[t])
    [] pc[t] = "store"           -> 2 * (Work - j[t]) + Len(Order[t])
    [] pc[t] = "report"          -> 1 + Len(Order[t])
    [] pc[t] = "unlock"          -> held[t]
    [] OTHER                     -> 0

\* ... and of the thread's whole loop.
StepsLeft(t) ==
  IF pc[t] = "done" THEN 0
  ELSE (Rounds - i[t] - 1) * IterationSteps(t) + LeftInIteration(t)

LEMMA IterationStepsType == \A t \in Thread : IterationSteps(t) \in Nat \ {0}
<1> TAKE t \in Thread
<1> DEFINE L == Len(Order[t])
<1>1. L \in Nat /\ Work \in Nat
  BY OrderTypes, Bounds
<1>2. IterationSteps(t) = 2 * L + 2 * Work + 1
  BY DEF IterationSteps
<1> HIDE DEF L
<1> QED
  BY <1>1, <1>2

LEMMA HeldLessThanSteps == ASSUME NEW t \in Thread, NEW h \in Nat, h < Len(Order[t])
                           PROVE  IterationSteps(t) - h \in Nat \ {0}
<1> DEFINE L == Len(Order[t])
<1>1. L \in Nat /\ Work \in Nat /\ h < L
  BY OrderTypes, Bounds
<1>2. IterationSteps(t) = 2 * L + 2 * Work + 1
  BY DEF IterationSteps
<1> HIDE DEF L
<1> QED
  BY <1>1, <1>2

LEMMA OneIncrementLess == ASSUME NEW w \in Nat, NEW n \in Nat, NEW l \in Nat, n < w
                          PROVE  /\ 2 * (w - n) + l \in Nat
                                 /\ 2 * (w - (n + 1)) + 1 + l = (2 * (w - n) + l) - 1
  OBVIOUS

LEMMA OneMoreTime == ASSUME NEW n \in Nat, NEW m \in Nat
                     PROVE  n * m \in Nat /\ (n + 1) * m = n * m + m
  OBVIOUS

\* The steps left are a number, and zero only at the end.
LEMMA StepsLeftType == ASSUME TypeInv, NEW t \in Thread
                       PROVE  /\ StepsLeft(t) \in Nat
                              /\ StepsLeft(t) = 0 <=> pc[t] = "done"
<1>1. CASE pc[t] = "done"
  BY <1>1 DEF StepsLeft
<1>2. CASE pc[t] # "done"
  <2>1. Rounds - i[t] - 1 \in Nat
    BY <1>2, Bounds DEF TypeInv, TypeOK, Typed, Placed
  <2>2. (Rounds - i[t] - 1) * IterationSteps(t) \in Nat
    BY <2>1, OneMoreTime, IterationStepsType
  <2>3. LeftInIteration(t) \in Nat \ {0}
    <3>1. /\ Len(Order[t]) \in Nat \ {0} /\ held[t] \in Nat /\ j[t] \in Nat
          /\ Work \in Nat \ {0} /\ pc[t] \in {"new", "lock", "load", "store", "report", "unlock"}
      BY <1>2, OrderTypes, Bounds DEF TypeInv, TypeOK, Typed
    <3>2. /\ pc[t] = "lock" => held[t] < Len(Order[t])
          /\ pc[t] = "new" => held[t] = 0
          /\ pc[t] = "unlock" => held[t] > 0
          /\ pc[t] \in {"load", "store"} => j[t] < Work
      BY <3>1, OrderTypes DEF TypeInv, TypeOK, Placed
    <3>3. CASE pc[t] \in {"new", "lock"}
      <4>1. held[t] < Len(Order[t])
        BY <3>1, <3>2, <3>3
      <4>2. LeftInIteration(t) = IterationSteps(t) - held[t]
        BY <3>3 DEF LeftInIteration
      <4> QED
        BY <3>1, <4>1, <4>2, HeldLessThanSteps
    <3>4. CASE pc[t] \in {"load", "store"}
      <4>1. j[t] < Work
        BY <3>2, <3>4
      <4>2. LeftInIteration(t) \in {2 * (Work - j[t]) + 1 + Len(Order[t]),
                                    2 * (Work - j[t]) + Len(Order[t])}
        BY <3>4 DEF LeftInIteration
      <4> QED
        BY <3>1, <4>1, <4>2
    <3>5. CASE pc[t] \in {"report", "unlock"}
      <4>1. pc[t] = "unlock" => LeftInIteration(t) = held[t]
        BY DEF LeftInIteration
      <4>2. pc[t] = "report" => LeftInIteration(t) = 1 + Len(Order[t])
        BY DEF LeftInIteration
      <4> QED
        BY <3>1, <3>2, <3>5, <4>1, <4>2
    <3> QED
      BY <3>1, <3>3, <3>4, <3>5
  <2>4. StepsLeft(t) = (Rounds - i[t] - 1) * IterationSteps(t) + LeftInIteration(t)
    BY <1>2 DEF StepsLeft
  <2> QED
    BY <1>2, <2>2, <2>3, <2>4
<1> QED
  BY <1>1, <1>2

\* A step brings its thread one step nearer to the end.
LEMMA StepCounts == ASSUME TypeInv, NEW t \in Thread, Step(t)
                    PROVE  StepsLeft(t)' = StepsLeft(t) - 1
<1> DEFINE Before == (Rounds - i[t] - 1) * IterationSteps(t)
<1>1. /\ Len(Order[t]) \in Nat \ {0} /\ Work \in Nat \ {0} /\ Rounds \in Nat \ {0}
      /\ held[t] \in Nat /\ j[t] \in 0..Work /\ i[t] \in 0..Rounds
      /\ pc[t] \notin {"new", "done"} /\ i[t] < Rounds
  BY OrderTypes, Bounds
     DEF TypeInv, TypeOK, Typed, Placed, Step, Lock, Load, Store, Report, Unlock
<1>2. Before \in Nat
  BY <1>1, OneMoreTime, IterationStepsType
<1>3. ASSUME i'[t] = i[t], pc'[t] # "done", LeftInIteration(t) \in Nat,
             LeftInIteration(t)' = LeftInIteration(t) - 1
      PROVE  StepsLeft(t)' = StepsLeft(t) - 1
  <2>1. StepsLeft(t)' = Before + LeftInIteration(t)'
    BY <1>3 DEF StepsLeft, IterationSteps
  <2>2. StepsLeft(t) = Before + LeftInIteration(t)
    BY <1>1 DEF StepsLeft
  <2> HIDE DEF Before
  <2> QED
    BY <1>2, <1>3, <2>1, <2>2
<1>4. CASE Lock(t)
  <2>1. /\ pc[t] = "lock" /\ held'[t] = held[t] + 1 /\ held[t] < Len(Order[t])
        /\ pc'[t] = IF held'[t] = Len(Order[t]) THEN "load" ELSE "lock"
        /\ i'[t] = i[t] /\ j'[t] = 0
    BY <1>4 DEF Lock, TypeInv, TypeOK, Typed, Placed, InSection
  <2>2. LeftInIteration(t) = IterationSteps(t) - held[t] /\ LeftInIteration(t) \in Nat
    <3>1. LeftInIteration(t) = IterationSteps(t) - held[t]
      BY <2>1 DEF LeftInIteration
    <3>2. IterationSteps(t) - held[t] \in Nat
      BY <1>1, <2>1, HeldLessThanSteps
    <3> QED
      BY <3>1, <3>2
  <2>3. LeftInIteration(t)' = IterationSteps(t) - held'[t]
    BY <1>1, <2>1 DEF LeftInIteration, IterationSteps
  <2>4. IterationSteps(t) \in Nat
    BY IterationStepsType
  <2>5. LeftInIteration(t)' = LeftInIteration(t) - 1
    BY <1>1, <2>1, <2>2, <2>3, <2>4
  <2> QED
    BY <1>3, <2>1, <2>2, <2>5
<1>5. CASE Load(t)
  <2>1. pc[t] = "load" /\ pc'[t] = "store" /\ j'[t] = j[t] /\ i'[t] = i[t]
    BY <1>5 DEF Load, TypeInv, TypeOK, Typed
  <2>2. LeftInIteration(t) \in Nat /\ LeftInIteration(t)' = LeftInIteration(t) - 1
    BY <1>1, <2>1 DEF LeftInIteration
  <2> QED
    BY <1>3, <2>1, <2>2
<1>6. CASE Store(t)
  <2>1. /\ pc[t] = "store" /\ j'[t] = j[t] + 1 /\ j[t] < Work /\ i'[t] = i[t]
        /\ pc'[t] = IF j'[t] = Work THEN "report" ELSE "load"
    BY <1>6 DEF Store, TypeInv, TypeOK, Typed, Placed
  <2>2. LeftInIteration(t) = 2 * (Work - j[t]) + Len(Order[t])
    BY <2>1 DEF LeftInIteration
  <2>3. LeftInIteration(t)' = 2 * (Work - j'[t]) + 1 + Len(Order[t])
    <3>1. CASE j'[t] = Work
      <4>1. LeftInIteration(t)' = 1 + Len(Order[t])
        BY <2>1, <3>1 DEF LeftInIteration
      <4> QED
        BY <1>1, <3>1, <4>1
    <3>2. CASE j'[t] # Work
      BY <2>1, <3>2 DEF LeftInIteration
    <3> QED
      BY <3>1, <3>2
  <2>4. LeftInIteration(t) \in Nat /\ LeftInIteration(t)' = LeftInIteration(t) - 1
    <3>1. j[t] \in Nat /\ Work \in Nat /\ Len(Order[t]) \in Nat /\ j[t] < Work
      BY <1>1, <2>1
    <3>2. /\ 2 * (Work - j[t]) + Len(Order[t]) \in Nat
          /\ 2 * (Work - (j[t] + 1)) + 1 + Len(Order[t])
               = (2 * (Work - j[t]) + Len(Order[t])) - 1
      BY <3>1, OneIncrementLess
    <3> QED
      BY <2>1, <2>2, <2>3, <3>2
  <2> QED
    BY <1>3, <2>1, <2>4
<1>7. CASE Report(t)
  <2>1. /\ pc[t] = "report" /\ pc'[t] = "unlock" /\ i'[t] = i[t]
        /\ held'[t] = held[t] /\ held[t] = Len(Order[t])
    BY <1>7 DEF Report, TypeInv, TypeOK, Typed, Placed, InSection
  <2>2. LeftInIteration(t) \in Nat /\ LeftInIteration(t)' = LeftInIteration(t) - 1
    BY <1>1, <2>1 DEF LeftInIteration
  <2> QED
    BY <1>3, <2>1, <2>2
<1>8. CASE Unlock(t)
  <2>1. pc[t] = "unlock" /\ held'[t] = held[t] - 1 /\ held[t] > 0
    BY <1>1, <1>8, OrderTypes DEF Unlock, TypeInv, TypeOK, Typed, Placed
  <2>2. LeftInIteration(t) = held[t]
    BY <2>1 DEF LeftInIteration
  <2>3. CASE held[t] > 1
    <3>1. pc'[t] = "unlock" /\ i'[t] = i[t]
      BY <1>8, <2>1, <2>3 DEF Unlock
    <3>2. LeftInIteration(t)' = LeftInIteration(t) - 1
      BY <2>1, <2>2, <3>1 DEF LeftInIteration
    <3> QED
      BY <1>1, <1>3, <2>2, <3>1, <3>2
  <2>4. CASE ~(held[t] > 1)
    <3>1. /\ i'[t] = i[t] + 1 /\ held[t] = 1 /\ held'[t] = 0
          /\ pc'[t] = IF i'[t] = Rounds THEN "done" ELSE "lock"
      BY <1>1, <1>8, <2>1, <2>4 DEF Unlock, TypeInv, TypeOK, Typed
    <3>2. StepsLeft(t) = Before + 1
      BY <2>1, <2>2, <3>1 DEF StepsLeft
    <3>3. CASE i'[t] = Rounds
      <4>1. StepsLeft(t)' = 0
        BY <3>1, <3>3 DEF StepsLeft
      <4>2. Before = 0
        BY <1>1, <3>1, <3>3, IterationStepsType
      <4> QED
        BY <3>2, <4>1, <4>2
    <3>4. CASE i'[t] # Rounds
      <4>1. LeftInIteration(t)' = IterationSteps(t)
        BY <3>1, <3>4, IterationStepsType DEF LeftInIteration, IterationSteps
      <4>2. StepsLeft(t)' = (Rounds - i'[t] - 1) * IterationSteps(t) + IterationSteps(t)
        BY <3>1, <3>4, <4>1 DEF StepsLeft, IterationSteps
      <4>3. Rounds - i'[t] - 1 \in Nat /\ Rounds - i[t] - 1 = (Rounds - i'[t] - 1) + 1
        BY <1>1, <3>1, <3>4
      <4>4. Before = (Rounds - i'[t] - 1) * IterationSteps(t) + IterationSteps(t)
        BY <4>3, OneMoreTime, IterationStepsType
      <4> QED
        BY <1>2, <3>2, <4>2, <4>4
    <3> QED
      BY <3>3, <3>4
  <2> QED
    BY <2>3, <2>4
<1> QED
  BY <1>4, <1>5, <1>6, <1>7, <1>8 DEF Step

\* A step of a thread moves it, so no other step is also one of its own.
LEMMA StepMoves == ASSUME TypeInv, NEW t \in Thread, Step(t)
                   PROVE  pc'[t] # pc[t] \/ held'[t] # held[t]
<1>1. CASE Lock(t) \/ Unlock(t)
  BY <1>1 DEF Lock, Unlock, TypeInv, TypeOK, Typed
<1>2. CASE Load(t) \/ Store(t) \/ Report(t)
  BY <1>2 DEF Load, Store, Report, TypeInv, TypeOK, Typed
<1> QED
  BY <1>1, <1>2 DEF Step

\* main's steps are not those of a thread either, and cost no thread anything.
LEMMA MainCountsNothing == ASSUME TypeInv, Main, NEW t \in Thread
                           PROVE  ~Step(t) /\ StepsLeft(t)' = StepsLeft(t)
<1>1. ~(UNCHANGED mainVars)
  <2>1. main_t + 1 # main_t /\ main_i + 1 # main_i
    BY Bounds DEF TypeInv, TypeOK, Typed, Thread
  <2> QED
    BY <2>1 DEF Main, Create, CreateFails, Join, JoinAgain, Detect, JoinLoop, Destroy,
                Onward, mainVars
<1>2. ~Step(t)
  BY <1>1 DEF Step, Lock, Load, Store, Report, Unlock, mainVars
<1>3. CASE Create
  <2>1. main_t \in Thread /\ pc[main_t] = "new"
    BY <1>3, Bounds DEF Create, Creation, TypeInv, TypeOK, Typed, Thread
  <2>2. UNCHANGED <<held, i, j>> /\ (pc'[t] = pc[t] \/ (pc[t] = "new" /\ pc'[t] = "lock"))
    BY <1>3, <2>1 DEF Create, TypeInv, TypeOK, Typed
  <2> QED
    BY <1>2, <2>2 DEF StepsLeft, LeftInIteration, IterationSteps
<1>4. CASE ~Create
  <2>1. UNCHANGED <<pc, held, i, j>>
    BY <1>4 DEF Main, CreateFails, Join, JoinAgain, Detect, JoinLoop, Destroy, threadVars
  <2> QED
    BY <1>2, <2>1 DEF StepsLeft, LeftInIteration, IterationSteps
<1> QED
  BY <1>3, <1>4

\* The steps left to each thread are counted down by its own steps, one by one,
\* and by nothing else.
StepsCountedDown ==
  [][\A t \in Thread :
       StepsLeft(t)' = IF Step(t) THEN StepsLeft(t) - 1 ELSE StepsLeft(t)]_vars

\* Each thread makes the same number of steps on its way to its end, however the
\* others get in its way: no interleaving makes it repeat or skip any.  With
\* OnlyCirclesStop that is why threads that lock in order finish.
THEOREM ThreadsRunDown ==
  Spec => /\ \A t \in Thread : StepsLeft(t) = Rounds * IterationSteps(t)
          /\ [](\A t \in Thread : /\ StepsLeft(t) \in Nat
                                  /\ StepsLeft(t) = 0 <=> pc[t] = "done")
          /\ StepsCountedDown
<1>1. Init => \A t \in Thread : StepsLeft(t) = Rounds * IterationSteps(t)
  <2> SUFFICES ASSUME Init, NEW t \in Thread
               PROVE  StepsLeft(t) = Rounds * IterationSteps(t)
    OBVIOUS
  <2>1. LeftInIteration(t) = IterationSteps(t)
    BY IterationStepsType DEF Init, LeftInIteration
  <2>2. StepsLeft(t) = (Rounds - 1) * IterationSteps(t) + IterationSteps(t)
    BY <2>1, Bounds DEF Init, StepsLeft
  <2>3. Rounds - 1 \in Nat /\ Rounds = (Rounds - 1) + 1
    BY Bounds
  <2> QED
    BY <2>2, <2>3, OneMoreTime, IterationStepsType
<1>2. OwnerInv => \A t \in Thread : /\ StepsLeft(t) \in Nat
                                    /\ StepsLeft(t) = 0 <=> pc[t] = "done"
  BY StepsLeftType DEF OwnerInv
<1>3. OwnerInv /\ [Next]_vars
        => [\A t \in Thread :
              StepsLeft(t)' = IF Step(t) THEN StepsLeft(t) - 1 ELSE StepsLeft(t)]_vars
  <2> SUFFICES ASSUME TypeInv, Next, ~(UNCHANGED vars), NEW t \in Thread
               PROVE  StepsLeft(t)' = IF Step(t) THEN StepsLeft(t) - 1 ELSE StepsLeft(t)
    BY DEF OwnerInv
  <2>1. CASE Main
    BY <2>1, MainCountsNothing
  <2>2. ASSUME NEW u \in Thread, Step(u)
        PROVE  StepsLeft(t)' = IF Step(t) THEN StepsLeft(t) - 1 ELSE StepsLeft(t)
    <3>1. CASE t = u
      BY <2>2, <3>1, StepCounts
    <3>2. CASE t # u
      <4>1. /\ pc'[t] = pc[t] /\ held'[t] = held[t]
            /\ i'[t] = i[t] /\ j'[t] = j[t]
        BY <2>2, <3>2, OthersStay
      <4>2. ~Step(t)
        BY <4>1, StepMoves
      <4>3. StepsLeft(t)' = StepsLeft(t)
        BY <4>1 DEF StepsLeft, LeftInIteration, IterationSteps
      <4> QED
        BY <4>2, <4>3
    <3> QED
      BY <3>1, <3>2
  <2> QED
    BY <2>1, <2>2 DEF Next, Terminating
<1> QED
  BY <1>1, <1>2, <1>3, OwnerInvariant, PTL DEF Spec, StepsCountedDown

=============================================================================
