------------------------- MODULE SemStateMcProofs --------------------------
(***************************************************************************)
(* Theorems about SemStateMc.                                              *)
(***************************************************************************)
EXTENDS SemStateMc, TLAPS

-----------------------------------------------------------------------------
(* Who can be asked for what *)

\* The inductive invariant.  Nobody answers, so the machine sleeps only before
\* its first pass, when the timer alone can have set the mode; and what it then
\* asks for it has asked in its present pass.
Start ==
  /\ \A c \in Channel : sem_update[c] = 0
  /\ machine_pc = "sleep" => state_singleton \in {"UNKNOW", TimerStart}
  /\ machine_pc \in {"post", "write"} =>
       machine_case = TimerStart /\ state_singleton = TimerStart

\* Before the machine has posted no service is at work.
Asked ==
  /\ \A c \in Channel : Requested(c) => c = "MV" /\ machine_pc = "write"
  /\ \/ sem["MV"] = 0
     \/ sem["MV"] = 1 /\ service_pc["MV"] = "wait"
  /\ process = "killed" => machine_pc = "write"

Inv == TypeOK /\ Start /\ Asked

LEMMA InitInv == Init => Inv
  BY DEF Init, Inv, TypeOK, Start, Asked, Requested, State_t, Channel, Character, TimerStart

\* A step of the machine.
LEMMA MachineInv == Inv /\ Running /\ Machine => Inv'
<1> SUFFICES ASSUME Inv, Running, Machine
             PROVE  Inv'
  OBVIOUS
<1> USE DEF Inv, TypeOK, Start, Asked, Requested, Running, machineVars, timerVars,
            readVars, TimerStart
<1>1. CASE MachineSwitch
  <2>1. machine_pc = "sleep" /\ UNCHANGED sem_update
    BY <1>1 DEF MachineSwitch, Awaited, Channel
  <2>2. state_singleton \in Channel => state_singleton = "MV"
    BY <2>1 DEF Channel
  <2>3. Asked'
    BY <1>1, <2>1 DEF MachineSwitch
  <2>4. Start'
    BY <1>1, <2>1, <2>2 DEF MachineSwitch
  <2> QED
    BY <1>1, <2>1, <2>2, <2>3, <2>4 DEF MachineSwitch
<1>2. CASE MachinePost
  <2>1. machine_case = "MV" /\ \A c \in Channel : sem[c] = 0 /\ service_pc[c] = "wait"
    BY <1>2 DEF MachinePost
  <2> HIDE DEF Inv, TypeOK, Start, Asked, Requested
  <2>2. sem' = [sem EXCEPT !["MV"] = 1] /\ machine_pc' = "write"
    <3>1. sem["MV"] + 1 = 1
      BY <2>1 DEF Channel
    <3>2. sem' = [sem EXCEPT !["MV"] = sem["MV"] + 1] /\ machine_pc' = "write"
      BY <1>2, <2>1 DEF MachinePost
    <3> QED
      BY <3>1, <3>2
  <2> USE DEF Inv, TypeOK, Start, Asked, Requested
  <2>3. Start'
    BY <1>2 DEF MachinePost
  <2>4. Asked'
    BY <1>2, <2>1, <2>2 DEF MachinePost, Channel
  <2>5. TypeOK'
    BY <1>2, <2>2 DEF MachinePost, Channel
  <2> QED
    BY <2>3, <2>4, <2>5
<1>3. CASE MachineWrite
  BY <1>3 DEF MachineWrite, Fault
<1>4. CASE MachineDefault
  BY <1>4 DEF MachineDefault, State_t, Channel
<1> QED
  BY <1>1, <1>2, <1>3, <1>4 DEF Machine

\* A step of a service.
LEMMA ServiceInv == ASSUME NEW c \in Channel, Inv, Running, Service(c)
                    PROVE  Inv'
<1> USE DEF Inv, TypeOK, Start, Asked, Requested, Running, machineVars, timerVars,
            readVars
<1>1. CASE ServiceWait(c)
  <2>1. c = "MV" /\ machine_pc = "write" /\ sem["MV"] = 1
    BY <1>1 DEF ServiceWait
  <2>2. sem' = [sem EXCEPT !["MV"] = 0]
    BY <1>1, <2>1 DEF ServiceWait
  <2>3. Asked'
    BY <1>1, <2>1, <2>2 DEF ServiceWait
  <2>4. TypeOK'
    BY <1>1, <2>2 DEF ServiceWait
  <2>5. Start'
    BY <1>1 DEF ServiceWait
  <2> QED
    BY <2>3, <2>4, <2>5
<1>2. CASE ServiceWrite(c)
  BY <1>2 DEF ServiceWrite, Fault
<1> QED
  BY <1>1, <1>2 DEF Service

\* A step of the timer thread, which sets the mode it would serve itself.
LEMMA TimerInv == Inv /\ Running /\ Timer => Inv'
  BY DEF Inv, TypeOK, Start, Asked, Requested, Running, machineVars, readVars, Timer,
         TimerSwitch, TimerSample, TimerDefault, TimerStart, State_t, Channel

\* A step of the reader.
LEMMA ReadInv == Inv /\ Running /\ (EnableRAWMode \/ GetChar \/ StoreKey) => Inv'
  BY DEF Inv, TypeOK, Start, Asked, Requested, Running, machineVars, timerVars,
         EnableRAWMode, GetChar, StoreKey, Character

LEMMA StutterInv == Inv /\ UNCHANGED vars => Inv'
  BY DEF Inv, TypeOK, Start, Asked, Requested, vars, machineVars, timerVars, readVars

LEMMA Invariant == Spec => []Inv
<1>1. Inv /\ [Next]_vars => Inv'
  BY MachineInv, ServiceInv, TimerInv, ReadInv, StutterInv
  DEF Next, Threads, Terminating
<1> QED
  BY InitInv, <1>1, PTL DEF Spec

\* Each variable has its type.
THEOREM TypeCorrect == Spec => []TypeOK
<1>1. Inv => TypeOK
  BY DEF Inv
<1> QED
  BY Invariant, <1>1, PTL

\* Of the three services only millivolt's is ever asked for anything, and at
\* most once.
THEOREM OnlyMvIsRequested == Spec => []OnlyMvRequested
<1>1. Inv => OnlyMvRequested
  BY DEF Inv, TypeOK, Asked, OnlyMvRequested, Requested, Channel
<1> QED
  BY Invariant, <1>1, PTL

\* A machine that waits for an answer has asked for none.
THEOREM NobodyWillAnswer == Spec => []WaitsForNobody
<1>1. Inv => WaitsForNobody
  BY DEF Inv, TypeOK, Asked, WaitsForNobody, Running
<1> QED
  BY Invariant, <1>1, PTL

\* The process dies only in the service of the mode the timer thread has set.
THEOREM DeathIsTimers == Spec => []DiesInTimersMode
<1>1. Inv => DiesInTimersMode
  BY DEF Inv, TypeOK, Start, Asked, DiesInTimersMode, Running, TimerStart
<1> QED
  BY Invariant, <1>1, PTL

-----------------------------------------------------------------------------
(* The mode *)

\* After start-up no key, and no thread, changes the mode.
THEOREM ModeIsFixed == Spec => ModeFixed
<1>1. Settled /\ Inv /\ [Next]_vars => Settled' /\ UNCHANGED state_singleton
  BY DEF Settled, Inv, TypeOK, Start, Next, Threads, Terminating, Machine, MachineSwitch,
         MachinePost, MachineWrite, MachineDefault, Service, ServiceWait, ServiceWrite,
         Fault, Timer, TimerSwitch, TimerSample, TimerDefault, EnableRAWMode, GetChar,
         StoreKey, vars, machineVars, timerVars, readVars, Channel
<1> QED
  BY Invariant, <1>1, PTL DEF Spec, ModeFixed

-----------------------------------------------------------------------------
(* The end of a run *)

\* The first modes of the two threads are all the modes there ever are.
FirstModes ==
  /\ state_singleton \in {"UNKNOW", "COND", TimerStart}
  /\ machine_pc = "wait" => state_singleton # "UNKNOW"

LEMMA FirstModesStep == Inv /\ FirstModes /\ [Next]_vars => FirstModes'
  BY DEF FirstModes, Inv, Start, Next, Threads, Terminating, Machine, MachineSwitch,
         MachinePost, MachineWrite, MachineDefault, Service, ServiceWait, ServiceWrite,
         Fault, Timer, TimerSwitch, TimerSample, TimerDefault, TimerStart, Awaited,
         EnableRAWMode, GetChar, StoreKey, vars, machineVars, timerVars, readVars, Channel

\* A machine that waits does so for good: the answer never comes, the process
\* survives, and the mode is the first one of either thread, never pH.
THEOREM HangIsForever ==
  Spec => /\ [](machine_pc = "wait" => state_singleton \in {"COND", "MV"})
          /\ [][machine_pc = "wait" => machine_pc' = "wait" /\ Running']_vars
<1>1. Init => FirstModes
  BY DEF Init, FirstModes
<1>2. FirstModes => (machine_pc = "wait" => state_singleton \in {"COND", "MV"})
  BY DEF FirstModes, TimerStart
<1>3. Inv /\ [Next]_vars => [machine_pc = "wait" => machine_pc' = "wait" /\ Running']_vars
  <2> SUFFICES ASSUME Inv, [Next]_vars, machine_pc = "wait"
               PROVE  machine_pc' = "wait" /\ Running'
    OBVIOUS
  <2>1. /\ Running
        /\ \A c \in Channel : service_pc[c] # "write"
    BY DEF Inv, TypeOK, Asked, Requested, Running
  <2>2. sem_update[Awaited] = 0
    BY DEF Inv, Start, Awaited, Channel
  <2>3. ~Machine
    BY <2>2 DEF Machine, MachineSwitch, MachinePost, MachineWrite, MachineDefault
  <2>4. CASE \E c \in Channel : Service(c)
    BY <2>1, <2>4 DEF Service, ServiceWait, ServiceWrite, Running, machineVars
  <2>5. CASE Timer \/ EnableRAWMode \/ GetChar \/ StoreKey \/ UNCHANGED vars
    BY <2>1, <2>5 DEF Timer, TimerSwitch, TimerSample, TimerDefault, EnableRAWMode,
       GetChar, StoreKey, Running, vars, machineVars
  <2> QED
    BY <2>3, <2>4, <2>5 DEF Next, Threads, Terminating
<1> QED
  BY <1>1, <1>2, <1>3, FirstModesStep, Invariant, PTL DEF Spec

\* The steps that the machine thread may still have to take.
MachineLeft ==
  IF ~Running THEN 0
  ELSE CASE machine_pc = "sleep" -> 3
         [] machine_pc = "post"  -> 2
         [] machine_pc \in {"write", "default"} -> 1
         [] OTHER -> 0

\* The run ends: the machine thread takes three steps at most, none of the other
\* threads gives it new ones, and after the last it waits or the process is dead.
THEOREM MachineRunsDown ==
  Spec => /\ [](/\ MachineLeft \in 0..3
                /\ MachineLeft = 0 <=> machine_pc = "wait" \/ ~Running)
          /\ [][/\ MachineLeft' <= MachineLeft
                /\ Running /\ Machine => MachineLeft' < MachineLeft]_vars
<1>1. Inv => /\ MachineLeft \in 0..3
             /\ MachineLeft = 0 <=> machine_pc = "wait" \/ ~Running
  BY DEF Inv, TypeOK, MachineLeft
<1>2. Inv /\ [Next]_vars =>
        [/\ MachineLeft' <= MachineLeft
         /\ Running /\ Machine => MachineLeft' < MachineLeft]_vars
  <2> SUFFICES ASSUME Inv, [Next]_vars
               PROVE  /\ MachineLeft' <= MachineLeft
                      /\ Running /\ Machine => MachineLeft' < MachineLeft
    OBVIOUS
  <2>1. machine_pc \in {"sleep", "post", "write", "default", "wait"}
    BY DEF Inv, TypeOK
  <2>2. sem_update[Awaited] = 0
    BY DEF Inv, Start, Awaited, Channel
  <2>3. ASSUME Running, Machine
        PROVE  MachineLeft' < MachineLeft
    BY <2>2, <2>3 DEF MachineLeft, Running, Machine, MachineSwitch, MachinePost,
       MachineWrite, MachineDefault, Fault
  <2>4. CASE Running /\ ~Machine
    <3>1. machine_pc' = machine_pc /\ process' \in {process, "killed"}
      BY <2>4 DEF Next, Threads, Terminating, Service, ServiceWait, ServiceWrite, Fault,
         Timer, TimerSwitch, TimerSample, TimerDefault, EnableRAWMode, GetChar, StoreKey,
         vars, machineVars
    <3> QED
      BY <2>1, <2>4, <3>1 DEF MachineLeft, Running
  <2>5. CASE ~Running
    BY <2>5 DEF Next, Terminating, vars, MachineLeft, Running
  <2>6. CASE Running /\ Machine
    <3>1. MachineLeft \in 0..3 /\ MachineLeft' < MachineLeft
      BY <2>1, <2>3, <2>6 DEF MachineLeft
    <3>2. MachineLeft' \in Int
      BY <2>1, <2>6 DEF MachineLeft, Machine, MachineSwitch, MachinePost, MachineWrite,
         MachineDefault, Fault
    <3> QED
      BY <3>1, <3>2
  <2> QED
    BY <2>3, <2>4, <2>5, <2>6
<1> QED
  BY <1>1, <1>2, Invariant, PTL DEF Spec

=============================================================================
