--------------------------- MODULE StateMcProofs ---------------------------
(***************************************************************************)
(* Theorems about StateMc, for every number of keys, every table length    *)
(* and every index width: its type invariant, that a key is never acted on *)
(* twice, that the start-up race ends for good, and that the three threads *)
(* implement the keyboard dial of KeyDial.                                 *)
(***************************************************************************)
EXTENDS StateMc, TLAPS

-----------------------------------------------------------------------------
(* The arithmetic of the sample indexes *)

\* A remainder is in the range of its divisor.
LEMMA ModRange == ASSUME NEW i \in Nat, NEW n \in Nat \ {0}
                  PROVE  i % n \in 0..(n - 1)
  OBVIOUS

\* The post-increment keeps an index in its width.
LEMMA IncrementInRange == ASSUME NEW i \in Nat
                          PROVE  Increment(i) \in 0..(IndexMod - 1)
<1>1. i + 1 \in Nat
  OBVIOUS
<1> QED
  BY <1>1, ModRange, StateMcAssumption DEF Increment

\* An index selects an element of the table.
LEMMA SampleInRange == ASSUME NEW i \in Nat
                       PROVE  i % SampleLen \in 0..(SampleLen - 1)
  BY ModRange, StateMcAssumption

-----------------------------------------------------------------------------
(* Types *)

\* The three threads keep every global, program counter and local in its type.
THEOREM TypeCorrect == Spec => []TypeOK
<1>1. Init => TypeOK
  BY StateMcAssumption, ModRange
     DEF Init, TypeOK, State_t, KeyValue, Key_event_t, Character, Status_t,
         InService, Channel
<1>2. TypeOK /\ [Next]_vars => TypeOK'
  <2> SUFFICES ASSUME TypeOK, [Next]_vars
               PROVE  TypeOK'
    OBVIOUS
  <2> USE DEF TypeOK, InService
  <2>1. CASE MachineSwitch
    BY <2>1 DEF MachineSwitch, timerVars, readVars
  <2>2. CASE Service
    BY <2>2 DEF Service, timerVars, readVars, KeyStatus, Status_t
  <2>3. CASE ServiceClear
    BY <2>3 DEF ServiceClear, timerVars, readVars, KeyValue
  <2>4. CASE MachineUpdate
    <3>1. Target(machine_case, status_local) \in Channel
      BY <2>4 DEF MachineUpdate, Target, Channel
    <3> QED
      BY <2>4, <3>1 DEF MachineUpdate, timerVars, readVars, State_t
  <2>5. CASE MachineDefault
    BY <2>5 DEF MachineDefault, timerVars, readVars, State_t, Channel
  <2>6. CASE TimerSwitch
    BY <2>6 DEF TimerSwitch, machineVars, readVars
  <2>7. CASE TimerSample
    <3>1. /\ timer_case \in Channel
          /\ index[timer_case] \in Nat
      BY <2>7, StateMcAssumption DEF TimerSample
    <3>2. /\ index[timer_case] % SampleLen \in 0..(SampleLen - 1)
          /\ Increment(index[timer_case]) \in 0..(IndexMod - 1)
      BY <3>1, SampleInRange, IncrementInRange
    <3>3. /\ reading' \in [Channel -> {NoReading} \cup 0..(SampleLen - 1)]
          /\ index' \in [Channel -> 0..(IndexMod - 1)]
      BY <2>7, <3>1, <3>2 DEF TimerSample
    <3> QED
      BY <2>7, <3>3 DEF TimerSample, machineVars, readVars
  <2>8. CASE TimerDefault
    BY <2>8 DEF TimerDefault, machineVars, readVars, State_t, Channel
  <2>9. CASE GetChar
    BY <2>9 DEF GetChar, machineVars, timerVars
  <2>10. CASE StoreKey
    BY <2>10 DEF StoreKey, KeyStored, GoodInput, machineVars, timerVars,
                 KeyValue, Character
  <2>11. CASE UNCHANGED vars
    BY <2>11 DEF vars
  <2> QED
    BY <2>1, <2>2, <2>3, <2>4, <2>5, <2>6, <2>7, <2>8, <2>9, <2>10, <2>11
       DEF Next, Machine, Timer
<1> QED
  BY <1>1, <1>2, PTL DEF Spec

-----------------------------------------------------------------------------
(* The start-up race *)

\* Once no thread holds the decision to overwrite an unknown mode, none ever
\* does again: the mode is known and stays known.
LEMMA SettledStep == TypeOK /\ [Next]_vars => (Settled => Settled')
<1> SUFFICES ASSUME TypeOK, [Next]_vars, Settled
             PROVE  Settled'
  OBVIOUS
<1> USE DEF TypeOK, InService, Settled
<1>1. CASE MachineSwitch
  BY <1>1 DEF MachineSwitch, timerVars
<1>2. CASE Service
  BY <1>2 DEF Service, timerVars
<1>3. CASE ServiceClear
  BY <1>3 DEF ServiceClear, timerVars
<1>4. CASE MachineUpdate
  <2>1. Target(machine_case, status_local) \in Channel
    BY <1>4 DEF MachineUpdate, Target, Channel
  <2> QED
    BY <1>4, <2>1 DEF MachineUpdate, timerVars
<1>5. CASE MachineDefault
  BY <1>5 DEF MachineDefault
<1>6. CASE TimerSwitch
  BY <1>6 DEF TimerSwitch, machineVars
<1>7. CASE TimerSample
  BY <1>7 DEF TimerSample, machineVars
<1>8. CASE TimerDefault
  BY <1>8 DEF TimerDefault
<1>9. CASE GetChar
  BY <1>9 DEF GetChar, machineVars, timerVars
<1>10. CASE StoreKey
  BY <1>10 DEF StoreKey, machineVars, timerVars
<1>11. CASE UNCHANGED vars
  BY <1>11 DEF vars
<1> QED
  BY <1>1, <1>2, <1>3, <1>4, <1>5, <1>6, <1>7, <1>8, <1>9, <1>10, <1>11
     DEF Next, Machine, Timer

THEOREM SettledStays == Spec => SettledForever
  BY SettledStep, TypeCorrect, PTL DEF Spec, SettledForever

\* How much of start-up is left: each thread that may still write a first mode
\* counts for two, as its write can leave the machine thread in the service of
\* another mode, and that service counts for one.
StartUpLeft ==
  (IF machine_pc = "default" \/ state_singleton = "UNKNOW" THEN 2 ELSE 0)
  + (IF timer_pc = "default" \/ state_singleton = "UNKNOW" THEN 2 ELSE 0)
  + (IF InService /\ machine_case # state_singleton THEN 1 ELSE 0)

\* The writes that can overwrite a mode at start-up.
StartUpStep ==
  \/ MachineDefault \/ TimerDefault
  \/ MachineUpdate /\ machine_case # state_singleton

\* Start-up is over when nothing of it is left.
LEMMA NothingLeft ==
  ASSUME TypeOK
  PROVE  StartUpLeft \in 0..5 /\ (StartUpLeft = 0 <=> Settled)
<1> DEFINE M == machine_pc = "default" \/ state_singleton = "UNKNOW"
           T == timer_pc = "default" \/ state_singleton = "UNKNOW"
           S == InService /\ machine_case # state_singleton
<1>1. Settled <=> ~M /\ ~T /\ ~S
  BY DEF TypeOK, Settled, State_t, Channel, InService
<1>2. StartUpLeft = (IF M THEN 2 ELSE 0) + (IF T THEN 2 ELSE 0) + (IF S THEN 1 ELSE 0)
  BY DEF StartUpLeft
<1> HIDE DEF M, T, S
<1> QED
  BY <1>1, <1>2

\* No step adds to what is left of start-up, and each of its writes takes away.
LEMMA LeftStep ==
  ASSUME TypeOK, [Next]_vars
  PROVE  StartUpLeft' <= StartUpLeft /\ (StartUpStep => StartUpLeft' < StartUpLeft)
<1> USE DEF TypeOK, InService, StartUpLeft, StartUpStep
<1>1. CASE MachineSwitch
  BY <1>1 DEF MachineSwitch, MachineDefault, MachineUpdate, TimerDefault, timerVars,
              State_t, Channel
<1>2. CASE Service \/ ServiceClear
  BY <1>2 DEF Service, ServiceClear, MachineDefault, MachineUpdate, TimerDefault, timerVars
<1>3. CASE MachineUpdate
  <2>1. Target(machine_case, status_local) \in Channel
    BY <1>3 DEF MachineUpdate, Target, Channel
  <2>2. state_singleton' # "UNKNOW" /\ ~InService' /\ machine_pc' = "sleep" /\ timer_pc' = timer_pc
    BY <1>3, <2>1 DEF MachineUpdate, Channel, timerVars
  <2> QED
    BY <1>3, <2>2 DEF MachineUpdate, MachineDefault, TimerDefault
<1>4. CASE MachineDefault
  BY <1>4 DEF MachineDefault, timerVars
<1>5. CASE TimerSwitch
  BY <1>5 DEF TimerSwitch, MachineDefault, MachineUpdate, TimerDefault, machineVars,
              State_t, Channel
<1>6. CASE TimerSample
  BY <1>6 DEF TimerSample, MachineDefault, MachineUpdate, TimerDefault, machineVars
<1>7. CASE TimerDefault
  BY <1>7 DEF TimerDefault, machineVars
<1>8. CASE GetChar \/ StoreKey
  BY <1>8 DEF GetChar, StoreKey, MachineDefault, MachineUpdate, TimerDefault, machineVars,
              timerVars
<1>9. CASE UNCHANGED vars
  BY <1>9 DEF vars, MachineDefault, MachineUpdate, TimerDefault
<1> QED
  BY <1>1, <1>2, <1>3, <1>4, <1>5, <1>6, <1>7, <1>8, <1>9 DEF Next, Machine, Timer

\* The start-up race cannot go on: nothing gives a thread a new chance to
\* overwrite the mode, so the writes of start-up that StartUpEnds waits for are a
\* handful.
THEOREM StartUpRunsDown ==
  Spec => /\ [](StartUpLeft \in 0..4 /\ (StartUpLeft = 0 <=> Settled))
          /\ [][/\ StartUpLeft' <= StartUpLeft
                /\ StartUpStep => StartUpLeft' < StartUpLeft]_vars
<1> DEFINE Ends == StartUpLeft \in 0..5 /\ (StartUpLeft = 0 <=> Settled)
           AtMost4 == StartUpLeft <= 4
<1>1. Init => AtMost4
  BY DEF Init, StartUpLeft, InService
<1>2. TypeOK => Ends
  BY NothingLeft
<1>3. TypeOK /\ Ends /\ Ends' /\ AtMost4 /\ [Next]_vars => AtMost4'
  <2> SUFFICES ASSUME TypeOK, Ends, Ends', AtMost4, [Next]_vars
               PROVE  StartUpLeft' <= 4
    OBVIOUS
  <2>1. StartUpLeft' <= StartUpLeft
    BY LeftStep
  <2>2. StartUpLeft \in Nat /\ StartUpLeft' \in Nat
    OBVIOUS
  <2> QED
    BY <2>1, <2>2
<1>4. TypeOK /\ [Next]_vars =>
        [/\ StartUpLeft' <= StartUpLeft
         /\ StartUpStep => StartUpLeft' < StartUpLeft]_vars
  BY LeftStep
<1>5. Ends /\ AtMost4 => StartUpLeft \in 0..4 /\ (StartUpLeft = 0 <=> Settled)
  OBVIOUS
<1> HIDE DEF Ends, AtMost4
<1> QED
  BY <1>1, <1>2, <1>3, <1>4, <1>5, TypeCorrect, PTL DEF Spec

-----------------------------------------------------------------------------
(* Keys and turns *)

\* The keys acted on, being served and waiting never exceed the keys accepted.
THEOREM KeysActedOnOnce == Spec => []AtMostOneTurnPerKey
<1>1. Init => AtMostOneTurnPerKey
  BY DEF Init, AtMostOneTurnPerKey, Pending, Slot, Serving, PressOf, PressFor
<1>2. TypeOK /\ AtMostOneTurnPerKey /\ [Next]_vars => AtMostOneTurnPerKey'
  <2> SUFFICES ASSUME TypeOK, AtMostOneTurnPerKey, [Next]_vars
               PROVE  AtMostOneTurnPerKey'
    OBVIOUS
  <2> USE DEF TypeOK, AtMostOneTurnPerKey, Pending, Slot, Serving, PressOf, PressFor
  <2>1. CASE MachineSwitch
    BY <2>1 DEF MachineSwitch
  <2>2. CASE Service
    BY <2>2 DEF Service, KeyStatus
  <2>3. CASE ServiceClear
    BY <2>3 DEF ServiceClear
  <2>4. CASE MachineUpdate
    <3>1. /\ Slot' = Slot
          /\ Serving' = "idle"
      BY <2>4 DEF MachineUpdate
    <3>2. CASE status_local = "STAY_PUT"
      <4>1. turns' = turns /\ accepted' = accepted
        BY <2>4, <3>2 DEF MachineUpdate
      <4> QED
        BY <3>1, <4>1
    <3>3. CASE status_local # "STAY_PUT"
      <4>1. turns' = turns + 1 /\ accepted' = accepted
        BY <2>4, <3>3 DEF MachineUpdate
      <4>2. Serving \in {"left", "right"}
        BY <2>4, <3>3 DEF MachineUpdate, Status_t
      <4> QED
        BY <3>1, <4>1, <4>2
    <3> QED
      BY <3>2, <3>3
  <2>5. CASE MachineDefault
    BY <2>5 DEF MachineDefault
  <2>6. CASE Timer
    BY <2>6 DEF Timer, TimerSwitch, TimerSample, TimerDefault, machineVars
  <2>7. CASE GetChar
    BY <2>7 DEF GetChar, machineVars
  <2>8. CASE StoreKey
    BY <2>8 DEF StoreKey, KeyStored, machineVars
  <2>9. CASE UNCHANGED vars
    BY <2>9 DEF vars
  <2> QED
    BY <2>1, <2>2, <2>3, <2>4, <2>5, <2>6, <2>7, <2>8, <2>9 DEF Next, Machine
<1> QED
  BY <1>1, <1>2, TypeCorrect, PTL DEF Spec

-----------------------------------------------------------------------------
(* The refinement *)

\* Steps of the detailed specification that the dial does not see.
LEMMA StutterStep ==
  ASSUME TypeOK,
         MachineSwitch \/ ServiceClear \/ TimerSwitch \/ TimerSample \/ GetChar
           \/ UNCHANGED vars
  PROVE  UNCHANGED Dial!dialVars
<1> USE DEF TypeOK, InService, Settled, Slot, Serving, PressOf, PressFor,
            Dial!dialVars
<1>1. CASE MachineSwitch
  BY <1>1 DEF MachineSwitch, timerVars, readVars
<1>2. CASE ServiceClear
  BY <1>2 DEF ServiceClear, timerVars, readVars
<1>3. CASE TimerSwitch
  BY <1>3 DEF TimerSwitch, machineVars, readVars
<1>4. CASE TimerSample
  BY <1>4 DEF TimerSample, machineVars, readVars
<1>5. CASE GetChar
  BY <1>5 DEF GetChar, machineVars, timerVars
<1>6. CASE UNCHANGED vars
  BY <1>6 DEF vars
<1> QED
  BY <1>1, <1>2, <1>3, <1>4, <1>5, <1>6

\* The switch tables of the code are moves round the ring.
LEMMA TargetIsShift ==
  ASSUME NEW case \in Channel, NEW status \in Status_t
  PROVE  RingPosition[Target(case, status)]
           = Dial!Shifted(RingPosition[case], PressFor(status))
BY DEF Channel, Status_t, Target, RingPosition, PressFor,
       Dial!Shifted, Dial!Size

\* Loading the key is the dial's Take.
LEMMA ServiceTakes == TypeOK /\ Service => Dial!Take
BY DEF TypeOK, Service, KeyStatus, Slot, Serving, PressOf, PressFor, Settled,
       InService, KeyValue, Key_event_t, Dial!Take, timerVars, readVars

\* Writing the next mode is the dial's Turn; a mode that start-up may still
\* overwrite can go anywhere.
LEMMA UpdateTurns == TypeOK /\ MachineUpdate => Dial!Turn
<1> SUFFICES ASSUME TypeOK, MachineUpdate
             PROVE  Dial!Turn
  OBVIOUS
<1>1. /\ machine_case \in Channel
      /\ status_local \in {"STAY_PUT", "GO_BACK", "GO_FORWARD"}
  BY DEF TypeOK, MachineUpdate, InService, Status_t
<1>2. Target(machine_case, status_local) \in Channel
  BY <1>1 DEF Target, Channel
<1>3. /\ Serving = PressFor(status_local)
      /\ Serving # "idle"
      /\ Serving' = "idle"
      /\ Slot' = Slot
      /\ accepted' = accepted
  BY DEF MachineUpdate, Serving, PressFor, Slot
<1>4. turns' = IF Serving \in Dial!Press THEN turns + 1 ELSE turns
  BY <1>1, <1>3 DEF MachineUpdate, PressFor, Dial!Press
<1>5. CASE Settled
  <2>1. Settled'
    BY <1>2, <1>5 DEF Settled, MachineUpdate, InService, timerVars
  <2>2. RingPosition[state_singleton]'
          = Dial!Shifted(RingPosition[state_singleton], Serving)
    BY <1>1, <1>3, <1>5, TargetIsShift
       DEF Settled, MachineUpdate, InService, Status_t
  <2> QED
    BY <1>3, <1>4, <1>5, <2>1, <2>2 DEF Dial!Turn
<1>6. CASE ~Settled
  <2>1. RingPosition[state_singleton]' \in Dial!Position
    BY <1>2 DEF MachineUpdate, RingPosition, Channel, Dial!Position, Dial!Size
  <2> QED
    BY <1>3, <1>4, <1>6, <2>1 DEF Dial!Turn
<1> QED
  BY <1>5, <1>6

\* A late write of the start-up mode is a step of the dial's start-up.
LEMMA DefaultStartsUp ==
  TypeOK /\ (MachineDefault \/ TimerDefault) => Dial!StartUp
BY DEF TypeOK, MachineDefault, TimerDefault, Settled, Slot, Serving, PressOf,
       PressFor, RingPosition, timerVars, machineVars, readVars,
       Dial!StartUp, Dial!Position, Dial!Size

\* A stored key is a press: it fills the slot, or is lost to the pending clear.
LEMMA StoreArrives ==
  ASSUME TypeOK, StoreKey
  PROVE  (\E d \in Dial!Press : Dial!Arrive(d)) \/ UNCHANGED Dial!dialVars
<1> USE DEF Settled, InService, Slot, Serving, PressOf, PressFor
<1>1. UNCHANGED <<RingPosition[state_singleton], ~Settled, Serving, turns>>
  BY DEF StoreKey, machineVars, timerVars
<1>2. CASE KeyStored
  <2>1. /\ key_pressed_global' = key_entry
        /\ key_entry \in {"LEFT", "RIGHT"}
        /\ accepted' = accepted + 1
        /\ machine_pc' = machine_pc
    BY <1>2 DEF StoreKey, KeyStored, GoodInput, Key_event_t, machineVars
  <2>2. PressOf(key_entry) \in Dial!Press
    BY <2>1 DEF Dial!Press
  <2>3. Slot' = PressOf(key_entry) \/ (Serving # "idle" /\ Slot' = Slot)
    BY <2>1 DEF TypeOK, Status_t
  <2>4. Dial!Arrive(PressOf(key_entry))
    BY <1>1, <2>1, <2>3 DEF Dial!Arrive
  <2> QED
    BY <2>2, <2>4
<1>3. CASE ~KeyStored
  BY <1>1, <1>3 DEF StoreKey, machineVars, Dial!dialVars
<1> QED
  BY <1>2, <1>3

\* The three threads implement the keyboard dial.
THEOREM DialImplemented == Spec => ImplementsDial
<1>1. Init => Dial!Init
  BY DEF Init, Dial!Init, Dial!Position, Dial!Size, RingPosition, Settled,
         Channel, Slot, Serving, PressOf
<1>2. TypeOK /\ [Next]_vars => [Dial!Next]_(Dial!dialVars)
  BY StutterStep, ServiceTakes, UpdateTurns, DefaultStartsUp, StoreArrives
     DEF Next, Machine, Timer, Dial!Next
<1> QED
  BY <1>1, <1>2, TypeCorrect, PTL DEF Spec, ImplementsDial, Dial!Spec

-----------------------------------------------------------------------------
(* The samples *)

\* A number is quotient and remainder.
LEMMA DivMod == ASSUME NEW i \in Nat, NEW n \in Nat \ {0}
                PROVE  i \div n \in Nat /\ i % n \in Nat /\ i % n < n
                       /\ i = n * (i \div n) + (i % n)
  BY SMTT(30)

\* ... in one way only.
LEMMA ModUnique == ASSUME NEW q \in Nat, NEW r \in Nat, NEW n \in Nat \ {0}, r < n
                   PROVE  (n * q + r) % n = r
  BY SMTT(30)

\* The element after the one an index selects.
LEMMA NextRemainder == ASSUME NEW i \in Nat, NEW n \in Nat \ {0}
                       PROVE  (i + 1) % n = ((i % n) + 1) % n
<1> DEFINE q == i \div n
           r == i % n
<1>1. q \in Nat /\ r \in Nat /\ r < n /\ i = n * q + r
  BY DivMod
<1> HIDE DEF q, r
<1>2. CASE r + 1 < n
  <2>1. i + 1 = n * q + (r + 1) /\ n * q \in Nat
    BY <1>1
  <2>2. (n * q + (r + 1)) % n = r + 1
    BY <1>1, <1>2, ModUnique
  <2>3. (n * 0 + (r + 1)) % n = r + 1
    BY <1>1, <1>2, ModUnique
  <2>4. n * 0 + (r + 1) = r + 1
    BY <1>1
  <2>5. (i + 1) % n = (r + 1) % n
    BY <2>1, <2>2, <2>3, <2>4
  <2> QED
    BY <2>5 DEF r
<1>3. CASE ~(r + 1 < n)
  <2>1. r + 1 = n
    BY <1>1, <1>3
  <2>2. i + 1 = n * (q + 1) + 0
    BY <1>1, <2>1
  <2>3. (n * (q + 1) + 0) % n = 0
    BY <1>1, ModUnique
  <2>4. (n * 1 + 0) % n = 0 /\ n * 1 + 0 = n
    BY ModUnique
  <2>5. (i + 1) % n = (r + 1) % n
    BY <2>1, <2>2, <2>3, <2>4
  <2> QED
    BY <2>5 DEF r
<1> QED
  BY <1>2, <1>3

\* A channel shows the element before the one its index selects next.
ReadingBehindIndex ==
  \A c \in Channel : index[c] # 0 => reading[c] = (index[c] - 1) % SampleLen

\* An index that has not just wrapped is one more than it was.
LEMMA IncrementSteps == ASSUME NEW i \in 0..(IndexMod - 1), Increment(i) # 0
                        PROVE  Increment(i) = i + 1
<1>1. CASE i + 1 < IndexMod
  <2>1. (IndexMod * 0 + (i + 1)) % IndexMod = i + 1 /\ IndexMod * 0 + (i + 1) = i + 1
    BY <1>1, ModUnique, StateMcAssumption
  <2> QED
    BY <2>1 DEF Increment
<1>2. CASE ~(i + 1 < IndexMod)
  <2>1. (IndexMod * 1 + 0) % IndexMod = 0 /\ IndexMod * 1 + 0 = i + 1
    BY <1>2, ModUnique, StateMcAssumption
  <2> QED
    BY <2>1 DEF Increment
<1> QED
  BY <1>1, <1>2

\* Every step keeps it.
LEMMA ReadingStep == TypeOK /\ ReadingBehindIndex /\ [Next]_vars => ReadingBehindIndex'
<1> SUFFICES ASSUME TypeOK, ReadingBehindIndex, [Next]_vars
             PROVE  ReadingBehindIndex'
  OBVIOUS
<1>1. CASE TimerSample
  <2>1. timer_case \in Channel
    BY <1>1 DEF TimerSample, TypeOK
  <2>2. /\ index' = [index EXCEPT ![timer_case] = Increment(index[timer_case])]
        /\ reading' = [reading EXCEPT ![timer_case] = index[timer_case] % SampleLen]
    BY <1>1 DEF TimerSample
  <2>3. ASSUME NEW c \in Channel, index'[c] # 0
        PROVE  reading'[c] = (index'[c] - 1) % SampleLen
    <3>1. CASE c = timer_case
      <4>1. index[c] \in 0..(IndexMod - 1) /\ index'[c] = Increment(index[c])
        BY <2>1, <2>2, <3>1 DEF TypeOK
      <4>2. index'[c] = index[c] + 1 /\ index'[c] - 1 = index[c]
        BY <4>1, <2>3, IncrementSteps, StateMcAssumption
      <4> QED
        BY <2>1, <2>2, <3>1, <4>2 DEF TypeOK
    <3>2. CASE c # timer_case
      BY <2>2, <2>3, <3>2 DEF TypeOK, ReadingBehindIndex
    <3> QED
      BY <3>1, <3>2
  <2> QED
    BY <2>3 DEF ReadingBehindIndex
<1>2. CASE ~TimerSample
  <2>1. UNCHANGED <<index, reading>>
    BY <1>2 DEF Next, Machine, Timer, MachineSwitch, Service, ServiceClear,
                MachineUpdate, MachineDefault, TimerSwitch, TimerDefault, GetChar,
                StoreKey, timerVars, vars
  <2> QED
    BY <2>1 DEF ReadingBehindIndex
<1> QED
  BY <1>1, <1>2

\* Every channel shows its samples in the order of its table, for tables of any
\* length; only a wrapping index restarts the sequence.
THEOREM SamplesAreInOrder == Spec => SamplesInOrder
<1>1. Init => ReadingBehindIndex
  BY DEF Init, ReadingBehindIndex
<1>2. TypeOK /\ ReadingBehindIndex /\ [Next]_vars =>
        [\A c \in Channel : reading'[c] # reading[c] =>
           reading'[c] = IF index[c] = 0 THEN 0 ELSE (reading[c] + 1) % SampleLen]_vars
  <2> SUFFICES ASSUME TypeOK, ReadingBehindIndex, Next, NEW c \in Channel,
                      reading'[c] # reading[c]
               PROVE  reading'[c] = IF index[c] = 0 THEN 0
                                    ELSE (reading[c] + 1) % SampleLen
    BY DEF vars
  <2>1. TimerSample /\ c = timer_case
    BY DEF Next, Machine, Timer, MachineSwitch, Service, ServiceClear,
           MachineUpdate, MachineDefault, TimerSwitch, TimerSample, TimerDefault,
           GetChar, StoreKey, timerVars, TypeOK
  <2>2. reading'[c] = index[c] % SampleLen /\ index[c] \in Nat
    BY <2>1, StateMcAssumption DEF TimerSample, TypeOK
  <2>3. CASE index[c] = 0
    <3>1. (SampleLen * 0 + 0) % SampleLen = 0
      BY ModUnique, StateMcAssumption
    <3> QED
      BY <2>2, <2>3, <3>1, StateMcAssumption
  <2>4. CASE index[c] # 0
    <3>1. index[c] - 1 \in Nat /\ reading[c] = (index[c] - 1) % SampleLen
      BY <2>2, <2>4 DEF ReadingBehindIndex
    <3>2. ((index[c] - 1) + 1) % SampleLen = (reading[c] + 1) % SampleLen
      BY <3>1, NextRemainder, StateMcAssumption
    <3> QED
      BY <2>2, <2>4, <3>2
  <2> QED
    BY <2>3, <2>4
<1>3. TypeOK /\ ReadingBehindIndex /\ [Next]_vars => ReadingBehindIndex'
  BY ReadingStep
<1> QED
  BY <1>1, <1>2, <1>3, TypeCorrect, PTL DEF Spec, SamplesInOrder

=============================================================================
