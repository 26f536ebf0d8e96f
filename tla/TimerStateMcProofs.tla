------------------------ MODULE TimerStateMcProofs -------------------------
(***************************************************************************)
(* Theorems about TimerStateMc, for tables of any length and every index   *)
(* width: its type invariant, that its start-up race stays over, and that  *)
(* the three threads implement the dial of StickyDial.                     *)
(***************************************************************************)
EXTENDS TimerStateMc, TLAPS

\* The index stays in its width and selects an element of a table.
LEMMA IndexRange == ASSUME NEW n \in Nat
                    PROVE  /\ Increment(n) \in 0..(IndexMod - 1)
                           /\ n % SampleLen \in 0..(SampleLen - 1)
  BY TimerStateMcAssumption DEF Increment

\* The modes of the ring lead to each other.
LEMMA TargetInRing == ASSUME NEW c \in Channel, NEW s
                      PROVE  Target(c, s) \in Channel
  BY DEF Target, Channel

\* The three threads keep every global, program counter and local in its type;
\* in particular nothing ever sets ESCPressed.
THEOREM TypeCorrect == Spec => []TypeOK
<1>1. Init => TypeOK
  <2> SUFFICES ASSUME Init
               PROVE  TypeOK
    OBVIOUS
  <2>1. 0 \in 0..(IndexMod - 1)
    BY TimerStateMcAssumption
  <2> QED
    BY <2>1 DEF Init, TypeOK, State_t, Key_event_t, Character, Status_t,
                InService, Channel
<1>2. TypeOK /\ [Next]_vars => TypeOK'
  <2> SUFFICES ASSUME TypeOK, [Next]_vars
               PROVE  TypeOK'
    OBVIOUS
  <2> USE DEF TypeOK, InService
  <2>1. CASE MachineSwitch
    BY <2>1 DEF MachineSwitch, timerVars, readVars
  <2>2. CASE Service
    BY <2>2 DEF Service, timerVars, readVars, KeyStatus, Status_t
  <2>3. CASE MachineUpdate
    <3>1. Target(machine_case, status_local) \in Channel
      BY <2>3, TargetInRing DEF MachineUpdate
    <3> QED
      BY <2>3, <3>1 DEF MachineUpdate, timerVars, readVars, State_t
  <2>4. CASE MachineDefault
    BY <2>4 DEF MachineDefault, timerVars, readVars, State_t, Channel
  <2>5. CASE TimerWhile
    BY <2>5 DEF TimerWhile, machineVars, readVars
  <2>6. CASE TimerSwitch
    BY <2>6 DEF TimerSwitch, machineVars, readVars
  <2>7. CASE TimerSample
    <3>1. timer_case \in Channel /\ i \in Nat
      BY <2>7, TimerStateMcAssumption DEF TimerSample
    <3>2. /\ reading' \in [Channel -> {NoReading} \cup 0..(SampleLen - 1)]
          /\ i' \in 0..(IndexMod - 1)
      BY <2>7, <3>1, IndexRange DEF TimerSample
    <3> QED
      BY <2>7, <3>2 DEF TimerSample, machineVars, readVars
  <2>8. CASE TimerDefault
    BY <2>8 DEF TimerDefault, machineVars, readVars, State_t, Channel
  <2>9. CASE GetChar
    BY <2>9 DEF GetChar, machineVars, timerVars
  <2>10. CASE StoreKey
    BY <2>10 DEF StoreKey, machineVars, timerVars
  <2>11. CASE UNCHANGED vars
    BY <2>11 DEF vars
  <2> QED
    BY <2>1, <2>2, <2>3, <2>4, <2>5, <2>6, <2>7, <2>8, <2>9, <2>10, <2>11
       DEF Next, Machine, Timer
<1> QED
  BY <1>1, <1>2, PTL DEF Spec

\* The disagreement of the two threads about the first mode ends with start-up:
\* neither ever overwrites a mode again.
THEOREM SettledStays == Spec => SettledForever
<1>1. TypeOK /\ [Next]_vars => [Settled => Settled']_vars
  <2> SUFFICES ASSUME TypeOK, [Next]_vars, Settled
               PROVE  Settled'
    OBVIOUS
  <2> USE DEF TypeOK, InService, Settled
  <2>1. CASE MachineSwitch
    BY <2>1 DEF MachineSwitch, timerVars
  <2>2. CASE Service
    BY <2>2 DEF Service, timerVars
  <2>3. CASE MachineUpdate
    <3>1. Target(machine_case, status_local) \in Channel
      BY <2>3, TargetInRing DEF MachineUpdate
    <3> QED
      BY <2>3, <3>1 DEF MachineUpdate, timerVars
  <2>4. CASE MachineDefault \/ TimerDefault
    BY <2>4 DEF MachineDefault, TimerDefault
  <2>5. CASE TimerWhile \/ TimerSwitch \/ TimerSample
    BY <2>5 DEF TimerWhile, TimerSwitch, TimerSample, machineVars
  <2>6. CASE GetChar \/ StoreKey
    BY <2>6 DEF GetChar, StoreKey, machineVars, timerVars
  <2>7. CASE UNCHANGED vars
    BY <2>7 DEF vars
  <2> QED
    BY <2>1, <2>2, <2>3, <2>4, <2>5, <2>6, <2>7 DEF Next, Machine, Timer
<1> QED
  BY <1>1, TypeCorrect, PTL DEF Spec, SettledForever

\* How much of start-up is left: each thread that may still write a first mode
\* counts for two, as its write can leave the machine thread in the service of
\* another mode, and that service counts for one.
StartUpLeft ==
  (IF machine_pc = "default" \/ state = "UNKNOW" THEN 2 ELSE 0)
  + (IF timer_pc = "default" \/ state = "UNKNOW" THEN 2 ELSE 0)
  + (IF InService /\ machine_case # state THEN 1 ELSE 0)

\* The writes that can overwrite a mode at start-up.
StartUpStep ==
  \/ MachineDefault \/ TimerDefault
  \/ MachineUpdate /\ machine_case # state

\* Start-up is over when nothing of it is left.
LEMMA NothingLeft ==
  ASSUME TypeOK
  PROVE  StartUpLeft \in 0..5 /\ (StartUpLeft = 0 <=> Settled)
<1> DEFINE M == machine_pc = "default" \/ state = "UNKNOW"
           T == timer_pc = "default" \/ state = "UNKNOW"
           S == InService /\ machine_case # state
<1>1. Settled <=> ~M /\ ~T /\ ~S
  BY DEF TypeOK, Settled, State_t, Channel, InService
<1>2. StartUpLeft = (IF M THEN 2 ELSE 0) + (IF T THEN 2 ELSE 0) + (IF S THEN 1 ELSE 0)
  BY DEF StartUpLeft
<1> HIDE DEF M, T, S
<1> QED
  BY <1>1, <1>2

\* No step adds to what is left of start-up, and each of its writes takes away.
LEMMA LeftStep ==
  ASSUME TypeOK, [Next]_vars
  PROVE  StartUpLeft' <= StartUpLeft /\ (StartUpStep => StartUpLeft' < StartUpLeft)
<1> USE DEF TypeOK, InService, StartUpLeft, StartUpStep
<1>1. CASE MachineSwitch
  BY <1>1 DEF MachineSwitch, MachineDefault, MachineUpdate, TimerDefault, timerVars,
              State_t, Channel
<1>2. CASE Service
  BY <1>2 DEF Service, MachineDefault, MachineUpdate, TimerDefault, timerVars
<1>3. CASE MachineUpdate
  <2>1. Target(machine_case, status_local) \in Channel
    BY <1>3, TargetInRing DEF MachineUpdate
  <2>2. state' # "UNKNOW" /\ ~InService' /\ machine_pc' = "sleep" /\ timer_pc' = timer_pc
    BY <1>3, <2>1 DEF MachineUpdate, Channel, timerVars
  <2> QED
    BY <1>3, <2>2 DEF MachineUpdate, MachineDefault, TimerDefault
<1>4. CASE MachineDefault
  BY <1>4 DEF MachineDefault, timerVars
<1>5. CASE TimerSwitch
  BY <1>5 DEF TimerSwitch, MachineDefault, MachineUpdate, TimerDefault, machineVars,
              State_t, Channel
<1>6. CASE TimerSample \/ TimerWhile
  BY <1>6 DEF TimerSample, TimerWhile, MachineDefault, MachineUpdate, TimerDefault, machineVars
<1>7. CASE TimerDefault
  BY <1>7 DEF TimerDefault, machineVars
<1>8. CASE GetChar \/ StoreKey
  BY <1>8 DEF GetChar, StoreKey, MachineDefault, MachineUpdate, TimerDefault, machineVars,
              timerVars
<1>9. CASE UNCHANGED vars
  BY <1>9 DEF vars, MachineDefault, MachineUpdate, TimerDefault
<1> QED
  BY <1>1, <1>2, <1>3, <1>4, <1>5, <1>6, <1>7, <1>8, <1>9 DEF Next, Machine, Timer

\* The disagreement about the first mode cannot go on: nothing gives a thread a
\* new chance to overwrite the mode, so the writes of start-up that StartUpEnds
\* waits for are a handful.
THEOREM StartUpRunsDown ==
  Spec => /\ [](StartUpLeft \in 0..4 /\ (StartUpLeft = 0 <=> Settled))
          /\ [][/\ StartUpLeft' <= StartUpLeft
                /\ StartUpStep => StartUpLeft' < StartUpLeft]_vars
<1> DEFINE Ends == StartUpLeft \in 0..5 /\ (StartUpLeft = 0 <=> Settled)
           AtMost4 == StartUpLeft <= 4
<1>1. Init => AtMost4
  BY DEF Init, StartUpLeft, InService
<1>2. TypeOK => Ends
  BY NothingLeft
<1>3. TypeOK /\ Ends /\ Ends' /\ AtMost4 /\ [Next]_vars => AtMost4'
  <2> SUFFICES ASSUME TypeOK, Ends, Ends', AtMost4, [Next]_vars
               PROVE  StartUpLeft' <= 4
    OBVIOUS
  <2>1. StartUpLeft' <= StartUpLeft
    BY LeftStep
  <2>2. StartUpLeft \in Nat /\ StartUpLeft' \in Nat
    OBVIOUS
  <2> QED
    BY <2>1, <2>2
<1>4. TypeOK /\ [Next]_vars =>
        [/\ StartUpLeft' <= StartUpLeft
         /\ StartUpStep => StartUpLeft' < StartUpLeft]_vars
  BY LeftStep
<1>5. Ends /\ AtMost4 => StartUpLeft \in 0..4 /\ (StartUpLeft = 0 <=> Settled)
  OBVIOUS
<1> HIDE DEF Ends, AtMost4
<1> QED
  BY <1>1, <1>2, <1>3, <1>4, <1>5, TypeCorrect, PTL DEF Spec

-----------------------------------------------------------------------------
(* The refinement *)

\* Steps of the three threads that the dial does not see.
LEMMA HiddenStep ==
  ASSUME TypeOK,
         MachineSwitch \/ TimerWhile \/ TimerSwitch \/ TimerSample \/ GetChar
           \/ UNCHANGED vars
  PROVE  UNCHANGED Dial!stickyVars
<1> USE DEF TypeOK, InService, Settled, Serving, PressFor, Dial!stickyVars
<1>1. CASE MachineSwitch
  BY <1>1 DEF MachineSwitch, timerVars, readVars
<1>2. CASE TimerWhile \/ TimerSwitch \/ TimerSample
  BY <1>2 DEF TimerWhile, TimerSwitch, TimerSample, machineVars, readVars
<1>3. CASE GetChar
  BY <1>3 DEF GetChar, machineVars, timerVars
<1>4. CASE UNCHANGED vars
  BY <1>4 DEF vars
<1> QED
  BY <1>1, <1>2, <1>3, <1>4

\* The switch tables of the code are moves round the ring.
LEMMA TargetIsShift ==
  ASSUME NEW case \in Channel, NEW status \in Status_t
  PROVE  RingPosition[Target(case, status)]
           = Dial!Shifted(RingPosition[case], PressFor(status))
BY DEF Channel, State_t, Status_t, Target, RingPosition, PressFor,
       Dial!Shifted, Dial!Size

\* Every mode has a position on the ring.
LEMMA RingPositionType ==
  ASSUME NEW s \in State_t
  PROVE  RingPosition[s] \in Dial!Position
BY DEF State_t, Channel, RingPosition, Dial!Position, Dial!Size

\* Loading the key is the dial's Take: the key stays down.
LEMMA ServiceTakes == TypeOK /\ Service => Dial!Take
BY DEF TypeOK, Service, KeyStatus, Serving, PressOf, PressFor, Settled,
       InService, Character, Key_event_t, Dial!Take, timerVars, readVars

\* Writing the next mode is the dial's Turn, by what was loaded; a mode that
\* start-up may still overwrite can go anywhere.
LEMMA UpdateTurns == TypeOK /\ MachineUpdate => Dial!Turn
<1> SUFFICES ASSUME TypeOK, MachineUpdate
             PROVE  Dial!Turn
  OBVIOUS
<1>1. machine_case \in Channel /\ status_local \in Status_t
  BY DEF TypeOK, MachineUpdate, InService
<1>2. Target(machine_case, status_local) \in Channel
  BY <1>1, TargetInRing
<1>3. /\ Serving = PressFor(status_local)
      /\ Serving # "idle"
      /\ Serving' = "idle"
      /\ PressOf(key_pressed)' = PressOf(key_pressed)
  BY DEF MachineUpdate, Serving, PressFor
<1>4. CASE Settled
  <2>1. Settled'
    BY <1>2, <1>4 DEF Settled, MachineUpdate, InService, timerVars
  <2>2. RingPosition[state]' = Dial!Shifted(RingPosition[state], Serving)
    BY <1>1, <1>3, <1>4, TargetIsShift DEF Settled, MachineUpdate, InService
  <2> QED
    BY <1>3, <1>4, <2>1, <2>2 DEF Dial!Turn
<1>5. CASE ~Settled
  <2>1. RingPosition[state]' \in Dial!Position
    BY <1>2, RingPositionType DEF MachineUpdate, State_t
  <2> QED
    BY <1>3, <1>5, <2>1 DEF Dial!Turn
<1> QED
  BY <1>4, <1>5

\* Whichever of the two threads writes its own idea of the first mode, and
\* however late, it is a step of the dial's start-up.
LEMMA DefaultStartsUp ==
  ASSUME TypeOK, MachineDefault \/ TimerDefault
  PROVE  Dial!StartUp
<1>1. ~Settled
  BY DEF Settled, MachineDefault, TimerDefault
<1>2. RingPosition[state]' \in Dial!Position
  BY RingPositionType DEF MachineDefault, TimerDefault, State_t, Channel
<1>3. UNCHANGED <<PressOf(key_pressed), Serving>>
  BY DEF MachineDefault, TimerDefault, Serving, machineVars
<1> QED
  BY <1>1, <1>2, <1>3 DEF Dial!StartUp

\* A stored character is the new key of the dial; any but 'a' and 'd' is none.
LEMMA StoreTypes ==
  ASSUME StoreKey
  PROVE  \E k \in Dial!Press \cup {"none"} : Dial!Type(k)
<1>1. PressOf(ch) \in Dial!Press \cup {"none"}
  BY DEF PressOf, Dial!Press
<1>2. Dial!Type(PressOf(ch))
  BY DEF StoreKey, Dial!Type, Settled, InService, Serving, machineVars, timerVars
<1> QED
  BY <1>1, <1>2

\* The three threads implement the dial whose key stays down: no turn is by
\* anything but the key that was loaded for it.
THEOREM StickyDialImplemented == Spec => ImplementsStickyDial
<1>1. Init => Dial!Init
  BY RingPositionType
     DEF Init, Dial!Init, Settled, Channel, State_t, Serving, PressOf
<1>2. TypeOK /\ [Next]_vars => [Dial!Next]_(Dial!stickyVars)
  BY HiddenStep, ServiceTakes, UpdateTurns, DefaultStartsUp, StoreTypes
     DEF Next, Machine, Timer, Dial!Next
<1> QED
  BY <1>1, <1>2, TypeCorrect, PTL DEF Spec, ImplementsStickyDial, Dial!Spec

=============================================================================
