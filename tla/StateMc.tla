------------------------------ MODULE StateMc ------------------------------
(***************************************************************************)
(* StateMc_pThread_Controller/StateMc_pThread.c: three threads and four    *)
(* groups of globals, none of them protected by a lock.                    *)
(*                                                                         *)
(*   state_machine_thread  reads the mode, serves the pending key, clears  *)
(*                         it and writes the next mode                     *)
(*   ascii_read_thread     stores accepted keys in key_pressed_global      *)
(*   timer_event_thread    takes the next sample of the mode's channel,    *)
(*                         and sets the mode if it finds it unknown        *)
(*                                                                         *)
(* Every access to a shared global is a step of its own (the program is    *)
(* built with -O0, so each access in the text is one load or one store).   *)
(* sleep() only delays a thread: any interleaving of the steps is allowed. *)
(* The two bounds are MaxAccepted, the number of keys stored in a run, and *)
(* the width of the sample indexes (IndexMod, 2^32 in the code).           *)
(***************************************************************************)
EXTENDS Integers

CONSTANTS
  MaxAccepted,  \* at most so many keys are stored (bounds the environment)
  SampleLen,    \* length of each table of samples: 10 in the code
  IndexMod      \* the indexes count modulo this: 2^32 in the code

ASSUME StateMcAssumption ==
  /\ MaxAccepted \in Nat
  /\ SampleLen \in Nat \ {0}
  /\ IndexMod \in Nat \ {0}

VARIABLES
  state_singleton, key_pressed_global,   \* shared by the threads
  index, reading,                        \* per channel, timer thread only
  machine_pc, machine_case, status_local,
  timer_pc, timer_case,
  read_pc, key_entry,
  accepted,  \* history: number of keys stored
  turns      \* history: number of keys that moved the mode

machineVars == <<machine_pc, machine_case, status_local>>
timerVars == <<timer_pc, timer_case, index, reading>>
readVars == <<read_pc, key_entry>>
vars == <<state_singleton, key_pressed_global, index, reading,
          machine_pc, machine_case, status_local, timer_pc, timer_case,
          read_pc, key_entry, accepted, turns>>

-----------------------------------------------------------------------------
Channel == {"COND", "PH", "MV"}
State_t == Channel \cup {"UNKNOW"}
Status_t == {"ERROR", "STAY_PUT", "GO_BACK", "GO_FORWARD"}

\* NUL is the initial value; "OTHER" is any other character, or EOF.
Key_event_t == {"LEFT", "RIGHT"}
Character == Key_event_t \cup {"NEWLINE", "OTHER"}
KeyValue == Key_event_t \cup {"NEWLINE", "NUL"}

NoReading == -1  \* a channel's value before its first sample

Init ==
  /\ state_singleton = "UNKNOW"
  /\ key_pressed_global = "NUL"
  /\ index = [c \in Channel |-> 0]
  /\ reading = [c \in Channel |-> NoReading]
  /\ machine_pc = "sleep" /\ machine_case = "UNKNOW" /\ status_local = "ERROR"
  /\ timer_pc = "sleep" /\ timer_case = "UNKNOW"
  /\ read_pc = "sleep" /\ key_entry = "OTHER"
  /\ accepted = 0
  /\ turns = 0

-----------------------------------------------------------------------------
(* state_machine_thread *)

\* sleep() returns and the switch loads the mode.
MachineSwitch ==
  /\ machine_pc = "sleep"
  /\ machine_case' = state_singleton
  /\ machine_pc' = IF state_singleton \in Channel THEN "service" ELSE "default"
  /\ UNCHANGED <<state_singleton, key_pressed_global, status_local,
                 timerVars, readVars, accepted, turns>>

KeyStatusIgnoresLeft(key) ==
  IF key = "RIGHT" THEN "GO_FORWARD" ELSE "STAY_PUT"

\* The switch of service_cond(), service_ph() and service_miliVolt().
KeyStatus(key) ==
  CASE key = "LEFT"  -> "GO_BACK"
    [] key = "RIGHT" -> "GO_FORWARD"
    [] OTHER         -> "STAY_PUT"

\* The service function loads the key ...
Service ==
  /\ machine_pc = "service"
  /\ status_local' = KeyStatus(key_pressed_global)
  /\ machine_pc' = "clear"
  /\ UNCHANGED <<state_singleton, key_pressed_global, machine_case,
                 timerVars, readVars, accepted, turns>>

\* ... and clears it in a later store, whatever it holds by then.
ServiceNoClear ==
  /\ machine_pc = "clear"
  /\ machine_pc' = "update"
  /\ UNCHANGED <<state_singleton, key_pressed_global, machine_case,
                 status_local, timerVars, readVars, accepted, turns>>

ServiceClear ==
  /\ machine_pc = "clear"
  /\ key_pressed_global' = "NEWLINE"
  /\ machine_pc' = "update"
  /\ UNCHANGED <<state_singleton, machine_case, status_local,
                 timerVars, readVars, accepted, turns>>

\* The mode each case of the outer switch assigns for each status.
TargetTwoSteps(case, status) ==
  CASE status = "GO_BACK" ->
         [COND |-> "MV", PH |-> "COND", MV |-> "COND"][case]
    [] status = "GO_FORWARD" ->
         [COND |-> "PH", PH |-> "MV", MV |-> "COND"][case]
    [] OTHER -> case

Target(case, status) ==
  CASE status = "GO_BACK" ->
         [COND |-> "MV", PH |-> "COND", MV |-> "PH"][case]
    [] status = "GO_FORWARD" ->
         [COND |-> "PH", PH |-> "MV", MV |-> "COND"][case]
    [] OTHER -> case

\* The mode is written from the case label, not from the current mode.
MachineUpdate ==
  /\ machine_pc = "update"
  /\ state_singleton' = Target(machine_case, status_local)
  /\ machine_pc' = "sleep"
  /\ turns' = IF status_local = "STAY_PUT" THEN turns ELSE turns + 1
  /\ UNCHANGED <<key_pressed_global, machine_case, status_local,
                 timerVars, readVars, accepted>>

\* "state unknown": the machine starts the dial.
MachineDefault ==
  /\ machine_pc = "default"
  /\ state_singleton' = "COND"
  /\ machine_pc' = "sleep"
  /\ UNCHANGED <<key_pressed_global, machine_case, status_local,
                 timerVars, readVars, accepted, turns>>

Machine ==
  MachineSwitch \/ Service \/ ServiceClear \/ MachineUpdate \/ MachineDefault

-----------------------------------------------------------------------------
(* timer_event_thread *)

TimerSwitchMissingCase ==
  /\ timer_pc = "sleep"
  /\ timer_case' = state_singleton
  /\ timer_pc' = IF state_singleton \in {"COND", "PH"} THEN "sample" ELSE "default"
  /\ UNCHANGED <<state_singleton, key_pressed_global, index, reading,
                 machineVars, readVars, accepted, turns>>

TimerSwitch ==
  /\ timer_pc = "sleep"
  /\ timer_case' = state_singleton
  /\ timer_pc' = IF state_singleton \in Channel THEN "sample" ELSE "default"
  /\ UNCHANGED <<state_singleton, key_pressed_global, index, reading,
                 machineVars, readVars, accepted, turns>>

\* The uint32_t post-increment of a sample index.
IncrementUnwrapped(i) == i + 1
Increment(i) == (i + 1) % IndexMod

\* x = x_data[x_index++ % SampleLen]: the element comes from the old index.
TimerSamplePreIncrement ==
  /\ timer_pc = "sample"
  /\ index' = [index EXCEPT ![timer_case] = Increment(@)]
  /\ reading' = [reading EXCEPT ![timer_case] = index'[timer_case] % SampleLen]
  /\ timer_pc' = "sleep"
  /\ UNCHANGED <<state_singleton, key_pressed_global, timer_case,
                 machineVars, readVars, accepted, turns>>

TimerSample ==
  /\ timer_pc = "sample"
  /\ reading' = [reading EXCEPT ![timer_case] = index[timer_case] % SampleLen]
  /\ index' = [index EXCEPT ![timer_case] = Increment(@)]
  /\ timer_pc' = "sleep"
  /\ UNCHANGED <<state_singleton, key_pressed_global, timer_case,
                 machineVars, readVars, accepted, turns>>

\* "state unknown": the timer sets the mode too, however late.
TimerDefault ==
  /\ timer_pc = "default"
  /\ state_singleton' = "COND"
  /\ timer_pc' = "sleep"
  /\ UNCHANGED <<key_pressed_global, timer_case, index, reading,
                 machineVars, readVars, accepted, turns>>

Timer == TimerSwitch \/ TimerSample \/ TimerDefault

-----------------------------------------------------------------------------
(* ascii_read_thread *)

\* getchar() returns whatever the user typed.
GetChar ==
  /\ read_pc = "sleep"
  /\ accepted < MaxAccepted
  /\ key_entry' \in Character
  /\ read_pc' = "entered"
  /\ UNCHANGED <<state_singleton, key_pressed_global, accepted, turns,
                 machineVars, timerVars>>

\* verify_user_input() returns GOOD_STATUS.
GoodInput(key) == key \in Key_event_t \cup {"NEWLINE"}

\* Line feeds are skipped before the key is verified.
KeyStored == key_entry # "NEWLINE" /\ GoodInput(key_entry)

StoreKey ==
  /\ read_pc = "entered"
  /\ read_pc' = "sleep"
  /\ IF KeyStored
     THEN key_pressed_global' = key_entry /\ accepted' = accepted + 1
     ELSE UNCHANGED <<key_pressed_global, accepted>>
  /\ UNCHANGED <<state_singleton, key_entry, turns, machineVars, timerVars>>

-----------------------------------------------------------------------------
Next == Machine \/ Timer \/ GetChar \/ StoreKey

\* Every thread that can run runs eventually.  The user need not type: GetChar
\* has no fairness.
Fairness == WF_vars(Machine) /\ WF_vars(Timer) /\ WF_vars(StoreKey)

Spec == Init /\ [][Next]_vars /\ Fairness

-----------------------------------------------------------------------------
(* Properties *)

InService == machine_pc \in {"service", "clear", "update"}

\* The types of the globals, of the program counters and of the locals.
TypeOK ==
  /\ state_singleton \in State_t
  /\ key_pressed_global \in KeyValue
  /\ index \in [Channel -> 0..(IndexMod - 1)]
  /\ reading \in [Channel -> {NoReading} \cup 0..(SampleLen - 1)]
  /\ machine_pc \in {"sleep", "service", "clear", "update", "default"}
  /\ machine_case \in State_t
  /\ InService => machine_case \in Channel
  /\ status_local \in Status_t
  /\ machine_pc = "update" => status_local # "ERROR"
  /\ machine_pc = "clear" => status_local # "ERROR"
  /\ timer_pc \in {"sleep", "sample", "default"}
  /\ timer_case \in State_t
  /\ timer_pc = "sample" => timer_case \in Channel
  /\ read_pc \in {"sleep", "entered"}
  /\ key_entry \in Character
  /\ accepted \in Nat
  /\ turns \in Nat

\* Start-up is over: the mode is known, no thread still holds the decision to
\* overwrite an unknown mode, and a service in progress is one of the current
\* mode.
Settled ==
  /\ state_singleton \in Channel
  /\ machine_pc # "default"
  /\ timer_pc # "default"
  /\ InService => machine_case = state_singleton

\* The two threads that race to set an unknown mode at start-up do so only
\* then: once start-up is over it stays over.
SettledForever == [][Settled => Settled']_vars

\* What a stored character, or a status returned for one, asks of the dial.
PressOf(key) ==
  IF key = "LEFT" THEN "left" ELSE IF key = "RIGHT" THEN "right" ELSE "none"
PressFor(status) ==
  IF status = "GO_BACK" THEN "left"
  ELSE IF status = "GO_FORWARD" THEN "right" ELSE "none"

\* A key that waits to be served, unless the pending clear is about to wipe it.
Slot == IF machine_pc = "clear" THEN "none" ELSE PressOf(key_pressed_global)

\* The key the machine has loaded and not yet acted on.
Serving ==
  IF machine_pc \in {"clear", "update"} THEN PressFor(status_local) ELSE "idle"

Pending == (IF Slot # "none" THEN 1 ELSE 0)
           + (IF Serving \in {"left", "right"} THEN 1 ELSE 0)

\* No key is acted on twice, although it is loaded in one step and cleared in
\* another while the reader stores: the keys acted on, served and waiting are
\* never more than the keys accepted.
AtMostOneTurnPerKey == turns + Pending <= accepted

RingPosition == [UNKNOW |-> 0, COND |-> 0, PH |-> 1, MV |-> 2]

Dial == INSTANCE KeyDial WITH
          mode <- RingPosition[state_singleton],
          open <- ~Settled,
          slot <- Slot,
          serving <- Serving,
          presses <- accepted,
          turned <- turns

\* The threads together implement the keyboard dial: after start-up the mode
\* moves one step round the ring per key taken, in that key's direction, and a
\* key is lost only by a newer key or during a service.
ImplementsDial == Dial!Spec

\* A channel's samples follow the order of its table; the sequence restarts
\* only where the 32-bit index wraps.
SamplesInOrder ==
  [][\A c \in Channel : reading'[c] # reading[c] =>
       reading'[c] = IF index[c] = 0 THEN 0 ELSE (reading[c] + 1) % SampleLen]_vars

\* The start-up race ends, whichever thread wins it.
StartUpEnds == <>[]Settled

\* A key that waits is served, or the newer key that replaced it is.
WaitingKeyServed == Slot # "none" ~> Serving \in {"left", "right"}

\* "default: // NO_CHANGE": without a new key the machine leaves the mode as it
\* is.  The code writes the case label it switched on, which the timer thread
\* may have overwritten since.
NoChangeKeepsMode ==
  [][(MachineUpdate /\ status_local = "STAY_PUT") => UNCHANGED state_singleton]_vars

=============================================================================
