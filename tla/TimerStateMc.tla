--------------------------- MODULE TimerStateMc ----------------------------
(***************************************************************************)
(* StateMc_pThread_Timer_Controller/StateMc_pThread_Timer.c, the ancestor  *)
(* of StateMc.c.  It has the same three threads and the same ring of modes,*)
(* but a key stays in key_pressed until another replaces it, any character *)
(* is a key, one index serves all three tables, and the two threads that   *)
(* find the mode unknown disagree on what to set it to.                    *)
(*                                                                         *)
(* Every access to a shared global is a step of its own.  The only bound is*)
(* the width of the sample index.                                          *)
(***************************************************************************)
EXTENDS Integers

CONSTANTS
  SampleLen,    \* length of each table of samples: 5 in the code
  IndexMod      \* the index counts modulo this: 2^32 in the code

ASSUME TimerStateMcAssumption ==
  /\ SampleLen \in Nat \ {0}
  /\ IndexMod \in Nat \ {0}

VARIABLES
  state, key_pressed, ESCPressed,       \* shared by the threads
  i, reading,                           \* timer thread only
  machine_pc, machine_case, status_local,
  timer_pc, timer_case,
  read_pc, ch

machineVars == <<machine_pc, machine_case, status_local>>
timerVars == <<timer_pc, timer_case, i, reading>>
readVars == <<read_pc, ch>>
vars == <<state, key_pressed, ESCPressed, i, reading,
          machine_pc, machine_case, status_local, timer_pc, timer_case, read_pc, ch>>

-----------------------------------------------------------------------------
Channel == {"COND", "PH", "MV"}
State_t == Channel \cup {"UNKNOW"}
Status_t == {"ERROR", "GO_BACK", "GO_FORWARD"}

\* "OTHER" is any character but 'a', 'd' and ESC, or EOF; NUL at the start.
Key_event_t == {"LEFT", "RIGHT"}
Character == Key_event_t \cup {"ESC", "OTHER"}

NoReading == -1  \* a channel's value before its first sample

Init ==
  /\ state = "UNKNOW"
  /\ key_pressed = "OTHER"
  /\ ESCPressed = FALSE
  /\ i = 0
  /\ reading = [c \in Channel |-> NoReading]
  /\ machine_pc = "sleep" /\ machine_case = "UNKNOW" /\ status_local = "ERROR"
  /\ timer_pc = "while" /\ timer_case = "UNKNOW"
  /\ read_pc = "sleep" /\ ch = "OTHER"

-----------------------------------------------------------------------------
(* state_machine_thread *)

MachineSwitch ==
  /\ machine_pc = "sleep"
  /\ machine_case' = state
  /\ machine_pc' = IF state \in Channel THEN "service" ELSE "default"
  /\ UNCHANGED <<state, key_pressed, ESCPressed, status_local, timerVars, readVars>>

\* The switch of service_cond(), service_ph() and service_miliVolt().
KeyStatus(key) ==
  CASE key = "LEFT"  -> "GO_BACK"
    [] key = "RIGHT" -> "GO_FORWARD"
    [] OTHER         -> "ERROR"

\* The service function loads the key and leaves it in place.
Service ==
  /\ machine_pc = "service"
  /\ status_local' = KeyStatus(key_pressed)
  /\ machine_pc' = "update"
  /\ UNCHANGED <<state, key_pressed, ESCPressed, machine_case, timerVars, readVars>>

\* A ring whose way back from millivolt leads nowhere.
TargetStuckAtMv(case, status) ==
  CASE status = "GO_BACK"    -> [COND |-> "MV", PH |-> "COND", MV |-> "MV"][case]
    [] status = "GO_FORWARD" -> [COND |-> "PH", PH |-> "MV", MV |-> "COND"][case]
    [] OTHER                 -> case

\* The mode each case of the outer switch assigns for each status.
Target(case, status) ==
  CASE status = "GO_BACK"    -> [COND |-> "MV", PH |-> "COND", MV |-> "PH"][case]
    [] status = "GO_FORWARD" -> [COND |-> "PH", PH |-> "MV", MV |-> "COND"][case]
    [] OTHER                 -> case

\* A machine thread that looks at the key again when it writes the next mode.
MachineUpdateRereads ==
  /\ machine_pc = "update"
  /\ state' = Target(machine_case, KeyStatus(key_pressed))
  /\ machine_pc' = "sleep"
  /\ UNCHANGED <<key_pressed, ESCPressed, machine_case, status_local,
                 timerVars, readVars>>

MachineUpdate ==
  /\ machine_pc = "update"
  /\ state' = Target(machine_case, status_local)
  /\ machine_pc' = "sleep"
  /\ UNCHANGED <<key_pressed, ESCPressed, machine_case, status_local,
                 timerVars, readVars>>

\* "state unknown": the machine starts with conductivity ...
MachineDefault ==
  /\ machine_pc = "default"
  /\ state' = "COND"
  /\ machine_pc' = "sleep"
  /\ UNCHANGED <<key_pressed, ESCPressed, machine_case, status_local,
                 timerVars, readVars>>

Machine == MachineSwitch \/ Service \/ MachineUpdate \/ MachineDefault

-----------------------------------------------------------------------------
(* timer_event_thread *)

\* while (!ESCPressed): the comment says "When ESC is not pressed", but what would set
\* the flag is commented out, and the loop never ends.
TimerWhile ==
  /\ timer_pc = "while"
  /\ timer_pc' = IF ESCPressed THEN "finished" ELSE "sleep"
  /\ UNCHANGED <<state, key_pressed, ESCPressed, timer_case, i, reading,
                 machineVars, readVars>>

TimerSwitchMissingCase ==
  /\ timer_pc = "sleep"
  /\ timer_case' = state
  /\ timer_pc' = IF state \in {"COND", "PH"} THEN "sample" ELSE "default"
  /\ UNCHANGED <<state, key_pressed, ESCPressed, i, reading, machineVars, readVars>>

TimerSwitch ==
  /\ timer_pc = "sleep"
  /\ timer_case' = state
  /\ timer_pc' = IF state \in Channel THEN "sample" ELSE "default"
  /\ UNCHANGED <<state, key_pressed, ESCPressed, i, reading, machineVars, readVars>>

\* The uint32_t post-increment of the sample index.
IncrementUnwrapped(n) == n + 1
Increment(n) == (n + 1) % IndexMod

\* x = x_data[i++ % SampleLen], whichever x.
TimerSample ==
  /\ timer_pc = "sample"
  /\ reading' = [reading EXCEPT ![timer_case] = i % SampleLen]
  /\ i' = Increment(i)
  /\ timer_pc' = "while"
  /\ UNCHANGED <<state, key_pressed, ESCPressed, timer_case, machineVars, readVars>>

\* ... the timer with millivolt.
TimerDefault ==
  /\ timer_pc = "default"
  /\ state' = "MV"
  /\ timer_pc' = "while"
  /\ UNCHANGED <<key_pressed, ESCPressed, timer_case, i, reading,
                 machineVars, readVars>>

Timer == TimerWhile \/ TimerSwitch \/ TimerSample \/ TimerDefault

-----------------------------------------------------------------------------
(* ascii_read_thread *)

\* getchar() returns whatever the user typed.
GetChar ==
  /\ read_pc = "sleep"
  /\ ch' \in Character
  /\ read_pc' = "entered"
  /\ UNCHANGED <<state, key_pressed, ESCPressed, machineVars, timerVars>>

\* ESC is not printed, but it is stored like any other character; the code that
\* would set ESCPressed is commented out.
StoreKey ==
  /\ read_pc = "entered"
  /\ key_pressed' = ch
  /\ read_pc' = "sleep"
  /\ UNCHANGED <<state, ESCPressed, ch, machineVars, timerVars>>

-----------------------------------------------------------------------------
Next == Machine \/ Timer \/ GetChar \/ StoreKey

\* Every thread that can run runs eventually.  The user need not type.
Fairness == WF_vars(Machine) /\ WF_vars(Timer) /\ WF_vars(StoreKey)

Spec == Init /\ [][Next]_vars /\ Fairness

-----------------------------------------------------------------------------
(* Properties *)

InService == machine_pc \in {"service", "update"}

\* The types of the globals, of the program counters and of the locals.
TypeOK ==
  /\ state \in State_t
  /\ key_pressed \in Character
  /\ ESCPressed = FALSE
  /\ i \in 0..(IndexMod - 1)
  /\ reading \in [Channel -> {NoReading} \cup 0..(SampleLen - 1)]
  /\ machine_pc \in {"sleep", "service", "update", "default"}
  /\ machine_case \in State_t
  /\ InService => machine_case \in Channel
  /\ status_local \in Status_t
  /\ timer_pc \in {"while", "sleep", "sample", "default"}
  /\ timer_case \in State_t
  /\ timer_pc = "sample" => timer_case \in Channel
  /\ read_pc \in {"sleep", "entered"}
  /\ ch \in Character

\* Start-up is over: the mode is known, no thread still holds the decision to
\* overwrite an unknown mode, and a service in progress is one of the current
\* mode.
Settled ==
  /\ state \in Channel
  /\ machine_pc # "default"
  /\ timer_pc # "default"
  /\ InService => machine_case = state

\* Although the two threads that set an unknown mode choose different modes,
\* they can overwrite each other, and a turn of the dial, only at start-up.
SettledForever == [][Settled => Settled']_vars

(* The three threads as one dial whose key stays down *)

RingPosition == [s \in State_t |->
                   CASE s = "PH" -> 1 [] s = "MV" -> 2 [] OTHER -> 0]
PressOf(key) == CASE key = "LEFT" -> "left" [] key = "RIGHT" -> "right"
                  [] OTHER -> "none"
PressFor(status) == CASE status = "GO_BACK" -> "left"
                      [] status = "GO_FORWARD" -> "right" [] OTHER -> "none"

\* What the machine thread has loaded and not yet acted on.
Serving == IF machine_pc = "update" THEN PressFor(status_local) ELSE "idle"

Dial == INSTANCE StickyDial WITH
  mode <- RingPosition[state],
  open <- ~Settled,
  key <- PressOf(key_pressed),
  serving <- Serving

\* Once start-up is over the mode moves only by one position of the ring at a
\* time, and by the key that was down when the machine thread loaded it, however
\* many keys come before it acts.
ImplementsStickyDial == Dial!Spec

\* The start-up race ends, whichever thread wins it.
StartUpEnds == <>[]Settled

\* A key is never cleared: after the last key the dial turns for ever, through
\* every mode.  Only another character stops it, and then for good.
DialFollowsLastKey ==
  /\ \A key \in Key_event_t : \A c \in Channel :
       <>[](key_pressed = key) => []<>(state = c)
  /\ <>[](key_pressed \notin Key_event_t) => \E c \in Channel : <>[](state = c)

=============================================================================
