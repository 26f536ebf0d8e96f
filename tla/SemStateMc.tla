---------------------------- MODULE SemStateMc -----------------------------
(***************************************************************************)
(* StateMc_pThread_Sem_Controller/StateMc_pThread_Sem.c: the keyboard state*)
(* machine with a service thread per mode.  The machine posts a semaphore  *)
(* to the service of the current mode, and waits for an answer before its  *)
(* next pass.                                                              *)
(*                                                                         *)
(* main passes NULL to every thread, and the machine and the services store*)
(* their status through that argument: the first status ends the process   *)
(* with SIGSEGV.  The code behind those stores (the switch on the status,  *)
(* the posts of the answers) is never reached and is not in this module.   *)
(*                                                                         *)
(* Every access to a shared global is a step of its own.  There is no bound*)
(* on the run: keys come without end, and semaphores count freely.         *)
(***************************************************************************)
EXTENDS Integers

VARIABLES
  state_singleton, key_pressed_global,
  sem,         \* per mode: sem_conditivity, sem_pH, sem_miliVolt
  sem_update,  \* per mode: sem_update_conditivity, ...
  machine_pc, machine_case,
  service_pc,  \* per mode
  timer_pc, timer_case,
  read_pc, key_entry,
  terminal,    \* the mode of the terminal the program runs in
  process

machineVars == <<machine_pc, machine_case>>
timerVars == <<timer_pc, timer_case>>
readVars == <<read_pc, key_entry, terminal>>
vars == <<state_singleton, key_pressed_global, sem, sem_update, machine_pc,
          machine_case, service_pc, timer_pc, timer_case, read_pc, key_entry,
          terminal, process>>

-----------------------------------------------------------------------------
Channel == {"COND", "PH", "MV"}
State_t == Channel \cup {"UNKNOW"}

\* "OTHER" is any character but 'a' and 'd', or EOF; NUL at the start.
Character == {"LEFT", "RIGHT", "OTHER"}

Init ==
  /\ state_singleton = "UNKNOW"
  /\ key_pressed_global = "OTHER"
  /\ sem = [c \in Channel |-> 0]
  /\ sem_update = [c \in Channel |-> 0]
  /\ machine_pc = "sleep" /\ machine_case = "UNKNOW"
  /\ service_pc = [c \in Channel |-> "wait"]
  /\ timer_pc = "sleep" /\ timer_case = "UNKNOW"
  /\ read_pc = "start" /\ key_entry = "OTHER"
  /\ terminal = "canonical"
  /\ process = "running"

\* A store through the NULL argument: SIGSEGV ends every thread, and no
\* atexit handler runs.
Fault ==
  /\ process' = "killed"
  /\ UNCHANGED <<state_singleton, key_pressed_global, sem, sem_update,
                 machineVars, service_pc, timerVars, readVars>>

-----------------------------------------------------------------------------
(* state_machine_thread *)

\* The answer the machine waits for at the end of each pass.
Awaited == "COND"

\* A machine that goes into its next pass without an answer.
MachineSwitchDoesNotWait ==
  /\ machine_pc \in {"sleep", "wait"}
  /\ machine_case' = state_singleton
  /\ machine_pc' = IF state_singleton \in Channel THEN "post" ELSE "default"
  /\ UNCHANGED <<state_singleton, key_pressed_global, sem, sem_update,
                 service_pc, timerVars, readVars, process>>

\* The first pass, or a later one after sem_wait(): sleep, and load the mode.
MachineSwitch ==
  /\ \/ machine_pc = "sleep" /\ UNCHANGED sem_update
     \/ /\ machine_pc = "wait" /\ sem_update[Awaited] > 0
        /\ sem_update' = [sem_update EXCEPT ![Awaited] = @ - 1]
  /\ machine_case' = state_singleton
  /\ machine_pc' = IF state_singleton \in Channel THEN "post" ELSE "default"
  /\ UNCHANGED <<state_singleton, key_pressed_global, sem,
                 service_pc, timerVars, readVars, process>>

MachinePost ==
  /\ machine_pc = "post"
  /\ sem' = [sem EXCEPT ![machine_case] = @ + 1]
  /\ machine_pc' = "write"
  /\ UNCHANGED <<state_singleton, key_pressed_global, sem_update, machine_case,
                 service_pc, timerVars, readVars, process>>

\* *status_local = service_cond() and the like, whatever the key.
MachineWrite == machine_pc = "write" /\ Fault

\* "state unknown": the machine starts with conductivity ...
MachineDefault ==
  /\ machine_pc = "default"
  /\ state_singleton' = "COND"
  /\ machine_pc' = "wait"
  /\ UNCHANGED <<key_pressed_global, sem, sem_update, machine_case,
                 service_pc, timerVars, readVars, process>>

Machine == MachineSwitch \/ MachinePost \/ MachineWrite \/ MachineDefault

-----------------------------------------------------------------------------
(* thr_service_cond, thr_service_ph, thr_service_miliVolt *)

\* sem_wait() whose failure is ignored.
ServiceWaitUnguarded(c) ==
  /\ service_pc[c] = "wait"
  /\ sem' = [sem EXCEPT ![c] = @ - 1]
  /\ service_pc' = [service_pc EXCEPT ![c] = "write"]
  /\ UNCHANGED <<state_singleton, key_pressed_global, sem_update, machineVars,
                 timerVars, readVars, process>>

ServiceWait(c) ==
  /\ service_pc[c] = "wait"
  /\ sem[c] > 0
  /\ sem' = [sem EXCEPT ![c] = @ - 1]
  /\ service_pc' = [service_pc EXCEPT ![c] = "write"]
  /\ UNCHANGED <<state_singleton, key_pressed_global, sem_update, machineVars,
                 timerVars, readVars, process>>

\* *status_local = GO_BACK and the like, whatever the key.
ServiceWrite(c) == service_pc[c] = "write" /\ Fault

Service(c) == ServiceWait(c) \/ ServiceWrite(c)

-----------------------------------------------------------------------------
(* timer_event_thread *)

TimerSwitchMissingCase ==
  /\ timer_pc = "sleep"
  /\ timer_case' = state_singleton
  /\ timer_pc' = IF state_singleton \in {"PH", "MV"} THEN "sample" ELSE "default"
  /\ UNCHANGED <<state_singleton, key_pressed_global, sem, sem_update,
                 machineVars, service_pc, readVars, process>>

TimerSwitch ==
  /\ timer_pc = "sleep"
  /\ timer_case' = state_singleton
  /\ timer_pc' = IF state_singleton \in Channel THEN "sample" ELSE "default"
  /\ UNCHANGED <<state_singleton, key_pressed_global, sem, sem_update,
                 machineVars, service_pc, readVars, process>>

\* The sample of the channel, and the index of its table, are left out.
TimerSample ==
  /\ timer_pc = "sample"
  /\ timer_pc' = "sleep"
  /\ UNCHANGED <<state_singleton, key_pressed_global, sem, sem_update,
                 machineVars, service_pc, timer_case, readVars, process>>

\* ... the timer with millivolt, the last of the enumeration, not the middle one.
TimerStartPh == "PH"
TimerStart == "MV"

TimerDefault ==
  /\ timer_pc = "default"
  /\ state_singleton' = TimerStart
  /\ timer_pc' = "sleep"
  /\ UNCHANGED <<key_pressed_global, sem, sem_update, machineVars, service_pc,
                 timer_case, readVars, process>>

Timer == TimerSwitch \/ TimerSample \/ TimerDefault

-----------------------------------------------------------------------------
(* ascii_read_thread *)

\* enableRAWMode(); it also registers disableRAWMode() with atexit().
EnableRAWMode ==
  /\ read_pc = "start"
  /\ terminal' = "raw"
  /\ read_pc' = "sleep"
  /\ UNCHANGED <<state_singleton, key_pressed_global, sem, sem_update, machineVars,
                 service_pc, timerVars, key_entry, process>>

\* getchar() returns whatever the user typed.
GetChar ==
  /\ read_pc = "sleep"
  /\ key_entry' \in Character
  /\ read_pc' = "entered"
  /\ UNCHANGED <<state_singleton, key_pressed_global, sem, sem_update, machineVars,
                 service_pc, timerVars, terminal, process>>

\* verify_user_input() finds every character good.
StoreKey ==
  /\ read_pc = "entered"
  /\ key_pressed_global' = key_entry
  /\ read_pc' = "sleep"
  /\ UNCHANGED <<state_singleton, sem, sem_update, machineVars, service_pc,
                 timerVars, key_entry, terminal, process>>

-----------------------------------------------------------------------------
Running == process = "running"

Threads ==
  \/ Machine
  \/ \E c \in Channel : Service(c)
  \/ Timer
  \/ EnableRAWMode
  \/ GetChar
  \/ StoreKey

Terminating == ~Running /\ UNCHANGED vars

Next == (Running /\ Threads) \/ Terminating

\* Every thread that can run runs eventually.  The user need not type.
Fairness ==
  /\ WF_vars(Running /\ Machine)
  /\ WF_vars(Running /\ Timer)
  /\ WF_vars(Running /\ (EnableRAWMode \/ StoreKey))
  /\ \A c \in Channel : WF_vars(Running /\ Service(c))

Spec == Init /\ [][Next]_vars /\ Fairness

-----------------------------------------------------------------------------
(* Properties *)

\* The types of the globals, of the program counters and of the locals.
TypeOK ==
  /\ state_singleton \in State_t
  /\ key_pressed_global \in Character
  /\ sem \in [Channel -> Nat]
  /\ sem_update \in [Channel -> Nat]
  /\ machine_pc \in {"sleep", "post", "write", "default", "wait"}
  /\ machine_case \in State_t
  /\ machine_pc \in {"post", "write"} => machine_case \in Channel
  /\ service_pc \in [Channel -> {"wait", "write"}]
  /\ timer_pc \in {"sleep", "sample", "default"}
  /\ timer_case \in State_t
  /\ read_pc \in {"start", "sleep", "entered"}
  /\ key_entry \in Character
  /\ terminal \in {"canonical", "raw"}
  /\ process \in {"running", "killed"}

Requested(c) == sem[c] > 0 \/ service_pc[c] # "wait"

\* The conductivity and the pH service are never asked for anything, whoever
\* sets the first mode, although the machine waits for the answer of one of
\* them; and the service of millivolt is asked once at most.
OnlyMvRequested ==
  /\ \A c \in Channel : Requested(c) => c = "MV"
  /\ sem["MV"] + (IF service_pc["MV"] = "wait" THEN 0 ELSE 1) <= 1

\* The two ends of a run exclude each other: a machine that waits for an answer
\* has asked nobody, so nothing is left that could fault or answer.
WaitsForNobody ==
  machine_pc = "wait" => Running /\ \A c \in Channel : ~Requested(c)

\* The process dies in the service of the mode that the timer thread has set:
\* only if it was faster than the machine.
DiesInTimersMode ==
  ~Running => state_singleton = "MV" /\ machine_case = "MV"

\* The mode is known, and no thread still holds the decision to set it.
Settled ==
  /\ state_singleton \in Channel
  /\ machine_pc # "default"
  /\ timer_pc # "default"

\* Once start-up is over the mode never changes again, whatever the user types.
ModeFixed == [][Settled => Settled' /\ UNCHANGED state_singleton]_vars

\* Every run ends in one of two ways: the process dies, or the machine waits for
\* ever while the timer thread goes on sampling one channel, conductivity or
\* millivolt.
DiesOrHangs ==
  \/ <>~Running
  \/ \E c \in {"COND", "MV"} :
       /\ <>[](machine_pc = "wait" /\ state_singleton = c)
       /\ []<><<TimerSample /\ timer_case = c>>_vars

\* "atexit(&disableRAWMode); // Revert to canonical mode when exiting the
\* program": no terminal is left raw when the program is gone.
RevertsTerminal == ~Running => terminal = "canonical"

=============================================================================
