----------------------------- MODULE Watchdog ------------------------------
(***************************************************************************)
(* watchdog_timer/watchdog_timer.c (4_watchdog_timer_timeout_handler.c is  *)
(* the same text) and the steps before it, 2_watchdog_timer_timeout_default*)
(* and 3_watchdog_timer_timeout_3sec: threads that each print a line, send *)
(* a keep-alive to one device, and sleep for a period of their own.        *)
(*                                                                         *)
(* Time passes in ticks.  A thread that can run gets through its pass      *)
(* within Latency ticks if it is one of the prompt ones; the others may be *)
(* late without limit, or hang.  Lines and error messages are printed to a *)
(* terminal that the user may stop (or a pipe that is full): then printf() *)
(* and perror() block.  The device and its driver are external.  Nothing   *)
(* here sends SIGALRM, so the handler that watchdog_timer.c installs has   *)
(* no action.                                                              *)
(***************************************************************************)
EXTENDS Integers, Sequences

CONSTANTS
  Period,    \* ticks that each thread sleeps: 1 and 2 seconds in the code
  Timeout,   \* the time-out the program sets: 3 seconds in the code
  Default,   \* the time-out the driver starts with (external)
  Latency    \* ticks within which a prompt thread runs

Thread == 1..Len(Period)

ASSUME WatchdogAssumption ==
  /\ Period \in Seq(Nat \ {0}) /\ Period # <<>>
  /\ Timeout \in Nat \ {0} /\ Default \in Nat \ {0}
  /\ Latency \in Nat

\* Who may fail: a thread, or main.
main == 0

VARIABLES
  sets_timeout, \* whether this is a version that sets the time-out: not file 2
  magic,        \* whether the driver keeps the device running after a close that
                \*   was not announced
  prompt,       \* the prompt threads; main is always prompt
  main_pc, next,
  pc,           \* per thread: what it does next
  timer,        \* per thread: ticks left to sleep
  device,       \* "off", "on", or "reset": it has reset the system
  limit, age,   \* the time-out in force; ticks since the last keep-alive
  lag, main_lag,\* ticks that a prompt thread, and main, could have run in this pass
  output,       \* whether printing blocks
  stalled,      \* history: it has blocked
  failed        \* history: whose call has failed

settings == <<sets_timeout, magic, prompt>>
threadVars == <<pc, timer, lag>>
deviceVars == <<device, limit, age>>
outputVars == <<output, stalled>>
vars == <<settings, main_pc, next, main_lag, threadVars, deviceVars, outputVars, failed>>

-----------------------------------------------------------------------------
Init ==
  /\ sets_timeout \in BOOLEAN /\ magic \in BOOLEAN
  /\ prompt \in (SUBSET Thread) \ {{}}
  /\ main_pc = "open" /\ next = 1 /\ main_lag = 0
  /\ pc = [t \in Thread |-> "none"]
  /\ timer = [t \in Thread |-> 0]
  /\ lag = [t \in Thread |-> 0]
  /\ device = "off" /\ limit = Default /\ age = 0
  /\ output = "flows" /\ stalled = FALSE
  /\ failed = {}

\* The process runs on a system that does.
Alive == main_pc # "exited" /\ device # "reset"

\* Whether the process still has the device open, given that main opened it.
IsOpen == main_pc \notin {"exit", "exited"}

\* The device after close(watchdog_fd) or the end of the process: no version
\* announces it by writing 'V'.
Closed == IF magic THEN device ELSE "off"

-----------------------------------------------------------------------------
(* main *)

\* A call of main that fails: what follows it are steps of their own, and the
\* threads go on.
MainFails ==
  /\ main_pc' = "perror"
  /\ failed' = failed \cup {main}

\* open(): the driver starts the device.
Open ==
  /\ main_pc = "open"
  /\ \/ /\ main_pc' = IF sets_timeout THEN "settimeout" ELSE "create"
        /\ device' = "on"
        /\ UNCHANGED failed
     \/ MainFails /\ UNCHANGED device
  /\ UNCHANGED <<settings, next, main_lag, threadVars, limit, age, outputVars>>

\* WDIOC_SETTIMEOUT, by which the driver also counts from zero again.
SetTimeout ==
  /\ main_pc = "settimeout" /\ Alive
  /\ \/ /\ main_pc' = "create"
        /\ limit' = Timeout /\ age' = 0
        /\ UNCHANGED failed
     \/ MainFails /\ UNCHANGED <<limit, age>>
  /\ UNCHANGED <<settings, next, main_lag, threadVars, device, outputVars>>

\* The two calls of pthread_create(): when the second fails, the first thread is
\* at work.
Create ==
  /\ main_pc = "create" /\ Alive
  /\ \/ /\ pc' = [pc EXCEPT ![next] = "print"]
        /\ IF next < Len(Period)
           THEN next' = next + 1 /\ UNCHANGED main_pc
           ELSE main_pc' = "join" /\ UNCHANGED next
        /\ UNCHANGED failed
     \/ MainFails /\ UNCHANGED <<pc, next>>
  /\ UNCHANGED <<settings, main_lag, timer, lag, deviceVars, outputVars>>

\* perror() returns.  There is nothing to close when open() has failed.
MainReports ==
  /\ main_pc = "perror" /\ Alive
  /\ output = "flows"
  /\ main_pc' = IF device = "on" THEN "close" ELSE "exit"
  /\ UNCHANGED <<settings, next, main_lag, threadVars, deviceVars, outputVars, failed>>

\* close(watchdog_fd): keep-alives of a thread fail from now on.
Close ==
  /\ main_pc = "close" /\ Alive
  /\ main_pc' = "exit"
  /\ device' = Closed
  /\ UNCHANGED <<settings, next, main_lag, threadVars, limit, age, outputVars, failed>>

\* exit(), by main or by a thread.
Exit ==
  /\ main_pc' = "exited"
  /\ device' = Closed
  /\ UNCHANGED <<settings, next, main_lag, threadVars, limit, age, outputVars, failed>>

MainExits == main_pc = "exit" /\ Alive /\ Exit

Main == Open \/ SetTimeout \/ Create \/ MainReports \/ Close \/ MainExits

-----------------------------------------------------------------------------
(* thread_A(), thread_B() *)

\* A line that goes nowhere, as with >/dev/null.
PrintDoesNotWait(t) ==
  /\ Alive
  /\ pc[t] = "print" /\ timer[t] = 0
  /\ pc' = [pc EXCEPT ![t] = "pat"]
  /\ UNCHANGED <<settings, main_pc, next, main_lag, timer, lag, deviceVars, outputVars,
                 failed>>

\* sleep() has returned, and printf() does.
PrintLine(t) ==
  /\ Alive
  /\ pc[t] = "print" /\ timer[t] = 0
  /\ output = "flows"
  /\ pc' = [pc EXCEPT ![t] = "pat"]
  /\ UNCHANGED <<settings, main_pc, next, main_lag, timer, lag, deviceVars, outputVars,
                 failed>>

\* A keep-alive, and the thread goes to sleep.
KeepAlive(t) ==
  /\ IsOpen
  /\ age' = 0
  /\ pc' = [pc EXCEPT ![t] = "print"]
  /\ lag' = [lag EXCEPT ![t] = 0]
  /\ UNCHANGED failed

\* A keep-alive whose failure does not end the program.
PatIgnoresFailure(t) ==
  /\ Alive
  /\ pc[t] = "pat"
  /\ timer' = [timer EXCEPT ![t] = Period[t]]
  /\ \/ KeepAlive(t)
     \/ /\ failed' = failed \cup {t}
        /\ pc' = [pc EXCEPT ![t] = "print"]
        /\ lag' = [lag EXCEPT ![t] = 0]
        /\ UNCHANGED age
  /\ UNCHANGED <<settings, main_pc, next, main_lag, device, limit, outputVars>>

\* A thread that goes to sleep for longer than the other.
PatOversleeps(t) ==
  /\ Alive
  /\ pc[t] = "pat"
  /\ \/ KeepAlive(t) /\ timer' = [timer EXCEPT ![t] = Period[t] + Timeout]
     \/ /\ failed' = failed \cup {t}
        /\ pc' = [pc EXCEPT ![t] = "perror"]
        /\ UNCHANGED <<timer, lag, age>>
  /\ UNCHANGED <<settings, main_pc, next, main_lag, device, limit, outputVars>>

\* ioctl() in pat_watchdog(): it succeeds, or the thread has an error to report.
Pat(t) ==
  /\ Alive
  /\ pc[t] = "pat"
  /\ \/ KeepAlive(t) /\ timer' = [timer EXCEPT ![t] = Period[t]]
     \/ /\ failed' = failed \cup {t}
        /\ pc' = [pc EXCEPT ![t] = "perror"]
        /\ UNCHANGED <<timer, lag, age>>
  /\ UNCHANGED <<settings, main_pc, next, main_lag, device, limit, outputVars>>

\* perror() returns; until then, and until exit(), the others go on.
Report(t) ==
  /\ Alive
  /\ pc[t] = "perror"
  /\ output = "flows"
  /\ pc' = [pc EXCEPT ![t] = "exit"]
  /\ UNCHANGED <<settings, main_pc, next, main_lag, timer, lag, deviceVars, outputVars,
                 failed>>

ThreadExits(t) == Alive /\ pc[t] = "exit" /\ Exit

ThreadStep(t) == PrintLine(t) \/ Pat(t) \/ Report(t) \/ ThreadExits(t)

-----------------------------------------------------------------------------
(* The terminal, time and the device (external) *)

StopOutput ==
  /\ Alive /\ output = "flows"
  /\ output' = "stopped" /\ stalled' = TRUE
  /\ UNCHANGED <<settings, main_pc, next, main_lag, threadVars, deviceVars, failed>>

ResumeOutput ==
  /\ Alive /\ output = "stopped"
  /\ output' = "flows"
  /\ UNCHANGED <<settings, main_pc, next, main_lag, threadVars, deviceVars, stalled, failed>>

\* t could take its next step.
Ready(t) ==
  /\ Alive
  /\ \/ pc[t] \in {"pat", "exit"}
     \/ output = "flows" /\ (pc[t] = "perror" \/ (pc[t] = "print" /\ timer[t] = 0))

MainReady ==
  /\ Alive
  /\ \/ main_pc \in {"settimeout", "create", "close", "exit"}
     \/ output = "flows" /\ main_pc = "perror"

\* A tick passes unless that would make a prompt thread late.
Tick ==
  /\ device # "reset"
  /\ \A t \in prompt : Ready(t) => lag[t] < Latency
  /\ MainReady => main_lag < Latency
  /\ timer' = [t \in Thread |-> IF timer[t] > 0 THEN timer[t] - 1 ELSE 0]
  /\ lag' = [t \in Thread |-> IF t \in prompt /\ Ready(t) THEN lag[t] + 1 ELSE lag[t]]
  /\ main_lag' = IF MainReady THEN main_lag + 1 ELSE main_lag
  /\ age' = IF device = "on" THEN age + 1 ELSE age
  /\ device' = IF device = "on" /\ age' >= limit THEN "reset" ELSE device
  /\ UNCHANGED <<settings, main_pc, next, pc, limit, outputVars, failed>>

-----------------------------------------------------------------------------
Next ==
  \/ Main
  \/ \E t \in Thread : ThreadStep(t)
  \/ StopOutput \/ ResumeOutput
  \/ Tick

Spec == Init /\ [][Next]_vars

\* Time passes, and for that main and the prompt threads run.  Nothing is
\* assumed of the others, nor of the user.
FairSpec ==
  /\ Spec
  /\ WF_vars(Tick)
  /\ WF_vars(Main)
  /\ \A t \in Thread : WF_vars(t \in prompt /\ ThreadStep(t))

-----------------------------------------------------------------------------
TypeOK ==
  /\ sets_timeout \in BOOLEAN /\ magic \in BOOLEAN
  /\ prompt \in (SUBSET Thread) \ {{}}
  /\ main_pc \in {"open", "settimeout", "create", "join", "perror", "close", "exit", "exited"}
  /\ next \in Thread
  /\ main_lag \in 0..Latency
  /\ pc \in [Thread -> {"none", "print", "pat", "perror", "exit"}]
  /\ timer \in [Thread -> Nat]
  /\ \A t \in Thread : timer[t] <= Period[t]
  /\ lag \in [Thread -> 0..Latency]
  /\ device \in {"off", "on", "reset"}
  /\ limit \in {Default, Timeout}
  /\ age \in 0..limit
  /\ output \in {"flows", "stopped"}
  /\ stalled \in BOOLEAN /\ failed \subseteq Thread \cup {main}

-----------------------------------------------------------------------------
\* The device does not reset a system whose program is at work and can print, as
\* long as one thread is prompt, whichever it is: the other may be as late as it
\* likes, and nobody will know.
NoFalseAlarm == device = "reset" => main_pc = "exited" \/ stalled

\* If printing blocks for good, both threads fall silent, although none of them
\* waits for the other, and the device does its duty.
CatchesSilence == []<>(output = "flows" \/ device # "on")

\* A call that fails, of main or of a prompt thread, is the end of it, although the
\* others send their keep-alives while the error is reported: either the driver
\* stops the device with the process, or the system is reset.  Only a terminal that
\* is stopped and resumed again and again can keep the error from being reported.
\* Of a late thread the code promises nothing: its failure may be masked for ever.
FailureStops ==
  failed \cap (prompt \cup {main}) # {} ~>
    \/ device # "on"
    \/ []<>(output = "stopped") /\ []<>(output = "flows")

=============================================================================
