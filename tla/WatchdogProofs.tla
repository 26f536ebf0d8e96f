-------------------------- MODULE WatchdogProofs ---------------------------
(***************************************************************************)
(* Theorems about Watchdog, for any number of threads, any periods,        *)
(* time-outs and latency.                                                  *)
(***************************************************************************)
EXTENDS Watchdog, TLAPS

LEMMA Constants ==
  /\ Len(Period) \in Nat \ {0}
  /\ \A t \in Thread : Period[t] \in Nat \ {0}
  /\ Timeout \in Nat \ {0} /\ Default \in Nat \ {0} /\ Latency \in Nat
  BY WatchdogAssumption DEF Thread

-----------------------------------------------------------------------------
(* Type correctness, in parts: the conjuncts of TypeOK by what they are     *)
(* about.                                                                   *)

Place == {"none", "print", "pat", "perror", "exit"}

Settings == /\ sets_timeout \in BOOLEAN /\ magic \in BOOLEAN
            /\ stalled \in BOOLEAN /\ failed \subseteq Thread \cup {main}
            /\ prompt \in (SUBSET Thread) \ {{}}

Threads == /\ pc \in [Thread -> Place]
           /\ timer \in [Thread -> Nat]
           /\ \A t \in Thread : timer[t] <= Period[t]
           /\ lag \in [Thread -> 0..Latency]

\* main before it has made its threads, and on its way out when a call failed.
Starting == {"open", "settimeout", "create"}
Leaving == {"perror", "close", "exit"}

MainOK == /\ main_pc \in Starting \cup {"join"} \cup Leaving \cup {"exited"}
          /\ next \in Thread
          /\ main_lag \in 0..Latency
          /\ output \in {"flows", "stopped"}

\* The count reaches the time-out in the tick that resets the system.
Device == /\ device \in {"off", "on", "reset"}
          /\ limit \in {Default, Timeout}
          /\ age \in 0..limit
          /\ device # "reset" => age < limit
          /\ main_pc = "open" => device = "off"

LEMMA SettingsStep == Settings /\ [Next]_vars => Settings'
<1> SUFFICES ASSUME Settings, [Next]_vars
             PROVE  Settings'
  OBVIOUS
<1>1. UNCHANGED settings
  BY DEF Next, Main, Open, SetTimeout, Create, MainReports, Close, MainExits, Exit,
         ThreadStep, PrintLine, Pat, Report, ThreadExits, StopOutput, ResumeOutput, Tick,
         vars
<1>2. stalled' \in {stalled, TRUE}
  BY DEF Next, Main, Open, SetTimeout, Create, MainReports, Close, MainExits, Exit,
         ThreadStep, PrintLine, Pat, Report, ThreadExits, StopOutput, ResumeOutput, Tick,
         vars, outputVars
<1>3. failed' = failed \/ \E x \in Thread \cup {main} : failed' = failed \cup {x}
  <2>1. CASE Main
    BY <2>1 DEF Main, Open, SetTimeout, Create, MainFails, MainReports, Close, MainExits,
                Exit
  <2>2. ASSUME NEW t \in Thread, ThreadStep(t)
        PROVE  failed' = failed \/ failed' = failed \cup {t}
    BY <2>2 DEF ThreadStep, PrintLine, Pat, KeepAlive, Report, ThreadExits, Exit
  <2>3. CASE StopOutput \/ ResumeOutput \/ Tick \/ UNCHANGED vars
    BY <2>3 DEF StopOutput, ResumeOutput, Tick, vars
  <2> QED
    BY <2>1, <2>2, <2>3 DEF Next
<1>4. failed' \subseteq Thread \cup {main}
  BY <1>3 DEF Settings
<1> QED
  BY <1>1, <1>2, <1>4 DEF Settings, settings

LEMMA ThreadsStep == Threads /\ MainOK /\ [Next]_vars => Threads'
<1> SUFFICES ASSUME Threads, MainOK, [Next]_vars
             PROVE  Threads'
  OBVIOUS
<1> USE DEF Threads, Place
<1>1. CASE UNCHANGED threadVars
  BY <1>1 DEF threadVars
<1>2. CASE Create
  <2>1. pc' \in [Thread -> Place]
    BY <1>2 DEF Create, MainOK
  <2> QED
    BY <1>2, <2>1 DEF Create
<1>3. ASSUME NEW t \in Thread, PrintLine(t) \/ Report(t)
      PROVE  Threads'
  BY <1>3 DEF PrintLine, Report
<1>4. ASSUME NEW t \in Thread, Pat(t)
      PROVE  Threads'
  <2>1. CASE pc' = [pc EXCEPT ![t] = "perror"] /\ UNCHANGED <<timer, lag>>
    BY <2>1
  <2>2. CASE /\ pc' = [pc EXCEPT ![t] = "print"]
             /\ timer' = [timer EXCEPT ![t] = Period[t]]
             /\ lag' = [lag EXCEPT ![t] = 0]
    <3>1. pc' \in [Thread -> Place]
      BY <2>2
    <3>2. timer' \in [Thread -> Nat] /\ \A u \in Thread : timer'[u] <= Period[u]
      BY <2>2, Constants
    <3>3. lag' \in [Thread -> 0..Latency]
      BY <2>2, Constants
    <3> QED
      BY <3>1, <3>2, <3>3
  <2> QED
    BY <1>4, <2>1, <2>2 DEF Pat, KeepAlive
<1>5. CASE Tick
  <2>1. pc' = pc
    BY <1>5 DEF Tick
  <2>2. timer' \in [Thread -> Nat] /\ \A u \in Thread : timer'[u] <= Period[u]
    BY <1>5, Constants DEF Tick
  <2>3. lag' \in [Thread -> 0..Latency]
    <3>1. \A t \in Thread : t \in prompt /\ Ready(t) => lag[t] + 1 \in 0..Latency
      BY <1>5, Constants DEF Tick
    <3> HIDE DEF Threads
    <3>2. \A t \in Thread : lag[t] \in 0..Latency
      BY DEF Threads
    <3>3. lag' = [t \in Thread |-> IF t \in prompt /\ Ready(t) THEN lag[t] + 1 ELSE lag[t]]
      BY <1>5 DEF Tick
    <3> QED
      BY <3>1, <3>2, <3>3
  <2> QED
    BY <2>1, <2>2, <2>3
<1>6. \/ UNCHANGED threadVars \/ Create \/ Tick
      \/ \E t \in Thread : PrintLine(t) \/ Report(t) \/ Pat(t)
  BY DEF Next, Main, Open, SetTimeout, MainReports, Close, MainExits, ThreadStep,
         ThreadExits, Exit, StopOutput, ResumeOutput, vars
<1> QED
  BY <1>1, <1>2, <1>3, <1>4, <1>5, <1>6

LEMMA MainStep == MainOK /\ [Next]_vars => MainOK'
<1> SUFFICES ASSUME MainOK, [Next]_vars
             PROVE  MainOK'
  OBVIOUS
<1> USE DEF MainOK, Starting, Leaving
<1>1. CASE Open
  BY <1>1 DEF Open, MainFails, outputVars
<1>2. CASE SetTimeout
  BY <1>2 DEF SetTimeout, MainFails, outputVars
<1>3. CASE Create
  <2>1. next' \in Thread
    BY <1>3, Constants DEF Create, Thread
  <2> QED
    BY <1>3, <2>1 DEF Create, MainFails, outputVars
<1>8. CASE MainReports \/ Close \/ MainExits
  BY <1>8 DEF MainReports, Close, MainExits, Exit, outputVars
<1>4. ASSUME NEW t \in Thread, ThreadStep(t)
      PROVE  MainOK'
  BY <1>4 DEF ThreadStep, PrintLine, Pat, Report, ThreadExits, Exit, outputVars
<1>5. CASE StopOutput \/ ResumeOutput
  BY <1>5 DEF StopOutput, ResumeOutput
<1>6. CASE Tick
  <2>1. main_lag' \in 0..Latency
    BY <1>6, Constants DEF Tick
  <2> QED
    BY <1>6, <2>1 DEF Tick, outputVars
<1>7. CASE UNCHANGED vars
  BY <1>7 DEF vars, outputVars
<1> QED
  BY <1>1, <1>2, <1>3, <1>4, <1>5, <1>6, <1>7, <1>8 DEF Next, Main

\* However the driver takes a close, it does not reset the system there and then.
LEMMA ClosedDevice == Closed \in {device, "off"}
  BY DEF Closed

LEMMA DeviceStep == Device /\ [Next]_vars => Device'
<1> SUFFICES ASSUME Device, [Next]_vars
             PROVE  Device'
  OBVIOUS
<1> USE DEF Device
<1>1. CASE Tick
  <2>1. /\ device' \in {"off", "on", "reset"} /\ limit' = limit
        /\ age' \in Nat /\ age' <= limit
        /\ device' # "reset" => age' < limit
        /\ main_pc' = "open" => device' = "off"
    BY <1>1, Constants DEF Tick
  <2> QED
    BY <2>1, Constants
<1>2. CASE Open
  BY <1>2, Constants DEF Open, MainFails
<1>3. CASE SetTimeout
  BY <1>3, Constants DEF SetTimeout, MainFails, Alive
<1>4. CASE Create
  BY <1>4 DEF Create, MainFails, deviceVars, Alive
<1>7. CASE MainReports
  BY <1>7 DEF MainReports, deviceVars, Alive
<1>8. CASE Close \/ MainExits
  <2>1. /\ UNCHANGED <<limit, age>> /\ device' \in {device, "off"}
        /\ device # "reset" /\ main_pc' # "open"
    BY <1>8, ClosedDevice DEF Close, MainExits, Exit, Alive
  <2> QED
    BY <2>1
<1>5. ASSUME NEW t \in Thread, ThreadStep(t)
      PROVE  Device'
  <2>1. /\ limit' = limit /\ age' \in {age, 0}
        /\ device' \in {device, "off"} /\ device # "reset"
        /\ main_pc' \in {main_pc, "exited"}
    BY <1>5, ClosedDevice DEF ThreadStep, PrintLine, Pat, KeepAlive, Report, ThreadExits,
                              Exit, deviceVars, Alive
  <2> QED
    BY <2>1, Constants
<1>6. CASE StopOutput \/ ResumeOutput \/ UNCHANGED vars
  BY <1>6 DEF StopOutput, ResumeOutput, vars, deviceVars
<1> QED
  BY <1>1, <1>2, <1>3, <1>4, <1>5, <1>6, <1>7, <1>8 DEF Next, Main

TypeInv == Settings /\ Threads /\ MainOK /\ Device

LEMMA TypeInvHolds == Spec => []TypeInv
<1>1. Init => TypeInv
  <2> SUFFICES ASSUME Init
               PROVE  TypeInv
    OBVIOUS
  <2>1. Settings
    BY DEF Init, Settings
  <2>2. Threads
    BY Constants DEF Init, Threads, Place
  <2>3. MainOK
    BY Constants DEF Init, MainOK, Starting, Thread
  <2>4. Device
    BY Constants DEF Init, Device
  <2> QED
    BY <2>1, <2>2, <2>3, <2>4 DEF TypeInv
<1>2. TypeInv /\ [Next]_vars => TypeInv'
  BY SettingsStep, ThreadsStep, MainStep, DeviceStep DEF TypeInv
<1> QED
  BY <1>1, <1>2, PTL DEF Spec

\* Places, counts and the device stay in their types.
THEOREM TypeCorrect == Spec => []TypeOK
<1>1. TypeInv => TypeOK
  BY DEF TypeInv, Settings, Threads, Place, MainOK, Starting, Leaving, Device, TypeOK
<1> QED
  BY <1>1, TypeInvHolds, PTL

-----------------------------------------------------------------------------
(* No false alarm *)

\* Printing does not block before the user has made it.
Flows == ~stalled => output = "flows"

\* The threads below next are there, and all of them once main is done; the others
\* are not.
Created ==
  \A t \in Thread :
    /\ t < next \/ main_pc = "join" => pc[t] # "none"
    /\ t >= next /\ main_pc \notin {"join", "exited"} => pc[t] = "none"
    /\ pc[t] = "none" => timer[t] = 0 /\ lag[t] = 0

\* The device has counted no further than a prompt thread has slept and lagged,
\* nor, before all threads are there, than main has lagged.
OnTime ==
  ~stalled /\ main_pc # "exited" =>
    /\ device # "reset"
    /\ main_pc \in Starting \cup Leaving => age <= main_lag
    /\ \A t \in prompt : pc[t] # "none" => age <= (Period[t] - timer[t]) + lag[t]

LEMMA FlowsStep == Flows /\ [Next]_vars => Flows'
  BY DEF Flows, Next, Main, Open, SetTimeout, Create, MainReports, Close, MainExits, Exit,
         ThreadStep, PrintLine, Pat, Report, ThreadExits, StopOutput, ResumeOutput, Tick,
         vars, outputVars

LEMMA CreatedStep == TypeInv /\ Created /\ [Next]_vars => Created'
<1> SUFFICES ASSUME TypeInv, Created, [Next]_vars, NEW t \in Thread
             PROVE  /\ t < next' \/ main_pc' = "join" => pc'[t] # "none"
                    /\ t >= next' /\ main_pc' \notin {"join", "exited"} => pc'[t] = "none"
                    /\ pc'[t] = "none" => timer'[t] = 0 /\ lag'[t] = 0
  BY DEF Created
<1> USE DEF TypeInv, Threads, Place, MainOK, Created, Thread
<1>1. CASE Create
  BY <1>1, Constants DEF Create, MainFails
<1>2. CASE /\ UNCHANGED <<threadVars, next>>
           /\ main_pc' = "join" => main_pc = "join"
           /\ main_pc \in {"join", "exited"} => main_pc' \in {"join", "exited"}
  BY <1>2 DEF threadVars
<1>3. ASSUME NEW u \in Thread, ThreadStep(u)
      PROVE  /\ t < next' \/ main_pc' = "join" => pc'[t] # "none"
             /\ t >= next' /\ main_pc' \notin {"join", "exited"} => pc'[t] = "none"
             /\ pc'[t] = "none" => timer'[t] = 0 /\ lag'[t] = 0
  BY <1>3 DEF ThreadStep, PrintLine, Pat, KeepAlive, Report, ThreadExits, Exit, threadVars
<1>4. CASE Tick
  BY <1>4 DEF Tick, Ready
<1>5. \/ Create \/ Tick
      \/ /\ UNCHANGED <<threadVars, next>>
         /\ main_pc' = "join" => main_pc = "join"
         /\ main_pc \in {"join", "exited"} => main_pc' \in {"join", "exited"}
      \/ \E u \in Thread : ThreadStep(u)
  BY DEF Next, Main, Open, SetTimeout, MainFails, MainReports, Close, MainExits, Exit,
         StopOutput, ResumeOutput, vars, threadVars
<1> QED
  BY <1>1, <1>2, <1>3, <1>4, <1>5

\* If every thread's period and the latency add up to less than either time-out,
\* one prompt thread is enough to keep the system up, and main is quick enough
\* to start it.
THEOREM NoFalseAlarms ==
  ASSUME \A t \in Thread : /\ Latency <= Period[t]
                           /\ Period[t] + Latency < Timeout
                           /\ Period[t] + Latency < Default
  PROVE  Spec => []NoFalseAlarm
<1> DEFINE AlarmInv == TypeInv /\ Flows /\ Created /\ OnTime
<1>1. Init => Flows /\ Created /\ OnTime
  BY DEF Init, Flows, Created, OnTime, Thread
<1>2. TypeInv /\ TypeInv' /\ Flows /\ Created /\ OnTime /\ [Next]_vars => OnTime'
  <2> SUFFICES ASSUME TypeInv, TypeInv', Flows, Created, OnTime, [Next]_vars,
                      ~stalled', main_pc' # "exited"
               PROVE  /\ device' # "reset"
                      /\ main_pc' \in Starting \cup Leaving => age' <= main_lag'
                      /\ \A t \in prompt' : pc'[t] # "none" =>
                           age' <= (Period[t] - timer'[t]) + lag'[t]
    BY DEF OnTime
  <2>1. ~stalled /\ main_pc # "exited" /\ prompt' = prompt
    BY DEF Next, Main, Open, SetTimeout, Create, MainReports, Close, MainExits, Exit,
           ThreadStep, PrintLine, Pat, Report, ThreadExits, StopOutput, ResumeOutput,
           Tick, vars, settings, outputVars, Alive
  <2>2. /\ device # "reset" /\ output = "flows"
        /\ main_pc \in Starting \cup Leaving => age <= main_lag
        /\ \A t \in prompt : pc[t] # "none" => age <= (Period[t] - timer[t]) + lag[t]
    BY <2>1 DEF OnTime, Flows
  <2>3. /\ age \in Nat /\ age' \in Nat
        /\ limit \in {Default, Timeout} /\ limit' \in {Default, Timeout}
        /\ main_lag \in 0..Latency /\ main_lag' \in 0..Latency
    BY Constants DEF TypeInv, Device, MainOK
  <2>4. \A t \in Thread :
          /\ timer[t] \in Nat /\ timer'[t] \in Nat /\ timer'[t] <= Period[t]
          /\ lag[t] \in 0..Latency /\ lag'[t] \in 0..Latency
          /\ Period[t] \in Nat
    BY Constants DEF TypeInv, Threads
  <2>5. prompt \in (SUBSET Thread) \ {{}}
    BY DEF TypeInv, Settings
  <2> DEFINE Goal == /\ device' # "reset"
                     /\ main_pc' \in Starting \cup Leaving => age' <= main_lag'
                     /\ \A t \in prompt' : pc'[t] # "none" =>
                          age' <= (Period[t] - timer'[t]) + lag'[t]
  <2>6. CASE Open
    <3>1. device' \in {"on", device} /\ UNCHANGED <<age, main_lag, threadVars>>
          /\ main_pc \in Starting
      BY <2>6 DEF Open, MainFails, Starting
    <3> QED
      BY <2>1, <2>2, <3>1 DEF threadVars
  <2>7. CASE SetTimeout
    <3>1. /\ age' \in {age, 0} /\ device' = device
          /\ UNCHANGED <<main_lag, threadVars>>
          /\ main_pc \in Starting
      BY <2>7 DEF SetTimeout, MainFails, Starting
    <3>2. \A t \in Thread : timer'[t] <= Period[t] /\ lag'[t] \in Nat
      BY <2>4, Constants
    <3> QED
      BY <2>1, <2>2, <2>3, <2>4, <2>5, <3>1, <3>2, Constants DEF threadVars
  <2>14. CASE MainReports \/ Close
    <3>1. /\ UNCHANGED <<age, main_lag, threadVars>>
          /\ device' \in {device, "off"}
          /\ main_pc \in Leaving
      BY <2>14, ClosedDevice DEF MainReports, Close, deviceVars, Leaving
    <3> QED
      BY <2>1, <2>2, <3>1 DEF threadVars
  <2>8. CASE Create
    <3>1. /\ UNCHANGED <<age, device, main_lag, timer, lag>>
          /\ pc' \in {pc, [pc EXCEPT ![next] = "print"]}
          /\ main_pc \in Starting
      BY <2>8 DEF Create, deviceVars, Starting
    <3>2. next \in Thread /\ pc \in [Thread -> Place]
      BY DEF TypeInv, MainOK, Threads
    <3>3. age <= main_lag
      BY <2>2, <3>1
    <3>4. ASSUME NEW t \in prompt, pc'[t] # "none"
          PROVE  age <= (Period[t] - timer[t]) + lag[t]
      <4>1. CASE pc[t] # "none"
        BY <2>2, <4>1
      <4>2. CASE pc[t] = "none"
        <5>1. timer[t] = 0 /\ lag[t] = 0
          BY <2>5, <4>2 DEF Created
        <5>2. Latency <= Period[t] /\ Period[t] \in Nat
          BY <2>4, <2>5
        <5> QED
          BY <2>3, <3>3, <5>1, <5>2, Constants
      <4> QED
        BY <4>1, <4>2
    <3> QED
      BY <2>1, <2>2, <3>1, <3>3, <3>4
  <2>9. ASSUME NEW u \in Thread, PrintLine(u) \/ Report(u)
        PROVE  Goal
    <3>1. /\ UNCHANGED <<main_pc, main_lag, timer, lag, age, device>>
          /\ pc[u] # "none" /\ \E p \in Place : pc' = [pc EXCEPT ![u] = p]
      BY <2>9 DEF PrintLine, Report, deviceVars, Place
    <3>2. \A t \in Thread : pc'[t] # "none" => pc[t] # "none"
      BY <3>1 DEF TypeInv, Threads
    <3> QED
      BY <2>1, <2>2, <2>5, <3>1, <3>2
  <2>10. ASSUME NEW u \in Thread, Pat(u)
         PROVE  Goal
    <3>1. UNCHANGED <<device, main_pc, main_lag>>
      BY <2>10 DEF Pat
    <3>2. CASE age' = 0
      BY <2>1, <2>2, <2>3, <2>4, <2>5, <3>1, <3>2, Constants
    <3>3. CASE pc' = [pc EXCEPT ![u] = "perror"] /\ UNCHANGED <<timer, lag, age>>
      <4>1. \A t \in Thread : pc'[t] # "none" => pc[t] # "none"
        BY <2>10, <3>3 DEF Pat, TypeInv, Threads
      <4> QED
        BY <2>1, <2>2, <2>5, <3>1, <3>3, <4>1
    <3> QED
      BY <2>10, <3>2, <3>3 DEF Pat, KeepAlive
  <2>11. CASE ResumeOutput \/ UNCHANGED vars
    <3>1. UNCHANGED <<main_pc, main_lag, threadVars, deviceVars>>
      BY <2>11 DEF ResumeOutput, vars
    <3> QED
      BY <2>1, <2>2, <3>1 DEF threadVars, deviceVars
  <2>12. CASE Tick
    <3>1. /\ UNCHANGED <<main_pc, pc, limit>>
          /\ age' \in {age, age + 1}
          /\ age' = age + 1 => device = "on"
          /\ device' = "reset" => device = "on" /\ age' >= limit
      BY <2>2, <2>3, <2>12 DEF Tick
    <3>2. main_pc \in (Starting \cup Leaving) \ {"open"} => main_lag' = main_lag + 1
      BY <2>1, <2>2, <2>12 DEF Tick, MainReady, Alive, Starting, Leaving
    <3>3. main_pc = "open" => age' = age /\ main_lag' = main_lag /\ device = "off"
      BY <2>12 DEF Tick, MainReady, TypeInv, Device
    <3>4. main_pc \in Starting \cup Leaving => age' <= main_lag'
      BY <2>2, <2>3, <3>1, <3>2, <3>3, Constants
    <3>5. ASSUME NEW t \in prompt, pc[t] # "none"
          PROVE  age' <= (Period[t] - timer'[t]) + lag'[t]
      <4>1. t \in Thread /\ pc[t] \in Place \ {"none"}
        BY <2>5, <3>5 DEF TypeInv, Threads
      <4>2. age <= (Period[t] - timer[t]) + lag[t]
        BY <2>2, <3>5
      <4>3. /\ timer'[t] = IF timer[t] > 0 THEN timer[t] - 1 ELSE 0
            /\ lag'[t] = IF Ready(t) THEN lag[t] + 1 ELSE lag[t]
        BY <2>12, <4>1 DEF Tick
      <4>4. timer[t] = 0 => Ready(t)
        BY <2>1, <2>2, <4>1 DEF Ready, Alive, Place
      <4>5. /\ timer[t] \in Nat /\ lag[t] \in Nat /\ Period[t] \in Nat
        BY <2>4, <4>1, Constants
      <4>6. CASE timer[t] = 0
        BY <2>3, <3>1, <4>2, <4>3, <4>4, <4>5, <4>6
      <4>7. CASE timer[t] > 0
        <5>1. timer'[t] = timer[t] - 1 /\ lag'[t] \in {lag[t], lag[t] + 1}
          BY <4>3, <4>7
        <5> QED
          BY <2>3, <3>1, <4>2, <4>5, <5>1
      <4> QED
        BY <4>5, <4>6, <4>7
    <3>6. device' # "reset"
      <4>1. PICK t \in prompt : t \in Thread
        BY <2>5
      <4>2. /\ Period[t] \in Nat /\ timer'[t] \in Nat /\ lag'[t] \in 0..Latency
            /\ Latency <= Period[t] /\ Period[t] + Latency < limit
        BY <2>3, <2>4, <4>1
      <4>3. CASE pc[t] # "none"
        <5>1. age' <= (Period[t] - timer'[t]) + lag'[t]
          BY <3>5, <4>3
        <5>2. age' < limit
          BY <2>3, <4>2, <5>1, Constants
        <5> QED
          BY <2>3, <3>1, <5>2, Constants
      <4>4. CASE pc[t] = "none"
        <5>1. main_pc \in Starting \cup Leaving
          BY <2>1, <4>1, <4>4 DEF Created, TypeInv, MainOK
        <5>2. age' < limit
          BY <2>3, <3>4, <4>2, <5>1, Constants
        <5> QED
          BY <2>3, <3>1, <5>2, Constants
      <4> QED
        BY <4>3, <4>4
    <3> QED
      BY <2>1, <3>1, <3>4, <3>5, <3>6
  <2>13. ~StopOutput /\ ~MainExits /\ \A t \in Thread : ~ThreadExits(t)
    BY DEF StopOutput, MainExits, ThreadExits, Exit
  <2> QED
    BY <2>6, <2>7, <2>8, <2>9, <2>10, <2>11, <2>12, <2>13, <2>14
    DEF Next, Main, ThreadStep, OnTime
<1>3. OnTime => NoFalseAlarm
  BY DEF OnTime, NoFalseAlarm
<1> QED
  BY <1>1, <1>2, <1>3, TypeInvHolds, FlowsStep, CreatedStep, PTL DEF Spec

\* The program's own numbers, at whatever resolution time is measured: threads
\* that sleep one and two seconds and a time-out of three, in a driver that starts
\* with no less.  A prompt thread may be anything short of a second late.
COROLLARY LessThanASecondLate ==
  ASSUME NEW Second \in Nat \ {0},
         Period = <<Second, 2 * Second>>,
         Timeout = 3 * Second, Default >= Timeout,
         Latency < Second
  PROVE  Spec => []NoFalseAlarm
<1>1. Thread = {1, 2}
  BY DEF Thread
<1>2. ASSUME NEW t \in Thread
      PROVE  /\ Latency <= Period[t]
             /\ Period[t] + Latency < Timeout
             /\ Period[t] + Latency < Default
  <2>1. Period[t] \in {Second, 2 * Second}
    BY <1>1
  <2> QED
    BY <2>1, Constants
<1> QED
  BY <1>2, NoFalseAlarms

-----------------------------------------------------------------------------
(* Silence *)

\* A thread whose keep-alive failed is reporting it or leaving, for as long as the
\* process lives, and it is not going back: keep-alives come from the others, and
\* from them only until main has closed the device or anybody has left.  After the
\* end of the process each tick brings the device nearer to its limit.  How long
\* the others go on in the meantime is a matter of time, and not stated here.
THEOREM FailedStaySilent ==
  Spec => /\ [](\A t \in Thread : t \in failed <=> pc[t] \in {"perror", "exit"})
          /\ [][age' < age =>
                  \/ main_pc = "settimeout"
                  \/ /\ main_pc \notin {"exit", "exited"}
                     /\ \E t \in Thread \ failed : Pat(t)]_vars
          /\ [][main_pc = "exited" =>
                  /\ UNCHANGED <<main_pc, pc, limit, failed>>
                  /\ age' = IF device = "on" THEN age + 1 ELSE age
                  /\ device' = "on" => device = "on" /\ age' < limit]_vars
<1> DEFINE Reporting == \A t \in Thread : t \in failed <=> pc[t] \in {"perror", "exit"}
           Sent == age' < age =>
                     \/ main_pc = "settimeout"
                     \/ /\ main_pc \notin {"exit", "exited"}
                        /\ \E t \in Thread \ failed : Pat(t)
           Silent == /\ UNCHANGED <<main_pc, pc, limit, failed>>
                     /\ age' = IF device = "on" THEN age + 1 ELSE age
                     /\ device' = "on" => device = "on" /\ age' < limit
<1>1. Init => Reporting
  BY DEF Init
<1>2. TypeInv /\ Created /\ Reporting /\ [Next]_vars => Reporting'
  <2> SUFFICES ASSUME TypeInv, Created, Reporting, [Next]_vars, NEW u \in Thread
               PROVE  u \in failed' <=> pc'[u] \in {"perror", "exit"}
    OBVIOUS
  <2> USE DEF Thread, main
  <2>1. pc \in [Thread -> Place] /\ u # main /\ next \in Thread
    BY Constants DEF TypeInv, Threads, MainOK
  <2>2. CASE UNCHANGED <<pc, failed>>
    BY <2>2
  <2>3. CASE UNCHANGED pc /\ MainFails
    BY <2>1, <2>3 DEF MainFails
  <2>4. CASE Create
    BY <2>1, <2>4 DEF Create, MainFails, Created
  <2>5. ASSUME NEW t \in Thread, Pat(t)
        PROVE  u \in failed' <=> pc'[u] \in {"perror", "exit"}
    BY <2>1, <2>5 DEF Pat, KeepAlive
  <2>6. ASSUME NEW t \in Thread, PrintLine(t) \/ Report(t)
        PROVE  u \in failed' <=> pc'[u] \in {"perror", "exit"}
    BY <2>1, <2>6 DEF PrintLine, Report
  <2>7. \/ UNCHANGED <<pc, failed>> \/ Create
        \/ UNCHANGED pc /\ MainFails
        \/ \E t \in Thread : Pat(t) \/ PrintLine(t) \/ Report(t)
    BY DEF Next, Main, Open, SetTimeout, MainReports, Close, MainExits, Exit, ThreadStep,
           ThreadExits, StopOutput, ResumeOutput, Tick, vars, threadVars
  <2> QED
    BY <2>2, <2>3, <2>4, <2>5, <2>6, <2>7
<1>3. TypeInv /\ Reporting /\ [Next]_vars => [Sent]_vars
  <2> SUFFICES ASSUME TypeInv, Reporting, Next, age' < age
               PROVE  \/ main_pc = "settimeout"
                      \/ /\ main_pc \notin {"exit", "exited"}
                         /\ \E t \in Thread \ failed : Pat(t)
    OBVIOUS
  <2>1. age \in Nat
    BY Constants DEF TypeInv, Device
  <2>2. \/ SetTimeout \/ age' \in {age, age + 1}
        \/ \E t \in Thread : Pat(t) /\ IsOpen
    BY DEF Next, Main, Open, Create, MainReports, Close, MainExits, Exit, ThreadStep,
           PrintLine, Pat, KeepAlive, Report, ThreadExits, StopOutput, ResumeOutput, Tick,
           deviceVars
  <2>3. SetTimeout \/ \E t \in Thread : Pat(t) /\ IsOpen
    BY <2>1, <2>2
  <2>4. CASE SetTimeout
    BY <2>4 DEF SetTimeout
  <2>5. ASSUME NEW t \in Thread, Pat(t), IsOpen
        PROVE  /\ main_pc \notin {"exit", "exited"}
               /\ t \in Thread \ failed /\ pc[t] = "pat"
    BY <2>5 DEF IsOpen, Pat
  <2> QED
    BY <2>3, <2>4, <2>5
<1>4. TypeInv /\ TypeInv' /\ [Next]_vars => [main_pc = "exited" => Silent]_vars
  <2> SUFFICES ASSUME TypeInv, TypeInv', Next, main_pc = "exited", ~UNCHANGED vars
               PROVE  Silent
    OBVIOUS
  <2>1. Tick
    BY DEF Next, Main, Open, SetTimeout, Create, MainReports, Close, MainExits, ThreadStep,
           PrintLine, Pat, Report, ThreadExits, StopOutput, ResumeOutput, Alive
  <2>2. device' = "on" => age' < limit'
    BY DEF TypeInv, Device
  <2> QED
    BY <2>1, <2>2 DEF Tick
<1>5. Init => Created
  BY DEF Init, Created, Thread
<1> QED
  BY <1>1, <1>2, <1>3, <1>4, <1>5, CreatedStep, TypeInvHolds, PTL DEF Spec

\* The threads that have printed their line and not yet sent their keep-alive.
AboutToPat == {t \in Thread : pc[t] = "pat"}

\* While printing blocks no thread gets to its keep-alive that is not there yet:
\* each of them can send one more at most, and apart from those, and from main's
\* setting of the time-out, nothing makes the device count from zero again.
THEOREM StoppedOutputSilences ==
  Spec => [][output = "stopped" =>
               /\ AboutToPat' \subseteq AboutToPat
               /\ age' < age => AboutToPat' # AboutToPat \/ main_pc = "settimeout"]_vars
<1> DEFINE Fewer == AboutToPat' \subseteq AboutToPat
           Silent == age' < age => AboutToPat' # AboutToPat \/ main_pc = "settimeout"
<1>1. TypeInv /\ [Next]_vars => [output = "stopped" => Fewer /\ Silent]_vars
  <2> SUFFICES ASSUME TypeInv, Next, output = "stopped"
               PROVE  Fewer /\ Silent
    OBVIOUS
  <2>1. age \in Nat /\ pc \in [Thread -> Place]
    BY Constants DEF TypeInv, Device, Threads
  <2>2. CASE Open \/ ResumeOutput \/ StopOutput
    <3>1. UNCHANGED <<pc, age>>
      BY <2>2 DEF Open, ResumeOutput, StopOutput, threadVars, deviceVars
    <3> QED
      BY <2>1, <3>1 DEF AboutToPat
  <2>3. CASE SetTimeout
    BY <2>3 DEF SetTimeout, threadVars, AboutToPat
  <2>4. CASE Create
    <3>1. age' = age /\ (pc' = pc \/ pc' = [pc EXCEPT ![next] = "print"])
      BY <2>4 DEF Create, deviceVars
    <3> QED
      BY <2>1, <3>1 DEF AboutToPat
  <2>7. CASE MainReports \/ Close \/ MainExits
    BY <2>1, <2>7 DEF MainReports, Close, MainExits, Exit, threadVars, deviceVars, AboutToPat
  <2>5. CASE Tick
    <3>1. pc' = pc /\ age' \in {age, age + 1}
      BY <2>5 DEF Tick
    <3> QED
      BY <2>1, <3>1 DEF AboutToPat
  <2>6. ASSUME NEW t \in Thread, ThreadStep(t)
        PROVE  Fewer /\ Silent
    <3>1. Pat(t) \/ UNCHANGED <<pc, age>>
      BY <2>6 DEF ThreadStep, PrintLine, Report, ThreadExits, Exit, threadVars
    <3>2. CASE Pat(t)
      <4>1. pc[t] = "pat" /\ (pc' = [pc EXCEPT ![t] = "print"] \/ pc' = [pc EXCEPT ![t] = "perror"])
        BY <3>2 DEF Pat, KeepAlive
      <4> QED
        BY <2>1, <4>1 DEF AboutToPat
    <3> QED
      BY <2>1, <3>1, <3>2 DEF AboutToPat
  <2> QED
    BY <2>2, <2>3, <2>4, <2>5, <2>6, <2>7 DEF Next, Main
<1> QED
  BY <1>1, TypeInvHolds, PTL DEF Spec

=============================================================================
