# Verification of Linux_Tutorial

The repository is a set of small C programs that teach POSIX threads, mutexes,
semaphores, timers and signals. Each program stands alone: there is no library
they share, so the "components" below are programs, and what is interesting in
each of them is what its threads may do to each other through unprotected
globals, mutexes, semaphores and signals.

## 1. Inventory

### Keyboard state machine — `StateMc_pThread_Controller/StateMc_pThread.c`

| | |
|---|---|
| State | `state_singleton` (mode: unknown, conductivity, pH, millivolt), `key_pressed_global`, one reading and one `uint32_t` index per channel; none is protected by a lock |
| Threads | `state_machine_thread` switches on the mode, lets a service function load the key, clear it and return a status, then writes the next mode; `ascii_read_thread` reads, verifies and stores keys; `timer_event_thread` takes the next sample of the mode's channel, and sets an unknown mode |
| Interaction | shared globals only; `sleep()` paces the threads, `exit()` runs the handler that restores the terminal |
| Hard | the key is loaded, then cleared, in two statements while the reader stores; two threads set an unknown mode; the machine writes the mode from the `case` it entered, however old |
| Correct when | no key turns the dial twice; after start-up each key taken moves the mode one step on its ring; the start-up race ends; a waiting key is served; samples come in order |

### Keyboard state machine with a sticky key — `StateMc_pThread_Timer_Controller/StateMc_pThread_Timer.c`

The ancestor of the previous program. The key is never cleared, every
character is a key, the timer thread starts an unknown mode at millivolt and the
machine at conductivity, and the timer thread loops `while (!ESCPressed)`.
Correct when the disagreement is confined to start-up and the mode follows the
last key.

### State machine with semaphores — `StateMc_pThread_Sem_Controller/StateMc_pThread_Sem.c`

The machine posts a semaphore to the service thread of the current mode and
waits for the answer; the services write a status through their thread argument.
The argument that `main` passes is NULL, and the machine always waits for the
conductivity service's answer whatever mode it served. Correct when every
request is answered and the status read is the one of that request.

### The mutex programs — `mutex_nested`, `mutex_deadlock` (two files), `mutex_sharedVariable_pThread`

| | |
|---|---|
| State | one or two mutexes, `sharedVariable`, two loop counters per thread, main's join loop and `ret` |
| Threads | two, each five times: lock (both mutexes), increment `sharedVariable` 10000 times, print it, unlock in reverse; main creates them and joins both, in a loop of five (nested, deadlock) or once, after which it destroys the mutex (sharedVariable) |
| Interaction | mutexes, the unprotected-looking `sharedVariable++`, `pthread_join` |
| Hard | lock order (the same in `mutex_nested`, opposite in `mutex_deadlock`), lost updates, mutexes without hand-over, joining a thread that was joined before, detection of a deadlock by a thread that waits for the deadlocked ones |
| Correct when | no increment is lost; ordered locks never deadlock and every thread ends; a stop is a deadlock and nothing else; mutexes are destroyed only when free; the message "Deadlock detected" tells the truth |

### The programs with timers — `ping_pong_pThread_withTimer` (and `..._semArg`), `chatGPT_3Threads_withTimers`, `chatGPT_3Threads_withAlarm`

| | |
|---|---|
| State | a semaphore per thread, the timers, signals that are pending, a loop counter per thread, thread ids that may stay uninitialised |
| Threads | two or three that wait on a semaphore and print a line, for ever or five times; `main`, which creates threads and timers and joins; for `SIGEV_THREAD` the C library's helper and a thread for each handler |
| Interaction | a time-out reaches a handler (a thread of its own, or a signal delivered to any thread of the process), the handler posts the semaphore, the thread wakes |
| Hard | threads, handlers and timers run at their own pace; a signal handler interrupts the `sem_wait` of a thread it was not meant for, whose result is ignored; `alarm` cancels the alarm before; creation of the threads may fail for lack of a privilege, and nobody looks |
| Correct when | no time-out is lost between timer and thread but the kernel's overruns; each is handled, once; a thread runs only on behalf of a time-out; the program ends when its threads have done their passes (it never does) |

### Watchdog — `watchdog_timer/watchdog_timer.c`, and four files that are earlier steps or copies of it

| | |
|---|---|
| State | one device: on or off, its time-out, the time since the last keep-alive; two sleeping threads |
| Threads | `thread_A` prints, sends a keep-alive and sleeps one second; `thread_B` the same with two |
| Interaction | both send to one device; a call that fails, in a thread or in `main`, is reported with `perror` and then ends the process, and until then the others go on; the device resets the system when nobody sends for the time-out |
| Hard | periods, latency and time-out against each other; one thread masks the other; `printf` and `perror` may block; `exit` without the "magic" `V` leaves the device running |
| Correct when | no reset while the program works; a reset when it does not |

### Keyboard thread with ESC — `Basic_pThread_keyboard/Basic_pThread.c`

A reader waits for ESC and sets `ESCPressed`, a printing thread polls it; `main` joins
the printer, then the reader. The reader puts the terminal in raw mode, an
`atexit` handler restores it. Correct when ESC ends all three and restores the terminal;
hard at the end of input, where `getchar` returns EOF for ever, and when a signal comes.

### The rest

- `chatGPT_Timer`: a periodic timer whose handler prints.
- `ping_pong`, `ping_pong_pThread`, `ping_pong_pThread_priority`: counting loops
  that share nothing. `ping_pong_pThread.c:31` dereferences an uninitialised
  pointer, and the priority program's `pthread_setschedparam` has no effect;
  neither is a matter of interleaving.
- `Cpp_Example`: one file, with nothing in it.

`PROJECT.json` lists all of them, and under `hazards` what is hard to test in
each, at its line.

## 2. Modules

| Module | Models | Uses |
|---|---|---|
| `ModeRing` | the ring of modes and what a press does to it | |
| `KeyDial` | abstract specification: what a keyboard-driven mode controller promises, no threads in it | `ModeRing` |
| `StickyDial` | abstract specification: the same for a key that stays down until another replaces it | `ModeRing` |
| `AtomicRounds` | abstract specification: threads whose iterations happen at one moment each | |
| `TimeOuts` | abstract specification: time-outs that pay for passes of a loop, no semaphores, signals or handlers in it | |
| `StateMc` | `StateMc_pThread.c` | `KeyDial` through a refinement mapping |
| `StateMcProofs` | theorems about `StateMc` | `StateMc` |
| `TimerStateMc` | `StateMc_pThread_Timer.c` | `StickyDial` through a refinement mapping |
| `TimerStateMcProofs` | theorems about it | `TimerStateMc` |
| `SemStateMc` | `StateMc_pThread_Sem.c`, up to the store that ends the process | |
| `SemStateMcProofs` | theorems about it | `SemStateMc` |
| `LockOrder` | the mutex programs, for any number of threads and any lock orders | `AtomicRounds` through a refinement mapping |
| `MCLockOrder` | the lock orders of the three programs | `LockOrder` |
| `LockOrderProofs` | theorems about `LockOrder` | `LockOrder` |
| `TimedSemaphores` | the programs with timers: any number of threads, timers that are periodic or not, three ways to be notified | `TimeOuts` through a refinement mapping |
| `MCTimedSemaphores` | the four programs | `TimedSemaphores` |
| `TimedSemaphoresProofs` | theorems about `TimedSemaphores` and the four programs | `MCTimedSemaphores` |
| `Watchdog` | `watchdog_timer.c` and files 2 to 4, for any number of threads, periods and time-outs | |
| `WatchdogProofs` | theorems about it | `Watchdog` |
| `BasicKeyboard` | `Basic_pThread.c` | |
| `BasicKeyboardProofs` | theorems about it | `BasicKeyboard` |
| `MCWatchdogKeyboard` | the two programs before, side by side, for one run | `Watchdog`, `BasicKeyboard` |

Operators whose names end in what is wrong with them (`ServiceNoClear`,
`LockUnguarded`, `UnlockReturnsEarly`, ...) are deliberate mistakes: each property is
known to fail when the definition after such an operator is replaced by it.
They are not part of any specification.

### State machines: what an action stands for

The programs are built with `-O0` and their globals are plain variables, so
each access in the text is one load or one store, and each is a step. Locals that are
written and read by one thread are merged into the neighbouring access.

| Action of `StateMc` | Code |
|---|---|
| `MachineSwitch` | `sleep` returns, `switch (state_singleton)` loads the mode; `machine_case` is the label it jumped to |
| `Service` | the service function's `switch (key_pressed_global)` |
| `ServiceClear` | `key_pressed_global = '\n'` |
| `MachineUpdate` | the inner `switch (status_local)` and its assignment of the mode, also in the branch marked NO_CHANGE |
| `MachineDefault`, `TimerDefault` | the `default` branches that set an unknown mode |
| `TimerSwitch`, `TimerSample` | the timer thread's load of the mode; the reading and its index, which no other thread touches |
| `GetChar`, `StoreKey` | `getchar()`; skipping of line feeds, `verify_user_input` and the store |

`accepted` and `turns` are history variables: keys stored and keys that moved the
mode. A reading is represented by its position in the table.

`TimerStateMc` differs where its program does: no clear, any character is
stored, one index, `TimerWhile` for the test of `ESCPressed`, millivolt in
`TimerDefault`. Nothing sets `ESCPressed` (line 222 is commented out), so `TimerWhile` always
goes round; that is part of the theorem `TypeCorrect`.

`SemStateMc` adds the service threads (`ServiceWait` is the return of `sem_wait`,
`ServiceWrite` the store of the status), the posts (`MachinePost`), the terminal
and the process. A store of a status goes through the thread argument, which
`main` passes as NULL, so `MachineWrite` and `ServiceWrite` are a `Fault`: the process is
killed and no thread takes another step. `MachineSwitch` begins with the
`sem_wait` that ends the previous pass (nothing else waits on that semaphore, so
taking it a sleep later makes no difference). The samples are left out; the rest
of the timer thread is that of `TimerStateMc`.

**Refinement.** `StateMc` implements `KeyDial` under this mapping: the position is the
mode's place on the ring; the dial is `open` until `Settled`; the slot is the
stored key, unless the machine is about to clear it (that key has been loaded, or
will be lost to the clear); what is being served is read off the status between the load
and the write of the mode. `KeyDial` therefore says in public which losses the
program allows: a key overwritten by a newer one, and a key that arrives between
a load and the clear or turn that follows.

`TimerStateMc` implements `StickyDial` in the same way, with one difference that is the
difference of the programs: the abstract key is `key_pressed` itself, a `Take` (`Service`)
leaves it where it is, and `StoreKey` is the only step that changes it. So a key typed
between the load and the turn is not wiped, nor does it change the turn; and the same press may be taken for
ever (`DialFollowsLastKey`).

### Mutexes: what an action stands for

`Lock` is the return of `pthread_mutex_lock`, enabled when the mutex is free;
`Load` and `Store` are the two halves of `sharedVariable++`; `Report` is the `printf` of
the count with the end of the inner loop; `Unlock` releases the newest mutex and, for
the last, ends the iteration. On main's side `Create`, `CreateFails` (in
`mutex_sharedVariable_pThread.c`, which looks at the result and exits, whatever the
thread already created is doing), `Join`, `JoinAgain` (a second join
of a joined thread: undefined, so either an error number or a crash), `Detect`
(`if (ret != 0)`, the message and `exit`), `JoinLoop` and `Destroy`. After `exit`, a crash
or a return the process is gone (`Ended`): no thread takes a step and only `Terminating`
is left.

**Refinement.** Under the condition of section 4 `LockOrder` implements `AtomicRounds`: the
abstract count is the count printed last, a thread has made the rounds whose iteration has been printed,
and `Report` is the `Round`. Everything before it, the locks and the 2 `Work` halves of
increments, stutters: that is what "the mutexes make an iteration atomic" means to whoever reads the output.

`printed` and `reports` are history variables. `rand()` and `sleep()` in `mutex_deadlock.c` only delay a thread.

### Timers: what an action stands for

A program is a record (`Program`): its threads, the timer each of main's calls arms,
whether timers are periodic, how a time-out is notified, how many passes a thread
makes, whether creation takes a privilege. The record of `withAlarm` has the calls
`<<1, 1, 1>>`: three calls, one alarm.

| Action of `TimedSemaphores` | Code |
|---|---|
| `Create` | the calls of `pthread_create`; with `SCHED_FIFO` only the threads up to some priority come to be |
| `CreateTimers` | `timer_create`, after which `create_timer` may exit, and which reads `sigev_notify_attributes` |
| `Arm` | `timer_settime`, `alarm` |
| `Join` | the joins, of threads that were not created too (`AfterJoin`: undefined) |
| `Expire`, `StartHandler` | kernel and C library: one expiry per timer is queued, the next is an overrun; a thread is started for the handler |
| `Post` | `ping_timer_handler`, `pong_timer_handler`: `sem_post` |
| `Handle` | `timer_handler` where it disturbs nobody |
| `Interrupt` | `timer_handler` in a thread that sleeps in `sem_wait`: it posts, and `sem_wait` returns EINTR |
| `Wake`, `Run` | `sem_wait` returns; the line, the sleep and the loop's condition |

`sigaction` is called with `SA_SIGINFO` alone, so a wait is interrupted; `signal` of the
C library asks for a restart, so with alarms it is not. `expired`, `overrun` and
`interruptedBy` are history variables. A program whose handler interrupts uses each
of its timers once (an assumption the code meets), which lets a timer stand for its time-out.

**Refinement.** `TimedSemaphores` implements `TimeOuts`: `kept` is what a timer has expired without
the overruns, `taken` what its thread has passed through its semaphore, `disturbedBy` the history of the
interruptions. `Expire` is a `TimeOut` (or a stutter, when the kernel counts an overrun), `Wake` a `Pass`,
`Interrupt` a `Disturb`; handlers, queues and posts stutter. The abstract guard `taken < kept` says that a
thread can never get ahead of its timer, through however many handlers the time-out has to go.

### Watchdog and keyboard: what an action stands for

`Open`, `SetTimeout` and `Create` are main's calls. Each may fail (`MainFails`), and what the code
does then are steps of their own: `MainReports` is `perror`, `Close` is `close` where there is something
to close, `MainExits` the end of the process. Of a thread, `PrintLine` is the return of `sleep` and
`printf`, `Pat` the `ioctl` of `pat_watchdog`; when it fails, `Report` is `perror` and `ThreadExits` is `exit`. Between
any two of these steps the other thread may send a keep-alive, after main's `close` only a failing one
(`IsOpen`). Whether a close stops the device is the driver's choice (`magic`).

`StopOutput` and `ResumeOutput` are the user's Ctrl-S and Ctrl-Q, or a full pipe; while the output is stopped
neither `printf` nor `perror` returns, since both streams go to one terminal. `Tick` is time: it
ages the device, shortens the sleeps, and may not pass while a *prompt* thread, or main, has been able to
run for `Latency` ticks since its last keep-alive (main: since it began), the steps of reporting and leaving
included. Which threads are prompt is chosen at the start, at least one is, and
the others may be as late as they like. The variable `sets_timeout` tells file 2 from the others; `stalled` and
`failed` are history variables: whether printing has blocked, and whose call has failed.

In `BasicKeyboard`, `enableRAWMode`, `GetChar` and `SetESC` are the reader, `While` and `SleepPrint` the
printer, `Join` main with its return and the `atexit` handler, `Kill` a signal from outside.

## 3. Runs

| Run | Shows | Bounds |
|---|---|---|
| `state_mc` | types; `AtMostOneTurnPerKey`; `SettledForever`; `ImplementsDial`; `SamplesInOrder`; `StartUpEnds`; `WaitingKeyServed` | 3 stored keys, tables of 3, indexes modulo 5 |
| `state_mc_no_change` | *violation*: the branch commented NO_CHANGE changes the mode | 1 key |
| `timer_state_mc` | types; `ImplementsStickyDial`; `StartUpEnds`; `DialFollowsLastKey` | any number of keys, tables of 2, index modulo 3 |
| `sem_state_mc` | types; `OnlyMvRequested`; `WaitsForNobody`; `DiesInTimersMode`; `ModeFixed`; `DiesOrHangs` | none |
| `sem_state_mc_terminal` | *violation*: the program is gone and the terminal still raw | none |
| `nested_locks` | types; `CountExact`; `NoCircularWait`; `AllFinish` | 2 threads, 5 rounds, 5 joins as in the code; 3 increments for 10000 |
| `shared_variable` | `DestroyedFree`; `ImplementsRounds` | the same, one mutex, one join |
| `crossed_locks` | `StuckOnlyInCircle`; `DeadlockIsSilent`; `DeadlockIsForever`; `FinishesOrDeadlocks` | the same, crossed orders |
| `timed_semaphores` | types; `Accounted`; `NobodyFinishes`; `ImplementsTimeOuts`; `OwedIsTaken`; `OwnersWoken` | threads, timers and passes as in the code; 3 time-outs of each periodic timer |
| `alarm_timers` | *violation*: timers B and C, set and handled in the text, never wake their threads | the program with alarms alone |
| `watchdog_keyboard` | types; `NoFalseAlarm`; `CatchesSilence`; `FailureStops`; `EofNeverEnds`; `EscEndsProgram` | periods and time-out as in the code, in half seconds; latency of one tick; a default time-out of 3.5 s; keyboard: none |
| `deadlock_message` | *violation*: "Deadlock detected" is printed in a run without one | 1 round, 1 increment |

**Why the bounds are enough.** A key is in the slot or being served, so three keys
let one overwrite another while a third is served; nothing in the program counts
keys. The indexes of `StateMc` wrap at 5 over a table of 3, so at the wrap the reading goes from the second sample
back to the first, as with 2^32 over 10 it goes from the sixth back to the first; without the case of
the wrap in `SamplesInOrder` the run fails. (It is there for the proof, which is for every width: at an
increment every few seconds the program does not live to see 2^32.) The loops of the
mutex programs are finite; three increments leave the other thread a place between
any two of them. Three time-outs of a timer let one be pending while a handler runs and
a post waits, with an overrun. The latency is the longest that the watchdog's periods and
time-out allow for in whole ticks; `NoFalseAlarms` proves the inequality they have to meet. What is proved (section 4) does not depend on these numbers.

**Deadlock checking** is off in `crossed_locks` and `deadlock_message`, whose program
really may stop: there `StuckOnlyInCircle` and `FinishesOrDeadlocks` say when. It is off in
`timed_semaphores` and `alarm_timers`, where every program ends up with all threads asleep and nothing left to
expire (`NobodyFinishes` and `OwedIsTaken` say what holds then), and in `watchdog_keyboard`,
where both programs may end and a reset ends everything. It is on everywhere else; `Terminating` lets a mutex program that has ended stutter.

**Fairness.** Every thread that can take a step eventually does (weak fairness of the
whole thread): that is what the kernel's scheduler gives threads of equal
priority. Nothing is assumed of the user, so `GetChar` has no fairness, nor of mutexes: a
thread may lose a mutex to the other each time it becomes free. `AllFinish`
holds nevertheless, because the rival's loop is finite. In `TimedSemaphores` an armed timer
expires and a pending time-out is delivered, to whichever thread the kernel likes. In `Watchdog`
time passes, and main and the prompt threads run before it has passed them by `Latency`; nothing is
assumed of the other thread or of the one who stops the output. In `BasicKeyboard` nobody has
to type.

**Two programs in one run.** `watchdog_keyboard` chooses at the start which of two small programs runs
(`which`) and leaves the other's variables alone: its behaviours are those of the one and of the
other, its fairness that of each, and its properties speak of one of them.

**What two of the runs say of the code.** `NobodyFinishes`: the joins of
`chatGPT_3Threads_withTimers.c` never return, because three threads want five passes each and
there are three time-outs, each good for at most two passes (one in the thread it interrupts, one
through the semaphore).
`NoFalseAlarm` holds with one prompt thread, whichever it is: it is also the reason why the watchdog
does not notice a single thread that hangs. `CatchesSilence`: when printing blocks, both fall silent
together, and that it does notice. `FailureStops` is about main and the prompt threads: the other thread may
go on with its keep-alives while an error is reported, but the one that reports it gets to `exit`, unless the terminal is
stopped and resumed for ever, each time before the report gets through. A thread that is late without
limit may never report its error, and the other then masks that too.

**Violations.** Each checks a sentence of the repository and is a finding in
`PROJECT.json`.

- `NoChangeKeepsMode` ("default: // NO_CHANGE", `StateMc_pThread.c:188`). The trace:
  both threads find the mode unknown, the timer thread is delayed, the machine
  sets conductivity, a key moves it to pH, the machine enters the pH case with no
  new key, the timer's late store sets conductivity, and NO_CHANGE writes pH. The
  timer thread must be delayed for longer than the machine sleeps, so it is rare; a test
  would not meet it. `SettledForever` shows that nothing like it happens after
  start-up.
- `RevertsTerminal` ("Revert to canonical mode when exiting the program",
  `StateMc_pThread_Sem.c:463`). The only end this program has of its own is a
  SIGSEGV, and no `atexit` handler runs then.
- `MessageMeansDeadlock` ("Deadlock detected after %d iterations",
  `mutex_deadlock.c:116`, and `mutex_nested.c:101`). The second iteration of main's loop
  joins threads that are gone; the error it gets is reported as a deadlock. `DeadlockIsSilent`
  shows the other half: in a deadlock the message never appears.
- `EachTimerWakes` ("Timer B", "Timer C", `chatGPT_3Threads_withAlarm.c:39-40`). A process has one alarm, so each
  `alarm` replaces the one before, and its signal is SIGALRM, for which the handler posts `sem_A`; the
  cases `SIGALRM + 1` and `SIGALRM + 2` (line 75 on) are never taken. `OnlyThreadAWakes` is the theorem.

## 4. Theorems

The theorems hold for every value of the constants that satisfies the named
`ASSUME`s: any table length and index width, any number of keys, threads and mutexes, any
lock order in which no thread takes a mutex twice. All leaves are checked by
tlapm; nothing is assumed but those `ASSUME`s and the premises a theorem states.

**`StateMcProofs`.** `TypeOK` is inductive as it stands, because it ties the `case`
label and the status to the program counter. `SettledStays`: `Settled` is
stable because it also says that no thread *holds the decision* to overwrite an
unknown mode. `KeysActedOnOnce`: its invariant counts the waiting key and the key being
served along with the turns made. `DialImplemented` goes action by action: `Service`
is a `Take`, `MachineUpdate` a `Turn`, `StoreKey` an `Arrive` or a stutter,
the two defaults a `StartUp`, the rest stutter. `SamplesAreInOrder` needs
`ReadingBehindIndex`: a channel's last reading belongs to the index before its present one.
`StartUpRunsDown` is a measure: what start-up has left counts two for each thread that may still
write a first mode (its write may leave the machine in the service of another mode) and one for
such a service. It starts at four, no step adds to it, each write that can overwrite a mode takes
from it, and it is zero exactly when `Settled`.

**`TimerStateMcProofs`.** Type correctness (which includes that nothing sets
`ESCPressed`), `SettledStays`, `StartUpRunsDown` with the same measure, and
`StickyDialImplemented`, action by action: `Service` is a `Take`, `MachineUpdate` a
`Turn`, `StoreKey` a `Type`, the two defaults a `StartUp`, the rest stutter.

**`SemStateMcProofs`.** One inductive invariant, `Inv` = `TypeOK`, `Start` and `Asked`: no answer is
ever posted, so the machine sleeps only before its first pass, when the mode
is unknown or the timer's; what it asks for is then the timer's mode, and before it has posted no
service is at work. The four safety properties are consequences of it, and `ModeIsFixed` is a step
property under it. The counts of the semaphores are bounded by the proof, not by the model.
`HangIsForever` and `MachineRunsDown` are about the end of a run: the machine thread has at most three steps,
counted down by its own steps and by nothing else, and what is left at zero is a dead process or a wait that
no step ends (`Start`: no answer was posted; `Asked`: nobody is left who could fault).

**`LockOrderProofs`.** The argument is a stack of invariants:

1. `TypeInv` = `TypeOK` (which says how many mutexes a thread holds at each place of its
   loop) with `Creation`: threads main has yet to create are new, no others are.
2. `Ownership`: a thread owns exactly the first `held[t]` mutexes of its order. That is what
   makes a guard on `owner` say something about a thread's place.
3. `GuardExcludes`: if all threads take some mutex in common, no two are in their
   sections. Then `CountInv` — the exact count, and a register about to be
   stored still equals the counter — gives `NoIncrementLost`; and since the count at a `Report` is the
   count printed before plus one iteration's work (`ReportIsRound`), `RoundsImplemented`. `OneMutexRounds`
   is the instance with one mutex, as in `mutex_sharedVariable_pThread.c`.
4. `OrderedLocksNeverDeadlock`: if the mutexes can be ranked so that every thread takes
   them in increasing rank, nobody waits in a circle: of the threads in a circle take
   one that waits for the highest rank; its owner waits for a higher one. `NestedLocksNeverDeadlock`
   is the instance of `mutex_nested.c`.
5. `StuckMeansCircle`, `DeadlockStays`: whatever the orders, threads that are all stuck form
   a circle (those whose mutex was left by an ended thread would contradict `Ownership`), and a
   circle is never left.
6. `JoinInv`: joined threads have ended, and while main is in its first round it has
   no error. It gives `DestroyIsSafe`, `DeadlockNeverReported` and `MessageMeansAllDone`: what main
   reports as a deadlock is, without exception, a program whose threads have all ended.
7. Progress, as far as it needs no fairness: `OnlyCirclesStop` (as long as a thread is left and nobody waits in a
   circle, some thread's next step is open to it) and `ThreadsRunDown` (the steps a thread has left are a
   natural number that its own steps count down one by one and nothing else changes; zero is the end).
   With weak fairness of each thread these are why `AllFinish` and `FinishesOrDeadlocks` hold.

**`TimedSemaphoresProofs`.** The heart is `Accounted`, a balance between what a timer
did and where each of its expiries is now; it is inductive only together with
`InterruptsPaid` (a timer that interrupted a wait has expired, is not pending any more and interrupted
no other thread) and `PassesInv` (a thread's passes include its interruptions, which are finitely many).
`TimersInv` says that a one-shot timer is armed, or has expired at most once, and only if main set it. From these:
`OnlyThreadAWakes` (in the program with alarms: at most three passes of thread A, none of B and C) and
`NobodyEverFinishes` (one post and one interruption by each timer make at most
`threads + 1` passes, and five is more than four); the latter's premise is stated of the programs, not assumed,
and `NoneOfTheFourFinishes` proves it of the records of `MCTimedSemaphores`. `TimeOutsImplemented` goes action by
action: `Wake` is a `Pass` because a semaphore above zero leaves, by `Accounted`, a kept time-out that is not taken;
`Interrupt` is a `Disturb` by `InterruptsPaid`; and `CallsInvariant` (a one-shot timer has
expired at most as often as main's calls so far set it) is the guard of `TimeOut`. `OwedRunsDown` is the safety half
of `OwedIsTaken`: a pending time-out weighs three, one in a handler two, one in the semaphore one, and the weight of
a thread's time-outs falls with each step that serves them and grows only when its timer expires.

**`WatchdogProofs`.** `NoFalseAlarms` is a statement about time: as long as printing flows and
the program is up, the age of the last keep-alive is bounded by what a prompt thread has slept and
waited (`OnTime`), which stays below the time-out if period plus latency does; before the threads exist,
main's own latency bounds it. `LessThanASecondLate` puts in the program's numbers, at any resolution of time: the
thread may be anything short of a second late, and it is the thread of two seconds that sets this limit.
`FailedStaySilent` and `StoppedOutputSilences` are the safety halves of `FailureStops` and `CatchesSilence`: a
thread whose call has failed never sends again, keep-alives come only from the others and only until main
has closed the device or somebody has left; after the end of the process each tick brings the device
nearer to its limit. While printing blocks, the threads that can still send a keep-alive only become fewer.

**`BasicKeyboardProofs`.** `EofEndsNothing`: the reader holds the only way to `ESCPressed`, and after the end of
input it is at `getchar` for ever (`Relay`). `OnlyEscReturns` adds what the end looks like: both threads have finished,
and the terminal has its old mode before the reader's first step and after main's last, at no other time.
`EscRunsDown` counts the steps from `ESCPressed` to the return.

**Only model-checked:** the liveness properties (`StartUpEnds`, `WaitingKeyServed`,
`DialFollowsLastKey`, `DiesOrHangs`, `AllFinish`, `FinishesOrDeadlocks`, `OwedIsTaken`, `OwnersWoken`,
`CatchesSilence`, `FailureStops`, `EscEndsProgram`), which rest on fairness and are out of this
prover's reach. Where such a property has a part that is a matter of single steps — a measure that runs down, a state
that is not left, a next step that is open — that part is proved: `StartUpRunsDown`, `MachineRunsDown` and `HangIsForever`,
`OnlyCirclesStop` and `ThreadsRunDown`, `OwedRunsDown`, `FailedStaySilent`, `StoppedOutputSilences`, `EscRunsDown`. That a step which is open is
also taken is the fairness, and stays with TLC. There is no such part for `WaitingKeyServed` and
`DialFollowsLastKey`, which are about a thread that goes round for ever.

## 5. Not modelled, and why

- The terminal (`enableRAWMode`, `disableRAWMode`) in `StateMc_pThread.c` and
  `StateMc_pThread_Timer.c`: the same two functions as in `Basic_pThread.c`, in programs that
  never exit by themselves; `BasicKeyboard` and `SemStateMc` have it.
- In `StateMc_pThread_Sem.c`, what follows the first store of a status: the
  switches on the status (lines 303-315, 321-333, 339-351) and the posts of the
  answers (226, 256, 285). No run of the program reaches them.
- What the user may do from outside, such as Ctrl-C on a program that hangs, except in
  `Basic_pThread.c`, where it decides about the terminal.
- A failing `pthread_create` in the programs that ignore it, except where a privilege makes it
  likely (`chatGPT_3Threads_withTimers`): elsewhere creation is taken to succeed.
- `watchdog_timer/1_watchdog_timer_basic_setup.c`: it asks for `WDIOC_ENABLE`, which `linux/watchdog.h`
  does not define, and has one thread.
- The SIGALRM handlers of `watchdog_timer.c` and file 4: a watchdog device sends no signal, so they are never called.
- The locks and buffers of stdio: a `printf` in a signal handler may deadlock with the `printf` it
  interrupts (`chatGPT_3Threads_withTimers.c:101`).
- Real time in the programs with timers: which timer expires first does not matter to what is stated.
- `printf` and the layout of what is printed, except the count of the mutex
  programs and the deadlock message, which properties are about, and that it may block, in `Watchdog`.
  In `BasicKeyboard` printing is taken to return: `EscEndsProgram` assumes a terminal that is not stopped.
- In `watchdog_timer.c`, the locks of stdio and the flush in `exit()`: a stopped terminal could hold up the
  exit too. `FailureStops` would stand: a terminal that stays stopped silences the other thread as well.
- An ESC for `StateMc_pThread_Timer.c`: line 231 says its loop runs while ESC is not pressed, but the assignment
  of `ESCPressed` is commented out (222). There is nothing to explore in that, and it has no run.
- The counting-loop programs and `chatGPT_Timer`: no shared state. `Cpp_Example`: empty.
- `mutex_deadlock_simple.c` has the lock order of `mutex_deadlock.c` and no counter: its
  behaviour in the locks is that of `LockOrder` with one round, and it has no run of
  its own.

## 6. What is left

Every program in which threads interact has a module, and every invariant that a run checks is
a theorem. What could still be added, in this order:

1. The terminal in the two state machine programs without it, for the sake of completeness.
2. `mutex_deadlock_simple.c` as an instance of `LockOrder` without a counter.
3. A measure for `WaitingKeyServed`: the steps the machine thread has left to its next load of the key.
