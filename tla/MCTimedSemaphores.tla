------------------------- MODULE MCTimedSemaphores -------------------------
(***************************************************************************)
(* The four programs with timers and semaphores, as values of Program.     *)
(***************************************************************************)
EXTENDS TimedSemaphores

\* ping_pong_pThread_withTimer.c: every second a ping, every other a pong.
PingPong ==
  [threads |-> 2, timers |-> <<1, 2>>, periodic |-> TRUE, notify |-> "SIGEV_THREAD",
   rounds |-> Forever, realtime |-> FALSE]

\* ping_pong_pThread_withTimer_semArg.c: the same with the semaphores handed to
\* the threads, and priorities that do not take: the attributes are initialised
\* again after they were set, and never asked for explicitly.
PingPongSemArg ==
  [threads |-> 2, timers |-> <<1, 2>>, periodic |-> TRUE, notify |-> "SIGEV_THREAD",
   rounds |-> Forever, realtime |-> FALSE]

\* chatGPT_3Threads_withTimers.c
ThreeTimers ==
  [threads |-> 3, timers |-> <<1, 2, 3>>, periodic |-> FALSE, notify |-> "SIGEV_SIGNAL",
   rounds |-> 5, realtime |-> TRUE]

\* chatGPT_3Threads_withAlarm.c: there is one alarm, and its handler posts sem_A.
ThreeAlarms ==
  [threads |-> 3, timers |-> <<1, 1, 1>>, periodic |-> FALSE, notify |-> "SIGALRM",
   rounds |-> Forever, realtime |-> FALSE]

JustAlarms == {ThreeAlarms}
AllPrograms == {PingPong, PingPongSemArg, ThreeTimers, ThreeAlarms}

\* "alarm(1); // Timer A", "alarm(2); // Timer B", "alarm(5); // Timer C"
\* (chatGPT_3Threads_withAlarm.c:38-40), and a case of the handler for each of the
\* semaphores (72-80): once the timers are set each wakes its thread.  Of
\* JustAlarms only.
EachTimerWakes == \A t \in 1..ThreeAlarms.threads : main_pc = "join" ~> i[t] > 0

=============================================================================
