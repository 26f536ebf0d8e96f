------------------------ MODULE MCWatchdogKeyboard -------------------------
(***************************************************************************)
(* Two programs that have nothing to do with each other, checked in one    *)
(* run: a behaviour is one of the one or of the other.                     *)
(***************************************************************************)
EXTENDS Watchdog, BasicKeyboard

VARIABLE which   \* which of the two runs

\* thread_A sleeps one second, thread_B two; a tick is half a second.
HalfSeconds == <<2, 4>>

EitherInit == which \in {"watchdog", "keyboard"} /\ Init /\ KeyboardInit

InWatchdog(A) == which = "watchdog" /\ A /\ UNCHANGED <<which, keyboardVars>>
InKeyboard(A) == which = "keyboard" /\ A /\ UNCHANGED <<which, vars>>

EitherNext == InWatchdog(Next) \/ InKeyboard(KeyboardNext)

eitherVars == <<which, vars, keyboardVars>>

\* The fairness of each of them, as in its FairSpec.
EitherSpec ==
  /\ EitherInit /\ [][EitherNext]_eitherVars
  /\ WF_eitherVars(InWatchdog(Tick))
  /\ WF_eitherVars(InWatchdog(Main))
  /\ \A t \in Thread : WF_eitherVars(InWatchdog(t \in prompt /\ ThreadStep(t)))
  /\ WF_eitherVars(InKeyboard(enableRAWMode \/ SetESC))
  /\ WF_eitherVars(InKeyboard(While \/ SleepPrint))
  /\ WF_eitherVars(InKeyboard(Join))

=============================================================================
