--------------------------- MODULE BasicKeyboard ---------------------------
(***************************************************************************)
(* Basic_pThread_keyboard/Basic_pThread.c: a thread that reads characters  *)
(* until ESC and then sets ESCPressed, a thread that prints a line every   *)
(* second until it finds ESCPressed set, and a terminal in raw mode that   *)
(* the exit handler restores.  ESCPressed is not protected by a lock.      *)
(***************************************************************************)
EXTENDS Naturals

VARIABLES
  process,     \* place of main, or how the process ended
  ESCPressed,
  read_pc, print_pc,
  terminal,    \* "cooked" or "raw"
  input        \* "open", or "ended" once getchar() has returned EOF

keyboardVars == <<process, ESCPressed, read_pc, print_pc, terminal, input>>

KeyboardInit ==
  /\ process = "join print"
  /\ ESCPressed = FALSE
  /\ read_pc = "raw" /\ print_pc = "while"
  /\ terminal = "cooked" /\ input = "open"

Running == process \in {"join print", "join read"}

-----------------------------------------------------------------------------
(* ascii_read_thread *)

\* The terminal is saved and the exit handler registered before it is changed.
enableRAWMode ==
  /\ Running
  /\ read_pc = "raw"
  /\ terminal' = "raw"
  /\ read_pc' = "getchar"
  /\ UNCHANGED <<process, ESCPressed, print_pc, input>>

Character == {"ESC", "other", "EOF"}

\* A loop that also ends at the end of input.
LeavesLoopAtEof(ch) == ch \in {"ESC", "EOF"}

\* ch == 27
LeavesLoop(ch) == ch = "ESC"

\* Once getchar() has returned EOF it always does.
GetChar ==
  /\ Running
  /\ read_pc = "getchar"
  /\ \E ch \in IF input = "ended" THEN {"EOF"} ELSE Character :
       /\ input' = IF ch = "EOF" THEN "ended" ELSE input
       /\ read_pc' = IF LeavesLoop(ch) THEN "set" ELSE "getchar"
  /\ UNCHANGED <<process, ESCPressed, print_pc, terminal>>

\* The thread ends without telling the other.
SetNothing ==
  /\ Running
  /\ read_pc = "set"
  /\ read_pc' = "finished"
  /\ UNCHANGED <<process, ESCPressed, print_pc, terminal, input>>

SetESC ==
  /\ Running
  /\ read_pc = "set"
  /\ ESCPressed' = TRUE
  /\ read_pc' = "finished"
  /\ UNCHANGED <<process, print_pc, terminal, input>>

Read == enableRAWMode \/ GetChar \/ SetESC

-----------------------------------------------------------------------------
(* print *)

\* while (!ESCPressed), which finishes the thread or sends it to sleep
While ==
  /\ Running
  /\ print_pc = "while"
  /\ print_pc' = IF ESCPressed THEN "finished" ELSE "print"
  /\ UNCHANGED <<process, ESCPressed, read_pc, terminal, input>>

\* sleep(1) and the line
SleepPrint ==
  /\ Running
  /\ print_pc = "print"
  /\ print_pc' = "while"
  /\ UNCHANGED <<process, ESCPressed, read_pc, terminal, input>>

-----------------------------------------------------------------------------
(* main *)

\* Two joins, the return, and disableRAWMode() from atexit().
Join ==
  /\ \/ /\ process = "join print" /\ print_pc = "finished"
        /\ process' = "join read"
        /\ UNCHANGED terminal
     \/ /\ process = "join read" /\ read_pc = "finished"
        /\ process' = "returned" /\ terminal' = "cooked"
  /\ UNCHANGED <<ESCPressed, read_pc, print_pc, input>>

\* A signal from outside, such as that of Ctrl-C, which raw mode leaves enabled:
\* it kills the process, and no exit handler runs.
Kill ==
  /\ Running
  /\ process' = "killed"
  /\ UNCHANGED <<ESCPressed, read_pc, print_pc, terminal, input>>

-----------------------------------------------------------------------------
KeyboardNext == Read \/ While \/ SleepPrint \/ Join \/ Kill

KeyboardSpec == KeyboardInit /\ [][KeyboardNext]_keyboardVars

\* The threads run.  Nobody has to type, least of all ESC.
KeyboardFairSpec ==
  /\ KeyboardSpec
  /\ WF_keyboardVars(enableRAWMode \/ SetESC)
  /\ WF_keyboardVars(While \/ SleepPrint)
  /\ WF_keyboardVars(Join)

-----------------------------------------------------------------------------
KeyboardTypeOK ==
  /\ process \in {"join print", "join read", "returned", "killed"}
  /\ ESCPressed \in BOOLEAN
  /\ read_pc \in {"raw", "getchar", "set", "finished"}
  /\ print_pc \in {"while", "print", "finished"}
  /\ terminal \in {"cooked", "raw"}
  /\ input \in {"open", "ended"}

\* The end of input is no ESC: the reader spins on EOF, the other thread prints
\* on, and main waits for both for ever.
EofNeverEnds ==
  input = "ended" => print_pc # "finished" /\ process \in {"join print", "killed"}

\* ESC ends both threads and main, and leaves the terminal as it was; only a
\* signal can come between.
EscEndsProgram ==
  (read_pc = "set" /\ Running)
    ~> (process = "returned" /\ terminal = "cooked") \/ process = "killed"

=============================================================================
