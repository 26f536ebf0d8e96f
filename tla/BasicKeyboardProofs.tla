------------------------ MODULE BasicKeyboardProofs ------------------------
(***************************************************************************)
(* Theorems about BasicKeyboard.                                           *)
(***************************************************************************)
EXTENDS BasicKeyboard, TLAPS

\* The news of ESC travels from the reader to the printing thread and from there
\* to main, and the end of input stops it at the start.
Relay ==
  /\ ESCPressed => read_pc = "finished"
  /\ print_pc = "finished" => ESCPressed
  /\ process \in {"join read", "returned"} => print_pc = "finished"
  /\ input = "ended" => read_pc = "getchar"

Inv == KeyboardTypeOK /\ Relay

LEMMA InvHolds == KeyboardSpec => []Inv
<1>1. KeyboardInit => Inv
  BY DEF KeyboardInit, Inv, KeyboardTypeOK, Relay
<1>2. Inv /\ [KeyboardNext]_keyboardVars => Inv'
  <2> SUFFICES ASSUME Inv, [KeyboardNext]_keyboardVars
               PROVE  Inv'
    OBVIOUS
  <2> USE DEF Inv, KeyboardTypeOK, Relay
  <2>1. CASE enableRAWMode
    BY <2>1 DEF enableRAWMode
  <2>2. CASE GetChar
    BY <2>2 DEF GetChar, LeavesLoop, Character
  <2>3. CASE SetESC
    BY <2>3 DEF SetESC
  <2>4. CASE While
    BY <2>4 DEF While
  <2>5. CASE SleepPrint
    BY <2>5 DEF SleepPrint
  <2>6. CASE Join
    BY <2>6 DEF Join
  <2>7. CASE Kill
    BY <2>7 DEF Kill, Running
  <2>8. CASE UNCHANGED keyboardVars
    BY <2>8 DEF keyboardVars
  <2> QED
    BY <2>1, <2>2, <2>3, <2>4, <2>5, <2>6, <2>7, <2>8 DEF KeyboardNext, Read
<1> QED
  BY <1>1, <1>2, PTL DEF KeyboardSpec

\* Once the input has ended the printing thread never does, and main never gets
\* past its first join.
THEOREM EofEndsNothing == KeyboardSpec => []EofNeverEnds
<1>1. Inv => EofNeverEnds
  BY DEF Inv, KeyboardTypeOK, Relay, EofNeverEnds
<1> QED
  BY <1>1, InvHolds, PTL

\* Nothing but ESC ends the program, and its end is an orderly one: both threads
\* have finished.  The terminal is as the program found it before the reader has
\* changed it and after main has returned, and at no other time: a program that a
\* signal kills leaves it raw.
OrderlyEnd ==
  /\ process = "returned" =>
       ESCPressed /\ read_pc = "finished" /\ print_pc = "finished"
  /\ terminal = "cooked" <=> read_pc = "raw" \/ process = "returned"

THEOREM OnlyEscReturns == KeyboardSpec => []OrderlyEnd
<1>1. KeyboardInit => OrderlyEnd
  BY DEF KeyboardInit, OrderlyEnd
<1>2. Inv /\ OrderlyEnd /\ [KeyboardNext]_keyboardVars => OrderlyEnd'
  <2> SUFFICES ASSUME Inv, OrderlyEnd, [KeyboardNext]_keyboardVars
               PROVE  OrderlyEnd'
    OBVIOUS
  <2> USE DEF Inv, KeyboardTypeOK, Relay, OrderlyEnd, Running
  <2>1. CASE Read
    BY <2>1 DEF Read, enableRAWMode, GetChar, SetESC, LeavesLoop
  <2>2. CASE While \/ SleepPrint
    BY <2>2 DEF While, SleepPrint
  <2>3. CASE Join
    BY <2>3 DEF Join
  <2>4. CASE Kill
    BY <2>4 DEF Kill
  <2>5. CASE UNCHANGED keyboardVars
    BY <2>5 DEF keyboardVars
  <2> QED
    BY <2>1, <2>2, <2>3, <2>4, <2>5 DEF KeyboardNext
<1> QED
  BY <1>1, <1>2, InvHolds, PTL DEF KeyboardSpec

\* The steps that a thread and main have left once ESCPressed is set, at most.
PrintLeft == IF print_pc = "print" THEN 2 ELSE IF print_pc = "while" THEN 1 ELSE 0
JoinsLeft == IF process = "join print" THEN 2 ELSE 1
StepsToReturn == IF Running THEN PrintLeft + JoinsLeft ELSE 0

\* Once ESCPressed is set it stays so, and every step of whichever thread brings
\* main nearer to its return: there are four of them at most.
THEOREM EscRunsDown ==
  KeyboardSpec =>
    /\ [](StepsToReturn \in 0..4 /\ (StepsToReturn = 0 <=> ~Running))
    /\ [][ESCPressed => ESCPressed' /\ StepsToReturn' < StepsToReturn]_keyboardVars
<1>1. Inv => /\ PrintLeft \in 0..2 /\ JoinsLeft \in 1..2
             /\ StepsToReturn \in 0..4 /\ (StepsToReturn = 0 <=> ~Running)
  <2> SUFFICES ASSUME Inv
               PROVE  /\ PrintLeft \in 0..2 /\ JoinsLeft \in 1..2
                      /\ StepsToReturn \in 0..4 /\ (StepsToReturn = 0 <=> ~Running)
    OBVIOUS
  <2>1. (PrintLeft = 0 \/ PrintLeft = 1 \/ PrintLeft = 2) /\ (JoinsLeft = 1 \/ JoinsLeft = 2)
    BY DEF PrintLeft, JoinsLeft
  <2> QED
    BY <2>1 DEF StepsToReturn
<1>2. Inv /\ [KeyboardNext]_keyboardVars =>
        [ESCPressed => ESCPressed' /\ StepsToReturn' < StepsToReturn]_keyboardVars
  <2> SUFFICES ASSUME Inv, KeyboardNext, ESCPressed
               PROVE  ESCPressed' /\ StepsToReturn' < StepsToReturn
    OBVIOUS
  <2>1. ~Read
    BY DEF Inv, Relay, Read, enableRAWMode, GetChar, SetESC
  <2>2. Running
    BY <2>1 DEF KeyboardNext, While, SleepPrint, Join, Kill, Running
  <2>3. /\ StepsToReturn = PrintLeft + JoinsLeft
        /\ PrintLeft \in 0..2 /\ JoinsLeft \in 1..2
    BY <1>1, <2>2 DEF StepsToReturn
  <2>4. CASE While \/ SleepPrint
    <3>1. /\ \/ PrintLeft = 2 /\ PrintLeft' = 1
             \/ PrintLeft = 1 /\ PrintLeft' = 0
          /\ ESCPressed' /\ process' = process
      BY <2>4 DEF While, SleepPrint, PrintLeft
    <3>2. StepsToReturn' = PrintLeft' + JoinsLeft
      BY <2>2, <3>1 DEF StepsToReturn, JoinsLeft, Running
    <3> QED
      BY <2>3, <3>1, <3>2
  <2>5. CASE Join
    <3>1. print_pc' = print_pc /\ ESCPressed'
      BY <2>5 DEF Join
    <3>2. \/ Running' /\ JoinsLeft = 2 /\ JoinsLeft' = 1
          \/ ~Running'
      BY <2>5 DEF Join, JoinsLeft, Running
    <3>3. PrintLeft' = PrintLeft
      BY <3>1 DEF PrintLeft
    <3>4. \/ StepsToReturn' = PrintLeft + 1 /\ JoinsLeft = 2
          \/ StepsToReturn' = 0
      BY <3>2, <3>3 DEF StepsToReturn
    <3> QED
      BY <2>3, <3>1, <3>4
  <2>6. CASE Kill
    <3>1. StepsToReturn' = 0 /\ ESCPressed'
      BY <2>6 DEF Kill, StepsToReturn, Running
    <3> QED
      BY <2>3, <3>1
  <2> QED
    BY <2>1, <2>4, <2>5, <2>6 DEF KeyboardNext
<1> QED
  BY <1>1, <1>2, InvHolds, PTL DEF KeyboardSpec

=============================================================================
