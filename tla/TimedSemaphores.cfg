\* Threads and timers as in the code; three time-outs of each periodic timer let
\* one be pending while a handler runs and a post waits.  The one-shot programs
\* really stop.
CONSTANTS
  Programs <- AllPrograms
  MaxExpired = 3
SPECIFICATION FairSpec
CHECK_DEADLOCK FALSE
INVARIANTS
  TypeOK
  Accounted
  NobodyFinishes
PROPERTIES
  ImplementsTimeOuts
  OwedIsTaken
  OwnersWoken
