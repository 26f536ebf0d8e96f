\* Threads and alarms as in the code.  No timer is periodic, so the bound is never
\* met.  The program really stops, with all threads asleep.
CONSTANTS
  Programs <- JustAlarms
  MaxExpired = 3
SPECIFICATION FairSpec
CHECK_DEADLOCK FALSE
PROPERTIES
  EachTimerWakes
