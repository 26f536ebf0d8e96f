\* Time-out and periods as in the code, in half seconds; a driver that starts
\* with a little more.  Both programs can end, and a reset ends everything.
CONSTANTS
  Period <- HalfSeconds
  Timeout = 6
  Default = 7
  Latency = 1
SPECIFICATION EitherSpec
CHECK_DEADLOCK FALSE
INVARIANTS
  TypeOK
  NoFalseAlarm
  EofNeverEnds
PROPERTIES
  CatchesSilence
  FailureStops
  EscEndsProgram
