\* No constants: keys come without end and semaphores count freely.
SPECIFICATION Spec
INVARIANTS
  TypeOK
  OnlyMvRequested
  WaitsForNobody
  DiesInTimersMode
PROPERTIES
  ModeFixed
  DiesOrHangs
