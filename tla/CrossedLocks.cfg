\* The threads really may stop: deadlock is stated as a property instead.
CONSTANTS
  N = 2
  Mutex = {"mutex1", "mutex2"}
  Order <- CrossedOrder
  Rounds = 5
  Work = 3
  Joins = 5
  CreationChecked = FALSE
SPECIFICATION Spec
CHECK_DEADLOCK FALSE
INVARIANTS
  StuckOnlyInCircle
  DeadlockIsSilent
PROPERTIES
  DeadlockIsForever
  FinishesOrDeadlocks
