\* One iteration per thread is enough for the message.
CONSTANTS
  N = 2
  Mutex = {"mutex1", "mutex2"}
  Order <- CrossedOrder
  Rounds = 1
  Work = 1
  Joins = 5
  CreationChecked = FALSE
SPECIFICATION Spec
CHECK_DEADLOCK FALSE
INVARIANTS
  MessageMeansDeadlock
