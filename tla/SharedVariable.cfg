\* One join per thread, as in the code, which here reaches the destroy, or ends
\* when a thread cannot be created.
CONSTANTS
  N = 2
  Mutex = {"mutex"}
  Order <- SingleOrder
  Rounds = 5
  Work = 3
  Joins = 1
  CreationChecked = TRUE
SPECIFICATION Spec
INVARIANTS
  DestroyedFree
PROPERTIES
  ImplementsRounds
