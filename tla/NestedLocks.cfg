\* Two threads and five iterations as in the code; three increments instead of
\* 10000 leave room for the other thread between any two of them.
CONSTANTS
  N = 2
  Mutex = {"mutex1", "mutex2"}
  Order <- NestedOrder
  Rounds = 5
  Work = 3
  Joins = 5
  CreationChecked = FALSE
SPECIFICATION Spec
INVARIANTS
  TypeOK
  CountExact
  NoCircularWait
PROPERTIES
  AllFinish
