\* Whoever is first, the reader thread or the fault.
SPECIFICATION Spec
INVARIANTS
  RevertsTerminal
