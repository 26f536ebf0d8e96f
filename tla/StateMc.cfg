\* Three accepted keys let a key overwrite another while a third is served.
\* IndexMod is no multiple of SampleLen, as 2^32 is none of 10: where an index wraps
\* the reading goes from the second sample to the first, not on to the third.
CONSTANTS
  MaxAccepted = 3
  SampleLen = 3
  IndexMod = 5
SPECIFICATION Spec
INVARIANTS
  TypeOK
  AtMostOneTurnPerKey
PROPERTIES
  SettledForever
  ImplementsDial
  SamplesInOrder
  StartUpEnds
  WaitingKeyServed
