\* One run of the start-up race is enough: no key need be stored.
CONSTANTS
  MaxAccepted = 1
  SampleLen = 2
  IndexMod = 3
SPECIFICATION Spec
PROPERTIES
  NoChangeKeepsMode
