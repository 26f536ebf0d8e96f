\* Indexes that go once past the table before they wrap.  No property of this run is
\* about the order of the samples.
CONSTANTS
  SampleLen = 2
  IndexMod = 3
SPECIFICATION Spec
INVARIANTS
  TypeOK
PROPERTIES
  ImplementsStickyDial
  StartUpEnds
  DialFollowsLastKey
