\* every test of the files instantiated in the module
CONSTANTS
  Suites <- MCSuites
  KnownRaces <- MCKnownRaces
  KnownEscapes <- MCKnownEscapes
SPECIFICATION Spec
INVARIANT AssertionsHold
INVARIANT NoUseAfterScope
PROPERTY TestEnds
CHECK_DEADLOCK FALSE
