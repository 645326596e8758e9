\* Three suites: a snapshot is used once, so the second must not need the first's.
SPECIFICATION Spec
CONSTANTS
  Network = "hardhat"
  Suites = 3
  MaxBlock = 4
  MaxAdvance = 3
  MaxLate = 2
INVARIANTS
  SuitesStartFresh
  AdvanceIsShort
PROPERTY
  AdvanceEnds
CHECK_DEADLOCK FALSE
