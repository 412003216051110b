CONSTANTS
  N = 3
  Casts <- MCCasts
  Tries = 2
  RootWritable = TRUE
  Faults = 1
  MayFail = TRUE
SPECIFICATION FairSpec
INVARIANTS
  TypeOK
  OneCollector
  NothingLeft
PROPERTY
  StopEnds
CHECK_DEADLOCK FALSE
