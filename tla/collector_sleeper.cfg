CONSTANTS
  N = 2
  Casts <- MCSleeperCasts
  Tries = 2
  RootWritable = TRUE
  Faults = 0
  MayFail = FALSE
SPECIFICATION Spec
INVARIANT SleepersIgnored
CHECK_DEADLOCK FALSE
