SPECIFICATION Spec
CONSTANTS
  Tids = {1, 2, 3, 4, 5}
  InitPid = 1
  InitKernels <- JustFourThreads
  ChanCap = 2
  MaxEvents = 1
  None = None
INVARIANTS AllTasksReturned
