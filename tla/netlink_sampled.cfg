SPECIFICATION Spec
CONSTANTS
  Tids = {1, 2}
  InitPid = 1
  InitKernels <- JustInit
  ChanCap = 2
  MaxEvents = 2
  None = None
INVARIANTS EachPidSampled
