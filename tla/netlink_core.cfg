SPECIFICATION Spec
CONSTANTS
  Tids = {1, 2, 3}
  InitPid = 1
  InitKernels <- InitOrZombie
  ChanCap = 2
  MaxEvents = 4
  None = None
INVARIANTS TypeOK Sorted HandoverExact ParentLogged CatchesUp NoProcessMissed NoGhost PassExact
