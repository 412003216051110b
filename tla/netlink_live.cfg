SPECIFICATION FairSpec
CONSTANTS
  Tids = {1, 2}
  InitPid = 1
  InitKernels <- JustInit
  ChanCap = 1
  MaxEvents = 4
  None = None
PROPERTIES EventsImported HandoverImplemented
