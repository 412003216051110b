SPECIFICATION Spec
CONSTANTS
  FileOrder <- TwoFiles
  Writer <- WriterOfTwo
  MaxChunks = 4
  Payload = 2
  MaxBytes = 5
  Calls = {1, 3}
  MaxTries = 2
  MaxWaits = 1
  None = None
INVARIANTS TypeOK ChunksIntact NothingDropped SpilledOnlyIfWrapped OutputIsPrefix SnapshotTaken
CHECK_DEADLOCK FALSE
