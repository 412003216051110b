SPECIFICATION Spec
CONSTANTS
  FileOrder <- TwoFiles
  Writer <- WriterOfTwo
  MaxChunks = 3
  Payload = 2
  MaxBytes = 3
  Calls = {1, 3}
  MaxTries = 1
  MaxWaits = 1
  None = None
INVARIANTS DiscardsOnlyIfWrapped
CHECK_DEADLOCK FALSE
