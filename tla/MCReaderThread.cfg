SPECIFICATION FairSpec
CONSTANTS
  Files <- AllFiles
  Slots = 2
  ChunkBytes = 2
  MaxMessages = 5
CHECK_DEADLOCK FALSE
INVARIANTS ReadsTheFile
PROPERTIES CallReturns
