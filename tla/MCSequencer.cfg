SPECIFICATION FairSpec
CONSTANTS
  Sessions = {a, b}
  NoSession = none
  Numbers = {1, 2, 3, 4}
  Counts = {1, 2}
  EndOfSession = 9
  Depth = 3
  Patience = 2
INVARIANTS Contiguous
PROPERTIES ContractSpec LoopsEnd
CHECK_DEADLOCK FALSE
