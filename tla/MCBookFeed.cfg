SPECIFICATION Spec
CONSTANTS
  Books = {1, 2}
  Prices = {1, 2, 3, 4, 6, 8}
  Refs = {1, 2, 3, 4, 5, 7, 8, 11}
  Scenarios <- MCScenarios
  MinSlots = 4
  FirstChunk = 1
  MaxChunk = 2
  Tick = 2
  BandPct = 20
  MaxDense = 5
  RecentreWindow = 3
  RecentrePercent = 10
  Window = 2
  Tolerance = 0
  MaxGaps = 1
  Buckets = 2
INVARIANTS
  NothingWrong
  BookKept
  TapeIsPrints
  NoFalseAlarm
CHECK_DEADLOCK FALSE
