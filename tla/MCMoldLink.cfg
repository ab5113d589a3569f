SPECIFICATION LinkSpec
CONSTANTS
  Sessions <- LinkSessions
  NoSession = 0
  Numbers <- LinkNumbers
  Counts <- LinkCounts
  EndOfSession = 3
  Depth = 3
  Patience = 2
  PerPacket = 3
  Weathers <- AllWeathers
INVARIANTS AllAccountedFor AppliedOnce
PROPERTIES PlainExactGaps
CHECK_DEADLOCK FALSE
