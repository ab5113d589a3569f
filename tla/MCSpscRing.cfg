SPECIFICATION FairSpec
CONSTANTS
  Capacity = 4
  Word = 16
  MaxMessages = 9
  Empty = Empty
INVARIANTS
  LowerBounds
  UnreadIntact
PROPERTIES
  FifoSpec
  NoStarvation
