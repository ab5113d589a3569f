SPECIFICATION FairSpec
CONSTANTS
  Capacity = 3
  Word = 16
  MaxPacket = 2
  MaxSequence = 5
  BookMayDie = TRUE
INVARIANTS NoSilentHole
PROPERTIES ContractSpec Terminates
CHECK_DEADLOCK FALSE
