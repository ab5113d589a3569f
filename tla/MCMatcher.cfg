SPECIFICATION FairSpec
CONSTANTS
  Markets <- AllMarkets
  MaxOrders = 5
INVARIANTS ConservesShares QuietBook FokAllOrNoneAmongStrangers
PROPERTIES LegalMoves CallReturns
CHECK_DEADLOCK FALSE
