SPECIFICATION Spec
CONSTANTS
  Stock = Stock
  Books <- MCBooks
  Prices = {1, 2, 3, 4}
  Refs = {1, 2, 3, 4, 5, 6, 7, 8}
  Scenarios <- RearmScenarios
  MaxEvents = 11
  MaxRestarts = 1
  Buckets = 3
  BucketNs = 2
  MakerFee <- MCMakerFee
  TakerFee = 1
  SellFee = 1
  Horizons = {1, 3}
  Size = 1
  Patience = 0
  Every = 1
  Offset = 0
  MaxOrders = 2
  Skew = 1
  MaxTicks = 2
  MaxDepth = 0
PROPERTIES
  TripFlattens
CHECK_DEADLOCK FALSE
