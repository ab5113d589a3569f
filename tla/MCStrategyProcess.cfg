SPECIFICATION Spec
CONSTANTS
  Scenarios <- MCScenarios
  HistoricalRefs = 3
  OurLocate = 1
  QuoteEvery = 2
  TickSize = 1
  OffsetTicks = 1
  Grace = 1
  LifeTime = 3
  HeartbeatAfter = 1
  ClientDeadAfter = 2
  LoginTimeout = 2
  ServerDeadAfter = 2
  LoginResponseTimeout = 2
INVARIANTS CountedOnce PositionIsTape ReportIsTrue
PROPERTY QuotesRest
CHECK_DEADLOCK FALSE
