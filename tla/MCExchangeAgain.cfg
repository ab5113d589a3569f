SPECIFICATION FairSpec
CONSTANTS
  Scenarios <- Again
  MaxTokens = 2
  MaxRefs = 2
  MaxHistory = 2
  CollarTicks = 1
  MaxPosition = 2
  MaxShares = 2
  HeartbeatAfter = 1
  ClientDeadAfter = 2
  LoginTimeout = 2
  ServerDeadAfter = 2
  LoginResponseTimeout = 2
PROPERTIES DeadSessionFlattens
CHECK_DEADLOCK FALSE
