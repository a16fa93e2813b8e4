SPECIFICATION Spec
CONSTANTS
  MaxRequests = 2
  MaxBody = 1
  HIGH_WATER_LIMIT = 0
  KeepAlives <- OnlyTrue
  Expects <- OnlyFalse
  WebSockets = TRUE
PROPERTY UpgradeWaitsItsTurn
CHECK_DEADLOCK FALSE
