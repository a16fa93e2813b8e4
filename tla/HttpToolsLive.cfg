SPECIFICATION FairSpec
CONSTANTS
  MaxRequests = 2
  MaxBody = 0
  HIGH_WATER_LIMIT = 0
  KeepAlives <- OnlyTrue
  Expects <- AnyFlag
  WebSockets = TRUE
PROPERTIES
  QueuedRequestsStart
  RequestTasksEnd
  ShutdownCloses
CHECK_DEADLOCK FALSE
