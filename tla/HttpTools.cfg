SPECIFICATION Spec
CONSTANTS
  MaxRequests = 3
  MaxBody = 1
  HIGH_WATER_LIMIT = 0
  KeepAlives <- OnlyTrue
  Expects <- OnlyFalse
  WebSockets = TRUE
INVARIANTS
  TypeOK
  ProcessedInOrder
  TimerOnlyWhenIdle
  NoReadDeadlock
  NoAbandonedResponse
  NoLostWakeup
  EndOfBodyIsFinal
PROPERTY ImplementsPipelining
CHECK_DEADLOCK FALSE
