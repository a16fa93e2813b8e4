SPECIFICATION MCSpec
CONSTANTS
  MaxMessages = 3
  MaxQueue = 4
INVARIANTS
  TypeOK
  PausedOnlyForMessages
  NothingAfterDisconnect
  KeepaliveRuns
  NeverLeftOpen
PROPERTIES
  ImplementsLifecycle
  TaskEnds
CHECK_DEADLOCK FALSE
