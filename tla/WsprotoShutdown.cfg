SPECIFICATION Spec
CONSTANTS
  MaxMessages = 1
  MaxQueue = 0
INVARIANT ShutdownFinalizes
CHECK_DEADLOCK FALSE
