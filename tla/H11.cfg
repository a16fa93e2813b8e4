SPECIFICATION Spec
CONSTANTS
  MaxRequests = 2
  MaxBody = 1
  HIGH_WATER_LIMIT = 0
  Expects <- AnyFlag
INVARIANTS
  TypeOK
  OnlyBetweenRequests
  ClientNeverStuck
  ReceiveContract
PROPERTY ImplementsPipelining
CHECK_DEADLOCK FALSE
