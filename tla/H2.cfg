SPECIFICATION Spec
CONSTANTS
  MaxStreams = 2
  TrailersExpected = {TRUE, FALSE}
  RequestBodies = TRUE
INVARIANTS
  TypeOK
  StreamsAccounted
  IdleOrClosing
  ReceiveContract
PROPERTY EndSparesSiblings
CHECK_DEADLOCK FALSE
