SPECIFICATION Spec
CONSTANTS
  MaxStreams = 2
  TrailersExpected = {FALSE}
  RequestBodies = TRUE
INVARIANT TimerOnlyWhenIdle
CHECK_DEADLOCK FALSE
