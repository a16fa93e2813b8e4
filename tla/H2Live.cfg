SPECIFICATION FairSpec
CONSTANTS
  MaxStreams = 2
  TrailersExpected = {FALSE}
  RequestBodies = FALSE
PROPERTY StreamTasksEnd
CHECK_DEADLOCK FALSE
