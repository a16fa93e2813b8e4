SPECIFICATION FairSpec
CONSTANTS
  c1 = c1
  c2 = c2
  Conns <- TwoConns
  LimitMaxRequests = 2
  MaxRequests <- TwoOnFirst
  GracefulTimeout = TRUE
  WaitClosedWaits = TRUE
INVARIANTS
  TypeOK
  
  SweptConnectionsFinish
  FailedStartupNeverServes
  LifespanIsTold
PROPERTY ExitsWhenAsked
