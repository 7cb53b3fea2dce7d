CONSTANTS
  Conns = {c1, c2}
  NoConn = NoConn
SPECIFICATION FairSpec
PROPERTIES StopReturns
CHECK_DEADLOCK FALSE
