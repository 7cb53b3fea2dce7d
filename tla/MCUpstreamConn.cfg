CONSTANTS
  Conns = {c1, c2, c3}
  NoConn = NoConn
SPECIFICATION FlowSpec
INVARIANTS TypeOK NoLostWakeup NoSocketLeak LaneConnWatched
PROPERTIES HealthyConnKept LaneReconnects StopReturns
CHECK_DEADLOCK FALSE
