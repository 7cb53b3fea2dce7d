CONSTANTS
  Conns = {c1, c2}
  NoConn = NoConn
  Sids = {s1}
  RegCap = 1
  MarshalIds = 1
  FrameIds = 0
  MaxFrames = 1
  Events = {"break", "stop"}
  Once = {"break"}
SPECIFICATION FairSpec
INVARIANTS TypeOK WriterConnLive LaneConnRead NoSocketLeak
PROPERTIES LaneHeals
CHECK_DEADLOCK FALSE
