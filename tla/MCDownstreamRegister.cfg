CONSTANTS
  Conns = {c1, c2}
  NoConn = NoConn
  Sids = {s1, s2, s3}
  RegCap = 1
  MarshalIds = 2
  FrameIds = 1
  MaxFrames = 1
  Events = {"restart"}
  Once = {"restart"}
SPECIFICATION FairSpec
PROPERTIES LaneReconnects ReconnectRegisters
CHECK_DEADLOCK FALSE
