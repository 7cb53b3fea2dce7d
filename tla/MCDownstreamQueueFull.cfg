CONSTANTS
  Conns = {c1}
  NoConn = NoConn
  Sids = {s1, s2}
  RegCap = 1
  MarshalIds = 2
  FrameIds = 2
  MaxFrames = 2
  Events = {}
  Once = {}
SPECIFICATION FairSpec
PROPERTIES HeartbeatRegisters
CHECK_DEADLOCK FALSE
