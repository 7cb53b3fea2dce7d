CONSTANTS
  Sessions = {1, 2}
  Lens = {2}
  QueueCap = 2
  MaxPackets = 2
  MaxBytes = 3
  BatchDelay = TRUE
  MaxConns = 2
  MaxFrames = 4
SPECIFICATION FairSpec
INVARIANTS TypeOK
PROPERTIES FifoLane NoSilentLoss Delivered
CHECK_DEADLOCK FALSE
