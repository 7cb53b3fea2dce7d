CONSTANTS
  L = 2
  Sessions = {1, 2}
  Lens = {2}
  Capacity = 2
  MaxPackets = 2
  MaxBytes = 3
  BatchDelay = TRUE
  Stripe = FALSE
  Stalled = {0}
  MaxDatagrams = 3
  NoDatagram = NoDatagram
SPECIFICATION FairSpec
INVARIANTS TypeOK SlotExclusive BatchIntact SessionOrder
PROPERTIES FifoLane Drained ProducerResumes GoroutinesEnd
CHECK_DEADLOCK FALSE
