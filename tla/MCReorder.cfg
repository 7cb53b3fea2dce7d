CONSTANTS
  L = 3
  Modulus = 64
  Window = 3
  First = 1
  Last = 12
SPECIFICATION Spec
INVARIANTS TypeOK InOrder PendingInWindow
CHECK_DEADLOCK FALSE
