CONSTANTS
  Sids = {s1}
  Objs = {o1, o2}
  Loops = {e1}
  None = None
  MaxDrift = 4
SPECIFICATION FairSpec
PROPERTIES IdleSessionClosed
CHECK_DEADLOCK FALSE
