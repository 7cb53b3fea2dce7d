CONSTANTS
  Sids = {s1}
  Objs = {o1, o2}
  Loops = {e1, e2}
  None = None
  MaxDrift = 2
SPECIFICATION FairSpec
INVARIANTS TypeOK NoDeadEntry CountCovers
PROPERTIES IdleEntryRemoved
CHECK_DEADLOCK FALSE
