CONSTANTS
  Addrs = {a, b}
  Receivers = {r}
  MaxSessions = 2
  MaxRuns = 2
  MaxFlight = 1
  NoSession = NoSession
SPECIFICATION FairSpec
INVARIANTS TypeOK MapsAgree AnswerToOwner
PROPERTIES IdleRemoved
CHECK_DEADLOCK FALSE
