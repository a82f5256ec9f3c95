SPECIFICATION FairSpec
CONSTANTS
  c1 = c1
  c2 = c2
  p1 = p1
  p2 = p2
  Procs = {p1, p2}
  Conns = {c1, c2}
  conn <- OwnConnections
  NameLen = 1
  TextLen = 2
  MaxCalls = 2
  MaxDays = 2
  MaxFaults = 1
INVARIANTS
  AnswerIsOwn
  LinesWhole
  NothingLost
PROPERTIES
  CallReturns
CHECK_DEADLOCK FALSE
