SPECIFICATION Spec
CONSTANTS
  c1 = c1
  c2 = c2
  p1 = p1
  p2 = p2
  Procs = {p1, p2}
  Conns = {c1, c2}
  conn <- OneConnection
  NameLen = 1
  TextLen = 2
  MaxCalls = 1
  MaxDays = 1
  MaxFaults = 0
INVARIANTS
  LogIsOfTasks
CHECK_DEADLOCK FALSE
