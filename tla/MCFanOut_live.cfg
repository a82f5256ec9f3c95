SPECIFICATION FairSpec
CONSTANTS
  Clients = {c1, c2}
  ClientMax = 1
  BufSize = 2
  PipeSize = 2
  SocketSize = 1
  Backlog = 1
  Signals = TRUE
  MaxBytes = 3
PROPERTIES EndsWithParent Answered GoneNoticed
CHECK_DEADLOCK FALSE
