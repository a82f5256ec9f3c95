SPECIFICATION Spec
CONSTANTS
  Clients = {c1, c2, c3}
  ClientMax = 2
  BufSize = 2
  PipeSize = 2
  SocketSize = 1
  Backlog = 1
  Signals = FALSE
  MaxBytes = 3
SYMMETRY ClientSymmetry
INVARIANTS OpenIsListed InOrder RecentKept
PROPERTIES RefusedWhenFull
CHECK_DEADLOCK FALSE
