SPECIFICATION FairSpec
CONSTANTS
  MaxRuns = 2
  MaxRecords = 2
  MaxFaults = 2
  Lengths = {2}
  PipeSize = 4
  BufSize = 3
  Signals = TRUE
INVARIANTS
  FramesInOrder
  NothingLost
PROPERTIES
  ProgramAnswered
  ServerEnds
CHECK_DEADLOCK FALSE
