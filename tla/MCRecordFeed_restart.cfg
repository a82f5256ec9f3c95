SPECIFICATION Spec
CONSTANTS
  MaxRuns = 2
  MaxRecords = 1
  MaxFaults = 0
  Lengths = {2}
  PipeSize = 3
  BufSize = 2
  Signals = FALSE
PROPERTIES
  ChildRestarted
CHECK_DEADLOCK FALSE
