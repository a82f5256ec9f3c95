SPECIFICATION Spec
CONSTANTS
  MaxRuns = 2
  MaxRecords = 3
  MaxTime = 2
  MaxFaults = 1
  PeriodLen = 2
  Periods = 12
  Beams = 2
  Dirs = 2
INVARIANT OpenErrorTolerated
CHECK_DEADLOCK FALSE
