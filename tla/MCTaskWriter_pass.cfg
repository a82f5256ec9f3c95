SPECIFICATION FairSpec
CONSTANTS
  MaxRuns = 2
  MaxRecords = 3
  MaxTime = 2
  MaxFaults = 1
  PeriodLen = 2
  Periods = 12
  Beams = 2
  Dirs = 2
INVARIANTS OneRunPerFile InOrder StaleIsLast FilePerPeriod
PROPERTIES AckedIsStored ChildEnds
CHECK_DEADLOCK FALSE
