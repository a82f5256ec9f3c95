SPECIFICATION FairSpec
CONSTANTS
  normal = normal
  special = special
  Programs = {normal, special}
  Installed = {normal, special}
  MaxEntries = 3
  Pids = {1}
  Bodies <- MCBodies
  Vanish = FALSE
  Refresh = 2
  MaxTime = 2
  MaxForkFailures = 0
PROPERTIES TerminateReturns RecordedDeathRestarted DueEntryTaken
CHECK_DEADLOCK FALSE
