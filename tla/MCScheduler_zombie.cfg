SPECIFICATION FairSpec
CONSTANTS
  normal = normal
  special = special
  Programs = {normal, special}
  Installed = {normal, special}
  MaxEntries = 3
  Pids = {1}
  Bodies <- DefaultBodies
  Vanish = FALSE
  Refresh = 3
  MaxTime = 1
  MaxForkFailures = 0
PROPERTY DeathRestarted
CHECK_DEADLOCK FALSE
