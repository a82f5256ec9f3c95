SPECIFICATION Spec
CONSTANTS
  normal = normal
  special = special
  Programs = {normal, special}
  Installed = {normal, special}
  MaxEntries = 3
  Pids = {1}
  Bodies <- TwoDueBodies
  Vanish = FALSE
  Refresh = 3
  MaxTime = 2
  MaxForkFailures = 0
INVARIANT FollowsSchedule
CHECK_DEADLOCK FALSE
