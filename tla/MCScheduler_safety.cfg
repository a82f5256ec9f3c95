SPECIFICATION Spec
CONSTANTS
  normal = normal
  special = special
  Programs = {normal, special}
  Installed = {normal, special}
  MaxEntries = 3
  Pids = {1, 2}
  Bodies <- MCBodies
  Vanish = TRUE
  Refresh = 2
  MaxTime = 2
  MaxForkFailures = 1
INVARIANTS OneProgram Tracked NoEarlyStart CommandIsRunning
CHECK_DEADLOCK FALSE
PROPERTY SlotSpec
