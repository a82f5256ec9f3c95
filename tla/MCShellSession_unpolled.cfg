SPECIFICATION FairSession
CONSTANTS
  Programs = {c1}
  Shells = {s1}
  Parts = 1
  MaxVersion = 0
  Prompt = TRUE
PROPERTY ShellOpens
CHECK_DEADLOCK FALSE
