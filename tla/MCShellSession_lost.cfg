SPECIFICATION FairSession
CONSTANTS
  Programs = {c1}
  Shells = {s1, s2}
  Parts = 1
  MaxVersion = 0
  Prompt = TRUE
PROPERTY UploadApplied
CHECK_DEADLOCK FALSE
