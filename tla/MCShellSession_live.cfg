SPECIFICATION FairSession
CONSTANTS
  Programs = {c1}
  Shells = {s1}
  Parts = 2
  MaxVersion = 2
  Prompt = TRUE
INVARIANTS Whole
PROPERTIES ShellAnswered UploadApplied AppliedOnce
CHECK_DEADLOCK FALSE
