SPECIFICATION FairSpec
CONSTANTS
  Programs = {c1}
  Shells = {s1, s2}
  Parts = 1
  MaxVersion = 0
  Prompt = FALSE
INVARIANTS InStep StateReset
PROPERTY PollAnswered
CHECK_DEADLOCK FALSE
