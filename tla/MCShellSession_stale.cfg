SPECIFICATION SessionSpec
CONSTANTS
  Programs = {c1}
  Shells = {s1}
  Parts = 1
  MaxVersion = 1
  Prompt = TRUE
INVARIANT ShownAreCurrent
CHECK_DEADLOCK FALSE
