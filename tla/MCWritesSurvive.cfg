SPECIFICATION MvSpec
CONSTANTS
  Author = {a, b}
  MaxWrites = 3
CHECK_DEADLOCK FALSE
INVARIANT WritesSurvive
