SPECIFICATION Spec
CONSTANTS
  Node = {1, 2}
  Value = {a, b}
  None = none
  Starts = {start}
  MaxTime = 2
  MaxRestarts = 1
  DistinctTimes = TRUE
INVARIANTS TypeOK TimesGoWithValues
PROPERTY ValueMovesForward
