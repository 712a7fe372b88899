SPECIFICATION Spec
CONSTANTS
  Node = {n1, n2, n3}
  None = none
  MaxTerm = 2
  MaxRestarts = 0
  MaxLate = 1
SYMMETRY Symmetry
INVARIANT NoSplitBrain
