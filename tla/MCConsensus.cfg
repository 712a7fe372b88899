SPECIFICATION Spec
CONSTANTS
  Node = {n1, n2, n3}
  None = none
  MaxTerm = 2
  MaxRestarts = 2
  MaxLate = 2
SYMMETRY Symmetry
ACTION_CONSTRAINT Small
INVARIANTS TypeOK LeadersWereElected ElectionSafety
PROPERTY VotesStick
