SPECIFICATION Spec
CONSTANTS
  Node = {n1, n2}
  MaxCount = 2
  MaxRestarts = 1
INVARIANTS TypeOK CountsAreTrue
PROPERTY ImplementsKnowledge
