SPECIFICATION Spec
CONSTANTS
  Node = {n1, n2}
  Elem = {a}
  MaxAdds = 2
  MaxDeltas = 1
INVARIANTS TypeOK ObservedRemove
PROPERTY StatesForgetNothing
