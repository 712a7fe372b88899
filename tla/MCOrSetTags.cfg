SPECIFICATION Spec
CONSTANTS
  Node = {n1, n2}
  Elem = {a}
  MaxAdds = 2
  MaxDeltas = 0
PROPERTY TagsUnique
