\* Two vectors, so that one is copied, moved or swapped into the other, and
\* capacities up to 3: 0, 1 and 2 are the cases of the growth rule.
SPECIFICATION Spec
CONSTANTS
  Vecs = {a, b}
  Values = {x, y}
  Default = x
  Raw = Raw
  MaxCap = 3
SYMMETRY Symmetry
INVARIANTS
  OneOwner
  LivesExact
PROPERTIES
  FaultHasCause
  ElementsAsSequence
\* Nothing is said of what follows an undefined operation.
CHECK_DEADLOCK FALSE
