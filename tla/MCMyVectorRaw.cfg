\* One vector is enough: it is resized.
SPECIFICATION Spec
CONSTANTS
  Vecs = {a}
  Values = {x, y}
  Default = x
  Raw = Raw
  MaxCap = 3
INVARIANT
  RawNeverAssigned
CHECK_DEADLOCK FALSE
