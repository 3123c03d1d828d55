\* A program ends after its sort.
CONSTANTS
  Keys = {0, 1, 2}
  MaxLen = 6
SPECIFICATION FairSpec
INVARIANTS
  Sorts
  TieOrder
  HoareSplits
PROPERTIES
  Returns
CHECK_DEADLOCK FALSE
