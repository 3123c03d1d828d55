\* One call is enough.
SPECIFICATION FairSpec
CONSTANTS
  Calls = {c1}
  Names = {n}
  NoCall = NoCall
  Fragile = {c1}
  MaxLen = 2
  Window = 1
INVARIANT
  SuccessIsSuccess
CHECK_DEADLOCK FALSE
