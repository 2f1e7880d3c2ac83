SPECIFICATION Spec
CONSTANTS
  A = A
  B = B
  WriteSizes = {5}
  MSS = 536
  Tries = 1
  MaxSent = 7
  MaxOpens = 1
  MaxOwed = 1
INVARIANTS
  OnlyCloseCloses
CHECK_DEADLOCK FALSE
