SPECIFICATION Spec
CONSTANTS
  A = A
  B = B
  WriteSizes = {4}
  MSS = 536
  Tries = 1
  MaxSent = 6
  MaxOpens = 1
  MaxOwed = 1
SYMMETRY Symmetry
INVARIANTS
  TypeOK
  AckedWasSent
  OnlyCloseCloses
CHECK_DEADLOCK FALSE
