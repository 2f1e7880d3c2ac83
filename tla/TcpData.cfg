SPECIFICATION OneWaySpec
CONSTANTS
  A = A
  B = B
  WriteSizes = {4}
  MSS = 536
  Tries = 2
  MaxSent = 14
  MaxOpens = 1
  MaxOwed = 1
INVARIANTS
  AckedWasDelivered
PROPERTIES
  AcceptorSettles
CHECK_DEADLOCK FALSE
