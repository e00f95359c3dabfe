CONSTANTS
  j1 = j1
  j2 = j2
  j3 = j3
  b1 = b1
  o1 = o1
  None = None
  Jobs = {j1, j2, j3}
  Batches = {b1}
  Orders = {o1}
  MaxConns = 3
  ReservesInPool = TRUE
SPECIFICATION FairSpec
INVARIANTS TypeOK JamIsNested
PROPERTIES JobsEnd CloseReturns NoJamStays
CHECK_DEADLOCK FALSE
