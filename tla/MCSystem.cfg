CONSTANTS
  b1 = b1
  r1 = r1
  r2 = r2
  w1 = w1
  w2 = w2
  Batches = {b1}
  Requests = {r1, r2}
  Workers = {w1}
  Received = {1}
  Quantities <- MCQuantities
  Expiry <- MCExpiry
  AgingThreshold = 2
  CriticalThreshold = 1
  MaxAttempts = 2
  BatchLimit = 2
  MaxTime = 1
  StockFaults = {"abort", "publish"}
  OutboxFaults = {"crash", "write"}
SPECIFICATION FairSpec
INVARIANTS PassInsideHandler SuccessMeansMarked
PROPERTIES EventsSettle LateDrawMarks
CHECK_DEADLOCK FALSE
