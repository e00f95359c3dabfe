CONSTANTS
  b1 = b1
  r1 = r1
  r2 = r2
  s1 = s1
  s2 = s2
  Batches = {b1}
  Requests = {r1}
  Sweepers = {s1}
  Received = {2}
  Quantities = {1}
  Expiry <- MCExpiry
  AgingThreshold = 2
  CriticalThreshold = 1
  MaxTime = 3
  Faults = {"abort"}
SPECIFICATION Spec
INVARIANTS WriteoffIsAnnounced
CHECK_DEADLOCK FALSE
