CONSTANTS
  b1 = b1
  r1 = r1
  r2 = r2
  s1 = s1
  s2 = s2
  Batches = {b1}
  Requests = {r1, r2}
  Sweepers = {s1, s2}
  Received = {2}
  Quantities <- MCQuantities
  Expiry <- MCExpiry
  AgingThreshold = 2
  CriticalThreshold = 1
  MaxTime = 3
  Faults = {"abort", "publish"}
SPECIFICATION Spec
INVARIANTS TypeOK Ledger FreshnessIsEarned VersionsAreEarned
PROPERTIES FreshnessNeverReverts NoDrawAfterExpired AtomicStockSpec OnlyNegativesRefill
SYMMETRY MCSymmetry
CHECK_DEADLOCK FALSE
