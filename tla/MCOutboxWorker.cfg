CONSTANTS
  e1 = e1
  e2 = e2
  e3 = e3
  w1 = w1
  w2 = w2
  Events = {e1, e2, e3}
  Workers = {w1, w2}
  CreatedAt <- MCCreatedAt
  MaxAttempts = 2
  BatchLimit = 2
  Faults = {"crash", "cancel", "read", "write"}
SPECIFICATION Spec
SYMMETRY MCSymmetry
INVARIANTS TypeOK ExclusiveClaim PendingIsClaimable AttemptAccounting
PROPERTIES SettledIsFinal DeliverySpec
CHECK_DEADLOCK FALSE
