CONSTANTS
  e1 = e1
  e2 = e2
  e3 = e3
  w1 = w1
  w2 = w2
  Events = {e1, e2}
  Workers = {w1}
  CreatedAt <- MCCreatedAtTwo
  MaxAttempts = 2
  BatchLimit = 2
  Faults = {"crash"}
SPECIFICATION FairSpec
PROPERTIES AtLeastOnce
CHECK_DEADLOCK FALSE
