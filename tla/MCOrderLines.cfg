CONSTANTS
  o1 = o1
  o2 = o2
  r1 = r1
  r2 = r2
  r3 = r3
  NoOrder = NoOrder
  Orders = {o1, o2}
  Requests = {r1, r2}
  Lines <- MCLines
  StoredStatuses <- DomainStatuses
  Faults = {}
SPECIFICATION Spec
INVARIANTS EmptyMeansNoLines
CHECK_DEADLOCK FALSE
