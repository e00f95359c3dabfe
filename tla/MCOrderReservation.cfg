CONSTANTS
  o1 = o1
  o2 = o2
  r1 = r1
  r2 = r2
  r3 = r3
  NoOrder = NoOrder
  Orders = {o1}
  Requests = {r1}
  Lines <- MCLinesOne
  StoredStatuses <- DomainStatuses
  Faults = {"abort"}
SPECIFICATION Spec
INVARIANTS ReservationIsAtomic
CHECK_DEADLOCK FALSE
