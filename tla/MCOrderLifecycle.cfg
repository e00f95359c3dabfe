CONSTANTS
  c1 = c1
  c2 = c2
  c3 = c3
  i1 = i1
  i2 = i2
  Clients = {c1, c2, c3}
  Items = {i1, i2}
  Faults = {"abort"}
SPECIFICATION Spec
SYMMETRY MCSymmetry
INVARIANTS TypeOK NothingFromNothing
PROPERTIES StatusGoesForward ConfirmedIsFrozen
CHECK_DEADLOCK FALSE
