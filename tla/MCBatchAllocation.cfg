CONSTANTS
  c1 = c1
  c2 = c2
  c3 = c3
  o1 = o1
  o2 = o2
  o3 = o3
  Clients = {c1, c2, c3}
  Orders = {o1, o2}
  Quantities = {1, 2}
  Qty = 3
  Faults = {"abort", "read"}
SPECIFICATION Spec
SYMMETRY MCSymmetry
INVARIANTS TypeOK WithinQty NoTornSave
PROPERTIES PromisesKept
CHECK_DEADLOCK FALSE
