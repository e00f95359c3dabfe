CONSTANTS
  r1 = r1
  k1 = k1
  m1 = m1
  m2 = m2
  Recipes = {r1}
  Calcs = {k1}
  Materials = {m1, m2}
  Quantities <- MCQuantities
  MaxQuantity = 3
  Copies <- MCCopies
  Prices = {1, 7}
  Half = 16
  MaxLines = 2
  Faults = {"abort"}
SPECIFICATION Spec
INVARIANTS TypeOK WholeRecipes CostIsSum
CHECK_DEADLOCK FALSE
