SPECIFICATION Spec
CONSTANTS
  p1 = p1
  p2 = p2
  b1 = b1
  b2 = b2
  v1 = v1
  v2 = v2
  Packages = {p1, p2}
  Intakes = {t1}
  Batches = {b1, b2}
  Inventories = {v1}
  BatchInv <- OneInventory
  InitialQty <- OneEach
  IntakeQty = 1
  Quantities = {1}
INVARIANT TotalsMatch
CHECK_DEADLOCK FALSE
