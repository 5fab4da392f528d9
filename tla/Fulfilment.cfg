SPECIFICATION Spec
CONSTANTS
  Cent = 2
  ActiveStatuses = {"R", "U", "W", "D", "P", "L", "F"}
  Requests = {r1, r2}
  Items = {"item1"}
  Batches = {b1}
  Inventories = {"inv1"}
  BatchInv <- OneInventory
  InvItem <- OneItem
  RequestQty <- AskTwo
  InitialQty <- TwoEach
  LOs = {"lo"}
  LMs = {"lm"}
  Clerks = {"clerk"}
  ClerkInvs <- AllInvs
  Quantities = {0, 2, 3}
  FormStatuses = {"none", "U", "P"}
SYMMETRY RequestSymmetry
INVARIANTS TypeOK BatchBounds InventoryMatches ItemsConsistent
PROPERTY DispatchIsFinal
