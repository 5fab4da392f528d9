SPECIFICATION DirectSpec
CONSTANTS
  Cent = 2
  ActiveStatuses = {"R", "U", "W", "D", "P", "L", "F"}
  Requests = {r1, r2, r3}
  Items = {"item1"}
  Batches = {b1}
  Inventories = {"inv1"}
  BatchInv <- OneInventory
  InvItem <- OneItem
  RequestQty <- AskTwo
  InitialQty <- ThreeEach
  LOs = {"lo"}
  LMs = {"lm"}
  Clerks = {"clerk"}
  ClerkInvs <- AllInvs
  Quantities = {0, 2, 3}
  FormStatuses = {"none", "U"}
SYMMETRY RequestSymmetry
INVARIANT NoDoubleAllocation
