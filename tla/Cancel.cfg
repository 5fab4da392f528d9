SPECIFICATION CancelSpec
CONSTANTS
  Cent = 2
  ActiveStatuses = {"R", "U", "W", "D", "P", "L", "F"}
  Requests = {r1, r2}
  Items = {"item1"}
  Batches = {b1}
  Inventories = {"inv1"}
  BatchInv <- OneInventory
  InvItem <- OneItem
  RequestQty <- AskTwo
  InitialQty <- ThreeEach
  LOs = {"lo"}
  LMs = {"lm"}
  Clerks = {"clerk"}
  ClerkInvs <- AllInvs
  Quantities = {0, 3, 4}
  FormStatuses = {"none", "U"}
SYMMETRY RequestSymmetry
INVARIANT ReservedIsPending
