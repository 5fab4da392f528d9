SPECIFICATION Spec
CONSTANTS
  i1 = i1
  i2 = i2
  b1 = b1
  b2 = b2
  b3 = b3
  w1 = w1
  w2 = w2
  Items = {i1, i2}
  Batches = {b1, b2, b3}
  NoItem = NoItem
  ItemOf <- MCItemOf
  Usable <- MCUsable
  Requested <- MCRequested
  Orders = {"FEFO", "FIFO", "LIFO"}
  Catalogues <- MCCatalogues
  Today = 2
  MaxOther = 1
  MaxAnswers = 2
  MaxResets = 1
INVARIANTS
  NeverOverReserved
  RowsOfTheirItem
  ListedInOrder
  OffersAreExact
  CutListSameShortfall
  AutoAllocationExact
