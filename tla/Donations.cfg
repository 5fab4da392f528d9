SPECIFICATION Spec
CONSTANTS
  Donations = {d1, d2}
  Entered = {d1}
  Items = {i1}
  Warehouses = {w1, w2}
  Stocked = {w1}
  Clients = {c1, c2}
  Headers = {h1}
  Quantities = {7}
  Counted = {2, 3, 8}
  Tick = 2
  Cent = 4
  BatchNos = {n1}
  MaxVersion = 2
  MaxItemVersion = 2
SYMMETRY ClientSymmetry
INVARIANTS IntakeOnce StockMatchesIntakes IntakeComplete
