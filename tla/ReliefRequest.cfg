SPECIFICATION Spec
CONSTANTS
  Requests = {r1}
  Items = {i1}
  Clients = {c1, c2}
  Directors = {c1, c2}
  Headers = {h1, h2}
  Quantities = {0, 1}
  MaxVersion = 3
  MaxItemVersion = 2
SYMMETRY Symmetry
INVARIANTS CopiesCurrent RowConstraints
PROPERTIES StatusMovesForward DecisionStands SubmittedHeaderWasShown
