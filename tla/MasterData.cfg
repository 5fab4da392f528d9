SPECIFICATION Spec
CONSTANTS
  n1 = n1
  n2 = n2
  c1 = c1
  c2 = c2
  Names = {n1, n2}
  MaxId = 2
  Clients = {c1, c2}
  Initial <- MCInitial
  Areas <- MCAreas
  Forms <- MCForms
  MaxCommits = 2
SYMMETRY ClientSymmetry
PROPERTIES ClosedEventFinal EditOverwritesShown
