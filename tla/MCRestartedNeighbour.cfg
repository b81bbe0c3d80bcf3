SPECIFICATION Spec
CONSTANTS
  Router = {1, 2}
  Kinds = {"router"}
  f1 = f1
  l1 = l1
  Foreign = {}
  OffLink = {}
  Transit = {1}
  Mtus = {1500}
  DdCap = 3
  MaxInFlight = 1
  MaxLoss = 0
  MaxInactive = 1
  MaxForeign = 0
  MaxOwn = 0
INVARIANTS
  FullKnowsNeighbour
