SPECIFICATION FairSpec
CONSTANTS
  Router = {1, 2}
  Kinds = {"router"}
  f1 = f1
  l1 = l1
  Foreign = {f1}
  OffLink = {}
  Transit = {1}
  Mtus = {1500}
  DdCap = 3
  MaxInFlight = 1
  MaxLoss = 1
  MaxInactive = 0
  MaxForeign = 1
  MaxOwn = 0
PROPERTIES
  FloodingReliable
