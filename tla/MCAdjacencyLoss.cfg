SPECIFICATION Spec
CONSTANTS
  Router = {1, 2}
  Kinds = {"router"}
  f1 = f1
  l1 = l1
  Foreign = {f1, l1}
  OffLink = {l1}
  Transit = {1}
  Mtus = {1500}
  DdCap = 1
  MaxInFlight = 1
  MaxLoss = 1
  MaxInactive = 0
  MaxForeign = 1
  MaxOwn = 4
INVARIANTS
  TypeOK
  FullKnowsDescribed
  OwnLsaCovered
  LinkScope
PROPERTIES
  NeverRegresses
  SynchronizesOnce
  DatabasesReplicate
