SPECIFICATION Spec
CONSTANTS
  Router = {1, 2}
  Kinds = {"router"}
  f1 = f1
  l1 = l1
  Foreign = {f1}
  OffLink = {}
  Transit = {2}
  Mtus = {1500}
  DdCap = 2
  MaxInFlight = 1
  MaxLoss = 0
  MaxInactive = 1
  MaxForeign = 2
  MaxOwn = 0
INVARIANTS
  RoleById
  Lockstep
  Backed
  OwnNeverRequested
  LastPacketPresent
  RequestsAnswerable
