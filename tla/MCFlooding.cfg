CONSTANTS
  a = a
  b = b
  c = c
  Router = {a, b, c}
  Origin = a
  Link <- Triangle
  MaxInstance = 3
  MaxLoss = 2
  MaxInFlight = 1
SPECIFICATION FairSpec
INVARIANTS
  TypeOK
  Backed
  Covered
  QuietAgree
PROPERTIES
  FloodingEnds
  ReplicationSpec
CHECK_DEADLOCK FALSE
