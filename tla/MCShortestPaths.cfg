SPECIFICATION FairSpec
CONSTANTS
    N = 4
    Databases <- MixedDatabases
INVARIANT TypeOK
INVARIANT SmallestPredecessor
INVARIANT ShortestCosts
INVARIANT RoutesShortest
INVARIANT ForwardingDelivers
PROPERTY NextHopsRestored
CHECK_DEADLOCK FALSE
