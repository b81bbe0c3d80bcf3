SPECIFICATION FairSpec
CONSTANTS
    Orders = {"left", "right"}
    Lists <- SmallLists
    Packets <- SmallPackets
    MaxBytes = 100
    Hops = 2
INVARIANT RequestsServed
CHECK_DEADLOCK FALSE
