SPECIFICATION FairSpec
CONSTANTS
    Orders = {"left"}
    Lists <- SmallLists
    Packets <- SmallPackets
    MaxBytes = 100
    Hops = 2
INVARIANT TypeOK
INVARIANT PacketsArrive
INVARIANT LengthsTold
INVARIANT HoldersAgree
INVARIANT DirectFits
PROPERTY Delivered
CHECK_DEADLOCK FALSE
