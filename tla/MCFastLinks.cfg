SPECIFICATION FairSpec
CONSTANTS
    N = 3
    Databases <- FastDatabases
PROPERTY NextHopsRestored
CHECK_DEADLOCK FALSE
