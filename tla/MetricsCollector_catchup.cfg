\* Two label sets, three task writes, failing DB and queries, shutdown.
CONSTANTS
    k1 = k1
    k2 = k2
    Keys <- MCKeys
    MaxCount = 2
    MaxChanges = 3
    DBFailures = TRUE
SPECIFICATION FairSpec
PROPERTIES
    GaugeCatchesUp
CHECK_DEADLOCK FALSE
