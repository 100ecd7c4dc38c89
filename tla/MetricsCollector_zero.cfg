\* Two label sets, three task writes: does the gauge follow a count to zero?
CONSTANTS
    k1 = k1
    k2 = k2
    Keys <- MCKeys
    MaxCount = 2
    MaxChanges = 3
    DBFailures = FALSE
SPECIFICATION FairSpec
PROPERTIES
    GaugeMatchesDatabase
CHECK_DEADLOCK FALSE
