\* Siblings finish while the parent's own pass still holds the lock.
CONSTANTS
    c1 = c1
    c2 = c2
    c3 = c3
    c4 = c4
    NoOwner = NoOwner
    Children <- MCChildren2
    ParentInFlight = TRUE
    ReadFailures = FALSE
    CrashPoints = {}
    MaxCrashes = 0
SPECIFICATION FairSpec
PROPERTIES
    ParentEventuallyResolved
CHECK_DEADLOCK FALSE
