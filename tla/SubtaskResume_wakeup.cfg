\* Siblings finish after the parent's pass committed WAITING.
CONSTANTS
    c1 = c1
    c2 = c2
    c3 = c3
    c4 = c4
    NoOwner = NoOwner
    Children <- MCChildren3
    ParentInFlight = FALSE
    ReadFailures = FALSE
    CrashPoints = {"pass"}
    MaxCrashes = 2
SPECIFICATION FairSpec
PROPERTIES
    ParentEventuallyResolved
CHECK_DEADLOCK FALSE
