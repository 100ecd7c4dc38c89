\* Four siblings against an in-flight parent pass, failed reads, pauses, up to three crashes; refines ParentWait.
CONSTANTS
    c1 = c1
    c2 = c2
    c3 = c3
    c4 = c4
    NoOwner = NoOwner
    Children <- MCChildren4
    ParentInFlight = TRUE
    ReadFailures = TRUE
    CrashPoints = {"pass", "check"}
    MaxCrashes = 3
SPECIFICATION Spec
SYMMETRY ChildSymmetry
INVARIANTS
    TypeOK
    SiblingsWakeParent
CHECK_DEADLOCK FALSE
PROPERTIES
    ImplementsParentWait
