\* A two-task batch without database failures: is a notified task always stored?
CONSTANTS
    BatchSize = 2
    DBFailures = FALSE
SPECIFICATION Spec
INVARIANTS
    NotifiedTaskExists
CHECK_DEADLOCK FALSE
