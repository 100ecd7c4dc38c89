\* A three-task batch with every template, caller, input and write failure.
CONSTANTS
    BatchSize = 3
    DBFailures = TRUE
SPECIFICATION Spec
INVARIANTS
    CreationAllOrNothing
CHECK_DEADLOCK FALSE
