\* Every route shape, every caller, maintenance mode on.
CONSTANTS
    q1 = q1
    Requests <- MCRequests
    FMaintenanceMode = TRUE
SPECIFICATION Spec
INVARIANTS
    RefusedRequestHasNoEffect
