\* Every route shape, every caller, maintenance mode off.
CONSTANTS
    q1 = q1
    Requests <- MCRequests
    FMaintenanceMode = FALSE
SPECIFICATION Spec
INVARIANTS
    TypeOK
    RefusedRequestHasNoEffect
    ServedCallerIsAuthorized
    StatsFiltersByItsTags
