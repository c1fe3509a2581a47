SPECIFICATION Spec
CONSTANTS
    ContextAt <- MCContextAt
    SchwabUnhealthy = 2
    SchwabRecovery = 2
    IbkrUnhealthy = 3
    IbkrRecovery = 2
    ControlMaxAge = 1
    TransitionMaxAge = 5
    IncidentNotify = 3
    RecoveryNotify = 2
    Direct = {TRUE, FALSE}
    MaxLag = 1
    MaxTime = 9
    MaxFaults = 1
CHECK_DEADLOCK FALSE
INVARIANTS
    TypeOK
    EntriesBacked
PROPERTIES
    RecoveryEarned
    AnnouncedLasted
