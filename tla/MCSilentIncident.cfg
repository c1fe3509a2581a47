SPECIFICATION FairSpec
CONSTANTS
    ContextAt <- MCContextAt
    SchwabUnhealthy = 2
    SchwabRecovery = 2
    IbkrUnhealthy = 3
    IbkrRecovery = 2
    ControlMaxAge = 1
    TransitionMaxAge = 5
    IncidentNotify = 3
    RecoveryNotify = 2
    Direct = {FALSE}
    MaxLag = 0
    MaxTime = 7
    MaxFaults = 0
CHECK_DEADLOCK FALSE
PROPERTY AlertedIsTold
