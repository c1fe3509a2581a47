SPECIFICATION Spec
CONSTANTS
    Nothing = Nothing
    Document <- MCDocument
    Reason <- MCReason
    At <- MCAt
    Content <- MCContent
    Session <- MCSession
    Health <- MCHealth
    HealthEpoch <- MCHealthEpoch
    Healthy <- MCHealthy
    MaxRejected = 1
    MaxChanges = 1
    MaxFaults = 1
    MaxBoots = 2
    MaxRuns = 2
INVARIANTS
    TypeOK
    StateValid
    NeverStale
    ReadyMirrors
CHECK_DEADLOCK FALSE
