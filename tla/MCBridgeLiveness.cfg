SPECIFICATION FairSpec
CONSTANTS
    Nothing = Nothing
    Document <- MCDocument
    Reason <- MCReason
    At <- MCAt
    Content <- MCContent
    Session <- MCSession
    Health = {}
    HealthEpoch <- MCHealthEpoch
    Healthy <- MCHealthy
    MaxRejected = 2
    MaxChanges = 2
    MaxFaults = 1
    MaxBoots = 1
    MaxRuns = 2
INVARIANTS
    FenceHolds
PROPERTIES
    PendingResolved
    CatchesUp
CHECK_DEADLOCK FALSE
