SPECIFICATION FairSpec
CONSTANTS
    h1 = h1
    Hours = {h1}
    NoHour = NoHour
    EndOf <- MCEndOf
    HourLength = 1
    Settle = 1
    Grace = 2
    MaxLag = 1
    MaxLong = 1
    MaxRows = 2
    MaxFiles = 2
    MaxTime = 4
    MaxFaults = 1
    MaxRuns = 2
CHECK_DEADLOCK FALSE
INVARIANTS
    TypeOK
    RowsKept
    DeletionsAuthorized
    DeletedStaysInLake
    AuditComplete
    ReviewPerRevision
PROPERTIES
    CopiedEventually
    RunsEnd
