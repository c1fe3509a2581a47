SPECIFICATION FairSpec
CONSTANTS
    event = event
    bark = bark
    feishu = feishu
    Event = {event}
    Row = {bark}
    EventOf <- MCEventOf
    Inline = {}
    Huey = Huey
    NoRow = NoRow
    MaxDelivery = 3
    TaskRetries = 2
    MaxEnqueues = 2
    MaxCancels = 2
    MaxFaults = 3
INVARIANTS
    TypeOK
    SentOnce
    ReceivedRemembered
    CancelStopsRetries
PROPERTIES
    ResolvedWithoutFaults
CHECK_DEADLOCK FALSE
