SPECIFICATION Spec
CONSTANTS
    event = event
    bark = bark
    feishu = feishu
    Event = {event}
    Row = {bark}
    EventOf <- MCEventOf
    Inline = {event}
    Huey = Huey
    NoRow = NoRow
    MaxDelivery = 3
    TaskRetries = 1
    MaxEnqueues = 2
    MaxCancels = 1
    MaxFaults = 2
INVARIANTS
    StatusBacked
    ResentOnlyRetaken
CHECK_DEADLOCK FALSE
