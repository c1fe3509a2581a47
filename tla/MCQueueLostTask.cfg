SPECIFICATION FairSpec
CONSTANTS
    event = event
    bark = bark
    feishu = feishu
    Event = {event}
    Row = {bark}
    EventOf <- MCEventOf
    Inline = {}
    Huey = Huey
    NoRow = NoRow
    MaxDelivery = 2
    TaskRetries = 1
    MaxEnqueues = 1
    MaxCancels = 0
    MaxFaults = 1
PROPERTY AcceptedResolved
CHECK_DEADLOCK FALSE
