SPECIFICATION Spec
CONSTANTS
    w1 = w1
    intent = intent
    report = report
    rival = rival
    tIntent = tIntent
    tReport = tReport
    tUnknown = tUnknown
    tRival = tRival
    Worker = {w1}
    Event = {intent, report, rival}
    Target = {tIntent, tReport, tUnknown, tRival}
    EventOf <- MCEventOf
    Kind <- MCKind
    Opportunity <- MCOne
    Generation <- MCOne
    Slot <- MCOne
    Configured = {tIntent, tReport, tRival}
    Ttl = 2
    MaxAttempts = 1
    OwnerTerm = 3
    ClaimTerm = 2
    RetrySchedule <- MCSchedule
    IngressDelay = 1
    NoWorker = NoWorker
    NoTarget = NoTarget
    MaxTime = 2
    MaxGen = 1
    MaxReplay = 0
INVARIANT SlotSentOnce
PROPERTY UrgentFirst
