SPECIFICATION Spec
CONSTANTS
    w1 = w1
    setup = setup
    ready = ready
    exit = exit
    tSetup = tSetup
    tReady = tReady
    tExit = tExit
    Worker = {w1}
    Event = {setup, ready, exit}
    Target = {tSetup, tReady, tExit}
    EventOf <- MCEventOf
    Kind <- MCKind
    Opportunity <- MCOpportunity
    Generation <- MCGeneration
    Slot <- MCSlot
    Configured = {tSetup, tReady, tExit}
    Ttl = 2
    MaxAttempts = 2
    OwnerTerm = 3
    ClaimTerm = 2
    RetrySchedule <- MCSchedule
    IngressDelay = 0
    NoWorker = NoWorker
    NoTarget = NoTarget
    MaxTime = 2
    MaxGen = 1
    MaxReplay = 0
INVARIANTS
    SupersededNeverFresh
