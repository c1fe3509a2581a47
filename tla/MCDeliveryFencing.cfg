SPECIFICATION Spec
CONSTANTS
    w1 = w1
    w2 = w2
    e1 = e1
    t1 = t1
    Worker = {w1, w2}
    Event = {e1}
    Target = {t1}
    EventOf <- MCEventOf
    Kind <- MCKind
    Opportunity <- MCOne
    Generation <- MCOne
    Slot <- MCOne
    Configured = {t1}
    Ttl = 3
    MaxAttempts = 2
    OwnerTerm = 2
    ClaimTerm = 1
    RetrySchedule <- MCSchedule
    IngressDelay = 0
    NoWorker = NoWorker
    NoTarget = NoTarget
    MaxTime = 4
    MaxGen = 3
    MaxReplay = 1
SYMMETRY MCSymmetry
INVARIANTS
    TypeOK
    SchemaChecks
    AtMostOncePerReplay
    ReceivedIsRemembered
    EvidenceComplete
    ProvenanceHolds
PROPERTIES
    ImplementsContract
