CONSTANTS
    p1 = p1
    p2 = p2
    r1 = r1
    r2 = r2
    None = None
    Msg <- MCMsg
    Page <- MCPage
    Drain <- MCDrain
    maxEntries = 1
    MAX_OUTBOX_ATTEMPTS = 2
    MAX_DRAIN_PER_CYCLE = 1
    MaxEnqueues = 3
    MaxFaults = 1
    MaxTime = 2
SPECIFICATION Spec
INVARIANTS
    TypeOK
    Bounded
    SentWasRelayed
    GivenUpLate
    FlagExact
PROPERTY Drained
CHECK_DEADLOCK FALSE
