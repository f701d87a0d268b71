CONSTANTS
    t1 = t1
    t2 = t2
    Tab = {t1, t2}
    MaxCalls = 3
    Layouts = {"fresh", "current", "sealed", "pre98", "broken", "seedless"}
    MaxOpen = 2
    MaxUnlocked = 1
    MaxMishaps = 1
SPECIFICATION Spec
SYMMETRY MCSymmetry
INVARIANTS
    TypeOK
    PairMatched
    CachedWasSaved
    OneIdentity
    PairOpens
    SealedForOwner
    SealedDurable
PROPERTY IdentityKept
\* The calls are numbered and run out.
CHECK_DEADLOCK FALSE
