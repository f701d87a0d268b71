CONSTANTS
    m1 = m1
    m2 = m2
    m3 = m3
    b1 = b1
    b2 = b2
    b3 = b3
    p1 = p1
    p2 = p2
    Peer = {p1, p2}
    Msg = {m1, m2, m3}
    Parts <- MCParts
    Hash <- MCHash
    LruCap = 1
    InboxCap = 2
    QuotaEvict = 1
    MaxSends = 3
    MaxOut = 2
    MaxReloads = 1
    MaxQuota = 1
SPECIFICATION Spec
SYMMETRY MCSymmetry
INVARIANTS
    TypeOK
    InboxBounded
    OncePerLife
    MarkedWasHanded
    CleanLink
PROPERTIES
    DurableDedup
    ConsumedStays
\* The sends run out.
CHECK_DEADLOCK FALSE
