SPECIFICATION Spec
CONSTANTS
    k1 = k1
    k2 = k2
    Slot <- MCSlot
    MaxFrames = 4
    Faults = TRUE
SYMMETRY MCSymmetry
INVARIANTS
    TypeOK
    KeysAgree
    FinishOrder
PROPERTY
    SessionSafe
\* A handshake ends; nothing is left to do when no frame may arrive any more.
CHECK_DEADLOCK FALSE
