SPECIFICATION Spec
CONSTANTS
    k1 = k1
    k2 = k2
    Slot <- MCSlot
    MaxFrames = 4
    Faults = FALSE
INVARIANT ReplaysDropped
CHECK_DEADLOCK FALSE
