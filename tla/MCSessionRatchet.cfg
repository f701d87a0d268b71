SPECIFICATION Spec
CONSTANTS
    d1 = d1
    d2 = d2
    Call <- MCCall
    RECV_WINDOW_SIZE = 3
    RECV_LOOKAHEAD = 1
    MaxCounter = 5
INVARIANTS
    TypeOK
    KeysMatchSender
    WindowExact
    NoLateReplay
    WindowHasKeys
    ForwardSecrecy
    SpoofCannotAdvance
    SurvivesShortGap
PROPERTY
    ImplementsPromise
\* Once MaxCounter is reached and every frame is delivered nothing is left to do.
CHECK_DEADLOCK FALSE
