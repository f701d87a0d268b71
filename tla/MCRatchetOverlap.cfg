SPECIFICATION Spec
CONSTANTS
    d1 = d1
    d2 = d2
    Call <- MCCall
    RECV_WINDOW_SIZE = 3
    RECV_LOOKAHEAD = 1
    MaxCounter = 5
INVARIANT DeliveredOnce
CHECK_DEADLOCK FALSE
