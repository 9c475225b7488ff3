SPECIFICATION Spec
CONSTANTS
    NoConn = NoConn
    SeqMod = 64
    Mss = 5
    SndMax = 8
    RcvMax = 8
    MaxUnreliable = 8
    NSACKS = 4
    InitSegments = 2
    Stream = 9
    MaxRetransmits = 1
INVARIANT InOrder
CHECK_DEADLOCK FALSE
