SPECIFICATION Spec
CONSTANTS
    NoConn = NoConn
    SeqMod = 64
    Mss = 2
    SndMax = 3
    RcvMax = 3
    MaxUnreliable = 3
    NSACKS = 2
    InitSegments = 2
    Scenarios <- MCScenarios
    Iss <- MCIss
    Writes = {1, 3}
INVARIANTS
    NothingForgotten
    ErrorHasCause
PROPERTY DeliversStream
CHECK_DEADLOCK FALSE
