SPECIFICATION MCSpec
CHECK_DEADLOCK FALSE
CONSTANTS
    MaxStarts = 2
    MaxSends = 2
    MaxRequests = 2
    MaxCalls = 1
    Fds = {1, 2}
    Timers = {1}
    Delays = {0, 1}
    Acts = 2
    MaxErrors = 1
INVARIANT WakeupPending
INVARIANT StoppedIsClean
INVARIANT LoopServes
PROPERTY CallsReturn
