CONSTANTS
    Win = 4
    SeqMod = 8
    MaxSent = 10
    N = 4
    None = None
    Self = 1
    SearchLinks <- Diamond
    MaxWeight = 2
    Rooms = {2, 9, 40, 70000}
    Byte = {0, 1}
    MaxSizes = {1, 4}
    Unit = 1
    Keys = {1, 2, 3, 4, 5}
    Peers = {p, q}
    Addrs = {1, 2, 3}
    MaxRecent = 2
    Followed = {p}
    Null = Null
    Freed = Freed
SPECIFICATION MCSpec
INVARIANT NoReplay
CHECK_DEADLOCK FALSE
