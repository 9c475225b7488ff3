SPECIFICATION Spec
CONSTANTS
    Keys = {K1, K2}
    None = None
    Empty = Empty
    MaxWrites = 2
    MaxRotations = 2
    MaxCrashes = 2
    MaxFail = 1
INVARIANT RotationAtomic
CHECK_DEADLOCK FALSE
