CONSTANTS
    Keys = {K1, K2}
    None = None
    Empty = Empty
    MaxWrites = 2
    MaxRotations = 2
    MaxCrashes = 2
    MaxFail = 1
    Invitations = {1, 2}
    NameOf <- SameName
    Devices = {d1, d2}
    MaxJoins = 2
    MaxRestarts = 2
    NoNode = NoNode
    HostAddrs = {1, 2, 3}
    MaxKnown = 2
    DevClasses = {1, 2}
    MaxEvents = 4
    MaxBadWrites = 1
    Capacity = 2
    Lens = {1, 3}
    MaxAios = 3
    MaxData = 1
SPECIFICATION MCSpec
INVARIANT ConfigIntact
PROPERTY RotationRecovers
INVARIANT OneUse
INVARIANT JoinedIsKnown
INVARIANT OneIdentity
INVARIANT NodeRemembered
INVARIANT CloseAllowedOnce
INVARIANT EndsForAReason
PROPERTY SentInOrder
CHECK_DEADLOCK FALSE
