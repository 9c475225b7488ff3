SPECIFICATION Spec
CHECK_DEADLOCK FALSE
CONSTANTS
    Peers = {1, 2, 3}
    Class <- ThreePeers
    MyClass = 1
    MinConnects = 1
    MaxConnects = 2
    RetryRounds = 1
    Canonical = {}
    Connected = {1, 2, 3}
    MaxConns = 3
    MaxAddresses = 1
    MaxChanges = 0
PROPERTY DisconnectsWorst
