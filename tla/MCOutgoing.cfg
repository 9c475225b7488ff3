SPECIFICATION Spec
CHECK_DEADLOCK FALSE
CONSTANTS
    Peers = {1, 2}
    Class <- TwoClasses
    MyClass = 1
    MinConnects = 1
    MaxConnects = 1
    RetryRounds = 1
    Canonical = {1}
    Connected = {}
    MaxConns = 3
    MaxAddresses = 1
    MaxChanges = 1
INVARIANT OneAttempt
INVARIANT OneActive
INVARIANT OutgoingLives
