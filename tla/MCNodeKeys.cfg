CONSTANTS
    None = None
    Win = 2
    Scenarios <- MCScenarios
SPECIFICATION FairSpec
INVARIANT KeysAgree
INVARIANT AbortHasCause
PROPERTY KeysSettle
CHECK_DEADLOCK FALSE
