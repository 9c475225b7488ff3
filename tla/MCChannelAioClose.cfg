SPECIFICATION ChannelSpec
CHECK_DEADLOCK FALSE
CONSTANTS
    Capacity = 2
    Lens = {1, 3}
    MaxAios = 3
    MaxData = 2
INVARIANT CloseAllowed
