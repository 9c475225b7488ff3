CONSTANTS
    None = None
    Ini = Ini
    Res = Res
    MaxKex = 3
    MaxData = 2
    MTU = 3
    Addresses = {1, 2}
    Few = 2
    Many = 3
    MaxChanges = 2
    MaxEchoes = 1
SPECIFICATION MCSpec
INVARIANT NoFailure
INVARIANT KeyAgreement
PROPERTY InOrderDelivery
PROPERTY SessionProgress
PROPERTY UdpFound
CHECK_DEADLOCK FALSE
