SPECIFICATION Spec
CONSTANTS
    N = 2
    QCap = 3
    Sends <- TwoSends
    RxMax <- TwoRxMax
    HdrLen = 1
    BodyLens = {1}
    Windows = {0, 2}
    Timeout = 1
    TickMod = 2
INVARIANTS OutputInv NothingLost EventHandled
PROPERTIES WholeResponse
