SPECIFICATION FairSpec
CONSTANTS
    N = 1
    QCap = 2
    Sends <- OneSends
    RxMax <- OneRxMax
    HdrLen = 1
    BodyLens = {1}
    Windows = {0, 2}
    Timeout = 1
    TickMod = 2
PROPERTIES PollReturns ResponseEnds RecvEnds
