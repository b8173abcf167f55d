SPECIFICATION FairSpec
CONSTANTS
    Cap = 3
    N = 1
    Peers = {p1, p2}
    NoPeer = NoPeer
    MaxFlight = 2
    Windows = {TRUE, FALSE}
    MaxBusy = 1
    Rto = 1
    RtoMax = 1
    RtoMod = 2
    MaxRtx = 1
    DupThresh = 2
    Msl2 = 1
    PersistInitial = 1
    PersistMax = 2
    ShiftCap = 2
    IdleSynRcvd = 1
    IdleEstab = 2
    IdleFinWait = 1
    IdleCloseWait = 1
    ReaperInterval = 1
    UseDhcp = FALSE
    Others = 0
    OtherDelay = 1
PROPERTIES SynRcvdReclaimed SilentReclaimed
