SPECIFICATION Spec
CONSTANTS
    Cap = 2
    N = 2
    Peers = {p1, p2}
    NoPeer = NoPeer
    MaxFlight = 1
    Windows = {FALSE}
    MaxBusy = 1
    Rto = 1
    RtoMax = 1
    RtoMod = 2
    MaxRtx = 1
    DupThresh = 1
    Msl2 = 1
    PersistInitial = 1
    PersistMax = 1
    ShiftCap = 1
    IdleSynRcvd = 1
    IdleEstab = 1
    IdleFinWait = 1
    IdleCloseWait = 1
    ReaperInterval = 1
    UseDhcp = TRUE
    Others = 1
    OtherDelay = 1
SYMMETRY PeerSymmetry
INVARIANTS TableInv HandleOwned ReaperPinned
