SPECIFICATION FairSpec
CONSTANTS
    Cap = 2
    R = 2
    Keys = {k1, k2}
    NoKey = NoKey
    Unit = 2
    Units = 2
    FrameBytes = 3
    Timeout = 1
    MaxBusy = 1
    UseDhcp = TRUE
    Others = 1
INVARIANTS SlotInv ReasmHandleOwned DeliversWhole OracleAgrees
PROPERTY SlotReclaimed
