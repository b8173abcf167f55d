SPECIFICATION FairSpec
CONSTANTS
    Cap = 8
    PetPeriod = 1
    WdogTimeout = 3
    MaxBusy = 1
    ReaperInterval = 1
    ArpRefresh = 1
    NtpPoll = 1
    ShiftCap = 0
    Retrans = 1
    MaxRetries = 1
    Leases = {3}
    IPs = {1}
    ProbeGap = 1
    AnnounceGap = 1
    UseDhcp = TRUE
    Users = 1
    UserDelay = 0
INVARIANTS TypeOK NoBite Pinned LeaseTimersKept
PROPERTY LeaseProgress
