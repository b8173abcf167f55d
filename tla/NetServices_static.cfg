SPECIFICATION FairSpec
CONSTANTS
    Cap = 6
    PetPeriod = 2
    WdogTimeout = 5
    MaxBusy = 2
    ReaperInterval = 3
    ArpRefresh = 5
    NtpPoll = 1
    ShiftCap = 2
    Retrans = 1
    MaxRetries = 1
    Leases = {4}
    IPs = {1, 2}
    ProbeGap = 1
    AnnounceGap = 4
    UseDhcp = FALSE
    Users = 1
    UserDelay = 1
INVARIANT MdnsCycleArmed
PROPERTIES MdnsReachesLive NtpKeepsPolling
