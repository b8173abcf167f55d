SPECIFICATION Spec
CONSTANTS
    Varied = {"ip"}
    MaxTableEdits = 1
    Tools = {"dhcp", "http"}
    S = {s1, s2}
    E = {e1, e2}
    MaxRowEdits = 2
    NumFiles = 3
    IndexFile = 2
    MaxBody = 2
    DefaultRoutes = 4
    OtherRoutes = 2
    Gross = 25
    OtherContent = 12
INVARIANTS SuitePinsTable VerifiedTableAgrees ShippedBoots PackagedServes
CHECK_DEADLOCK FALSE
