SPECIFICATION Spec
CONSTANTS
  Payloads <- MCPayloads
  ChunkSize = 2
  Faults = {"drop", "colon", "garble", "short", "cut", "lost"}
  Residuals = {1, 5}
  Pages = {1}
  Counts = {0, 1, 3}
  Procs = {1, 2, 3, 4, 5}
  Parent <- MCParent
  Procs0 <- MCProcs0
  Self = 3
  Foreign = {5}
  MaxFaults = 1
  MaxRuns = 1
  MaxTries = 2
INVARIANT FlashedWhole
CHECK_DEADLOCK FALSE
