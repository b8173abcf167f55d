SPECIFICATION FairSpec
CONSTANTS
  Speeds = {100, 1000}
  Requests = {100, 1000}
  StableSamples = 3
  MaxPolls = 5
  MaxBlocks = 2
  MaxBlips = 2
  MaxErrors = 1
INVARIANTS RestoredInv FinalizerRestores
PROPERTIES WaitsStable BlocksEnd
CHECK_DEADLOCK FALSE
