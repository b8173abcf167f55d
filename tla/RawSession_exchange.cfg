SPECIFICATION FairSpec
CONSTANTS
  MaxProbes = 1
  MaxWaits = 2
  MaxFaults = 1
  MaxOps = 3
  MaxLoss = 1
  MaxRtx = 1
INVARIANTS NothingLeaked CapturedInOrder SeqNotAhead
PROPERTY ExchangeEnds
CHECK_DEADLOCK FALSE
