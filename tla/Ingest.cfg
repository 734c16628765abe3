SPECIFICATION IngestFairSpec
CONSTANTS
  Contracts = 1
  PageSize = 2
  MaxPages = 2
  EventBootstrap = 1
  HorizonBootstrap = 0
  MaxLedgersPerPoll = 2
  PerLedger = 2
  MaxLedger = 3
  MaxCrashes = 1
  MaxResets = 1
INVARIANTS
  IngestInv
  NoGap
PROPERTIES
  ChainIsIndexed
