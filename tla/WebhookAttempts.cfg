SPECIFICATION IndexerSpec
CONSTANTS
  Contracts = 1
  PageSize = 2
  MaxPages = 1
  EventBootstrap = 1
  HorizonBootstrap = 0
  MaxLedgersPerPoll = 1
  PerLedger = 1
  MaxLedger = 2
  MaxCrashes = 0
  MaxResets = 0
  Subscriptions = {s1}
  Events <- MCEvents
  Matching <- MCMatching
  Rounds = {r1, r2}
  MaxAttempts = 2
  BaseBackoff = 1
  MaxBackoff = 2
  Interval = 1
  Timeout = 1
  Limit = 2
INVARIANT StopsAfterMaxAttempts
