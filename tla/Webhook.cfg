SPECIFICATION OutboxFairSpec
CONSTANTS
  Subscriptions = {s1, s2}
  Events = {e1}
  Matching <- MCMatching
  Rounds = {r1, r2}
  MaxAttempts = 2
  BaseBackoff = 1
  MaxBackoff = 2
  Interval = 1
  Timeout = 1
  Limit = 2
  MaxCrashes = 1
INVARIANTS
  OutboxInv
PROPERTIES
  DeliveredStays
  DeliveriesSettle
