SPECIFICATION FairSpec
CONSTANTS
  Amounts = {2}
  Fees <- MCOneFee
  Funds = 4
  Page = 2
  Faults = {"crash"}
  MaxBurns = 1
  MaxLedger = 2
PROPERTIES
  RestartCatchesUp
