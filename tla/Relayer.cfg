SPECIFICATION FairSpec
CONSTANTS
  Amounts = {1, 3}
  Fees <- MCFees
  Funds = 6
  Page = 2
  Faults = {"crash", "submit", "revert", "wait"}
  MaxBurns = 2
  MaxLedger = 2
INVARIANTS
  RelayerInv
PROPERTIES
  ImplementsTransfer
  BurnsArrive
  BurnsSettle
