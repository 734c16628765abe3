SPECIFICATION FairSpec
CONSTANTS
  Users = {u1, u2}
  Deployed <- MCDeployed
  Configs <- MCConfigs
  Prices <- MCPrices
  Basis = 3
  RateScale = 1
  MaxAge = 1
  Amounts = {3}
  Pledges = {3}
  Offers = {2}
  MaxCash = 6
  MaxCollateral = 3
  MaxLedger = 2
  Watched = {u1}
  MaxRepay = 3
  BotBonus = 1
  Slippage = 0
  MaxEvents = 5
INVARIANTS
  LendingInv
PROPERTIES
  OnlyTheMarketHurts
  
  LiquidationIsDue
  BotGetsItsMinimum
  BadDebtIsCollected
