SPECIFICATION ContractsSpec
CONSTANTS
  MaxNow = 2
  Admins = {a1}
  Plans <- MCPlans
  Amounts = {3}
  MaxEscrows = 2
  MaxDeposit = 3
  MaxLedger = 1
  Depositors = {u1, u2}
  BackstopAmounts = {2, 3}
  SmallestDeposit = 2
  LargestDeposit = 3
  ClaimDelay = 1
  MaxBackstop = 5
  Operators = {u1, u2}
  StakeAmounts = {1, 2, 3}
  MinStake = 2
  RewardRateBps = 5000
  MaxStaking = 5
  MaxPool = 3
  MaxRewards = 2
  Farmers = {u1, u2}
  FarmAmounts = {1, 2}
  Rates = {1, 3}
  FirstRate = 1
  MaxStake = 4
  MaxFunding = 4
  Savers = {u1, u2}
  VaultAmounts = {1, 2}
  Caps = {2, 5}
  FirstCap = 2
  Strategies = {s1, s2}
  UsdcUsers = {u1, u2}
  UsdcAmounts = {1, 2}
  Minimums = {0, 1, 2}
  UsdcAdmins = {a1, a2}
  FirstUsdcAdmin = a1
  MaxUsdc = 4
  WpiHolders = {u1, u2}
  WpiAmounts = {1, 2}
  WpiAdmins = {a1, a2}
  FirstWpiAdmin = a1
  MaxWpi = 2
  LpHolders = {u1, u2}
  LpAmounts = {1, 2}
  MaxLp = 3
  Providers = {u1, u2}
  LiquidityAmounts = {1, 3, 4}
  SwapAmounts = {1, 3}
  CpmmFeeBps = 30
  MaxReserve = 9
  StableProviders = {u1, u2}
  StableLiquidity = {1, 3, 4}
  StableSwaps = {1, 3}
  Amplification = 10
  StableFees = {0, 30}
  MaxStable = 8
  MaxStableShares = 12
  PoolTokens = {x, y}
  PoolAddresses = {c1, c2}
  PoolUsers = {a1, u1}
  FactoryAdmin = a1
  MaxPools = 3
  RouteTokens = {x, y, z}
  MaxRoutes = 3
  EscrowAddresses = {c1, c2}
  EscrowUsers = {a1, u1}
  EscrowAdmin = a1
  MaxInstances = 3
  FeeTypes = {swap, lending}
  FeeConfigs <- MCFeeConfigs
  Fees <- MCFees
  FeeAdmins = {a1, a2}
  FirstFeeAdmin = a1
  FeeWhole = 4
  Collected = 6
  OracleAssets = {x, y}
  OraclePrices <- MCOraclePrices
  OracleAdmins = {a1, a2}
  FirstOracleAdmin = a1
  Ages = {1, 2}
  FirstAge = 1
  Deviations = {0, 2, 4}
  FirstDeviation = 2
  WholeBps = 4
  DeviationRange = 16
INVARIANTS
  TypeOK
  PaysItsDeposits
  MoneyAddsUp
  RefundJustified
  CompletedIsEarned
  BackstopBooks
  StakingBooks
  RewardsWithinEmission
  AmountsAccountedFor
  AnswersAreRight
PROPERTIES
  DepositsComeBack
  SharesKeepTheirWorth
  StableSharesKeepTheirWorth
CHECK_DEADLOCK FALSE
