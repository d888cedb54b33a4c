\* Limit orders, deferred orders, perps and yields under the strict policy.
SPECIFICATION Spec
CONSTANTS
  USDC = USDC
  BTC = BTC
  V = V
  aave = aave
  NoBar = NoBar
  Venues <- MCVenues
  Assets <- MCAssets
  Symbols <- MCSymbols
  Pools <- MCPools
  OrderIds <- MCOrderIds
  PerpOrder <- MCPerpOrder
  YieldOrder <- MCYieldOrder
  Gasless = {}
  FeeBps = 2500
  SlippageBps = 2500
  MaintenanceBps = 2000
  AllowNegative = FALSE
  Ticks = 3
  Simulations <- MCSimulations
INVARIANTS
  TypeOK
  EarmarksMatchOrders
  FundsRefusedOnlyByGas
  FillsWithinTimeInForce
  NoZombiePositions
  ChainsFollowExecution
PROPERTIES
  LimitFillsAtTradedPrice
  FundingReconciles
  RefusalsLeaveNoTrace
  ImplementsOrderBook
  StepsDescend
