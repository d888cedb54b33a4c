\* Deferred orders and perps where balances may go negative.
SPECIFICATION Spec
CONSTANTS
  USDC = USDC
  BTC = BTC
  V = V
  aave = aave
  NoBar = NoBar
  Venues <- MCVenues
  Assets <- MCAssets
  Symbols <- MCSymbols
  Pools <- MCPools
  OrderIds <- MCOrderIds
  PerpOrder <- MCPerpOrder
  YieldOrder <- MCYieldOrder
  Gasless = {}
  FeeBps = 2500
  SlippageBps = 2500
  MaintenanceBps = 2000
  AllowNegative = TRUE
  Ticks = 3
  Simulations <- PerpsDeferred
INVARIANTS
  NeverPanics
