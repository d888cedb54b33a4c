\* A reduce-only limit that outlives the position it was placed against.
SPECIFICATION Spec
CONSTANTS
  USDC = USDC
  BTC = BTC
  V = V
  aave = aave
  NoBar = NoBar
  Venues <- MCVenues
  Assets <- MCAssets
  Symbols <- MCSymbols
  Pools <- MCPools
  OrderIds <- MCOrderIds
  PerpOrder <- MCPerpOrder
  YieldOrder <- MCYieldOrder
  Gasless = {}
  FeeBps = 2500
  SlippageBps = 0
  MaintenanceBps = 0
  AllowNegative = FALSE
  Ticks = 3
  Simulations <- FlipSimulations
PROPERTIES
  ReduceOnlyFillsInItsDirection
