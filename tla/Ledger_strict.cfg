\* The ledger under the strict balance policy.
SPECIFICATION Spec
CONSTANTS
  USDC = USDC
  ETH = ETH
  BTC = BTC
  v1 = v1
  aave = aave
  o1 = o1
  o2 = o2
  Venues <- MCVenues
  Assets <- MCAssets
  Symbols <- MCSymbols
  Pools <- MCPools
  OrderIds <- MCOrderIds
  AllowNegative = FALSE
  InitialAmounts = {0, 2}
  Amounts <- MCAmounts
  Interests <- MCInterests
  Positions <- MCPositions
  BalanceBound = 2
SYMMETRY OrderSymmetry
INVARIANTS
  TypeOK
  NoOvercommit
PROPERTIES
  YieldMovesConserve
  ImplementsEscrow
