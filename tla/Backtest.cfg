\* A backtest from its request to its last tick.
SPECIFICATION Spec
CONSTANTS
  None = None
  Stable = {"USDC"}
  Hyperliquid = "hyperliquid"
  Id <- MCId
  SignalLists <- MCSignalLists
  DayLength = 4
  MaxReads = 2
  SeriesOrder <- MCSeriesOrder
  MaxLost = 1
  FaultyReads = TRUE
  Jobs <- MCJobs
INVARIANTS
  TypeOK
  InputsComeFirst
  RefusedOnlyCyclic
  EveryEdgeDrives
  ReadsAreRequired
  LoadIsWhole
  FundingPointsOnce
  FailPolicyRunsWhole
  ReadsAreKnown
  WarmupSuffices
PROPERTIES
  ImplementsReplay
