\* A price without a venue while two venues are loaded.
SPECIFICATION Spec
CONSTANTS
  None = None
  Stable = {"USDC"}
  Hyperliquid = "hyperliquid"
  Id <- MCId
  SignalLists <- MCSignalLists
  DayLength = 4
  MaxReads = 2
  SeriesOrder <- MCSeriesOrder
  MaxLost = 0
  FaultyReads = FALSE
  Jobs <- VenueJobs
INVARIANTS
  UnpinnedPriceIsResolved
