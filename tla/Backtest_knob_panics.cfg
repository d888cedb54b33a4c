\* Policies that validation accepts and the engine cannot read.
SPECIFICATION Spec
CONSTANTS
  None = None
  Stable = {"USDC"}
  Hyperliquid = "hyperliquid"
  Id <- MCId
  SignalLists <- MCSignalLists
  DayLength = 4
  MaxReads = 2
  SeriesOrder <- MCSeriesOrder
  MaxLost = 0
  FaultyReads = FALSE
  Jobs <- KnobJobs
INVARIANTS
  AcceptedPoliciesNeverPanic
