\* A chart of three-bar bars, two renames a publish, two crashes, hangs or reloads.
CONSTANTS
  None = None
  Prices <- MCPrices
  States <- MCStates
  SessionOf <- MCSessionOf
  TrimFrom = 2
  ChartFrame = 3
  Attempts = 2
  MaxCrashes = 2
  ErTrend <- MCOne
  ErChop <- MCOne
  ShallowDepth <- MCOne
  DeepDepth <- MCOne
SPECIFICATION Spec
INVARIANTS FeedIsTakenWhole
PROPERTIES TheWatchGoesOn ChartCatchesUp
