\* Three tiers, a scan window shorter than the history, and calls the terminal misses.
CONSTANTS
  None = None
  ShapesAt <- MCShapesAt
  History <- MCHistory
  Tiers <- MCTiers
  AtrPeriod = 2
  ScanBars = 8
  ErPeriod = 2
  ScalePeriod = 3
  AwayDuring = {8}
  MaxBars = 13
  RegimeTier = "internal"
  SessionOf <- MCSessionOf
  BucketOf <- MCBucketOf
  YearOf <- MCYearOf
  Stride = 2
  HurstPeriod = 6
  HurstFit <- MCHurstFit
  FittedState <- MCFittedState
  MinSamples = 3
  MaxGap = 2
  Killzone <- MCKillzone
  DayOf <- MCDayOf
  WeekOf <- MCWeekOf
  Regular <- MCRegular
  Unsettled <- MCUnsettled
  OpeningOf <- MCOpeningOf
  Setups <- MCSetups
  ErTrend <- MCErTrend
  ErChop <- MCErChop
  ShallowDepth <- MCShallow
  DeepDepth <- MCDeep
SPECIFICATION ObservationSpec
INVARIANTS SwingsAreAgreed ChartIsCurrent RegimeKeepsItsWord FeedIsTheRun
INVARIANTS ReportsCountOnce RangesFollowTheirBars LongerFramesAreRight DetectorsLookBackOnly
CHECK_DEADLOCK FALSE
