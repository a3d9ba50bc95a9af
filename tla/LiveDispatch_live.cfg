SPECIFICATION DispatchSpec
CONSTANTS
  Unit = 1000
  DailyLossLimit = 50
  TotalDrawdownLimit = 200
  SafetyBuffer = 5
  WarningThreshold = 700
  CriticalThreshold = 900
  DailyLossMode = "DRAWDOWN_HEADROOM"
  DailyHaltAtTotalUsage = 650
  HighWaterMark = 0
  HighWaterMarkDrawdown = 0
  NoPosition = NoPosition
  RiskFraction = 50
  MaxOpenPositions = 1
  MinSteps = 1
  MaxSteps = 5
  StepLosses = {2, 4}
  StartCash = 100
  Gain = 4
  Gap = 16
  Slippage = 1
  Deposit = 20
  MaxCash = 110
  MaxTicket = 3
  MaxDay = 2
INVARIANTS NoSecondTradeInTime RiskIsBounded BreachEndsSession
