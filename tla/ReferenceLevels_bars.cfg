SPECIFICATION Spec
CONSTANTS
  None = None
  DayLength = 12
  Shift = 4
  NyBehind = 3
  BrokerStandard = 1
  DayOpens = 9
  Settles = 8
  WeekDays = 2
  MonthDays = 3
  LookbackDays = 3
  ScanBars = 65
  Targets = {2, 4, 12}
  AwayDuring <- MCAway
  Brokers <- MCBrokers
  Spring <- MCSpring
  Fall <- MCFall
  Windows <- MCWindows
  Rth <- MCRth
  Prices <- MCPrices
  Closures <- MCClosures
INVARIANTS TimeIsReadRight LongerBarsAreTheirBuckets LevelsAreCurrent
CHECK_DEADLOCK FALSE
