SPECIFICATION Spec
CONSTANTS
  Unit = 1000
  DailyLossLimit = 50
  TotalDrawdownLimit = 100
  SafetyBuffer = 5
  WarningThreshold = 700
  CriticalThreshold = 900
  DailyLossMode = "FIXED"
  DailyHaltAtTotalUsage = 650
  HighWaterMark = 0
  HighWaterMarkDrawdown = 0
  Accounts = {a1, a2}
  Equities = {90, 91, 95, 96, 100, 104}
  MaxDay = 3
  Absent = Absent
  Torn = Torn
SYMMETRY AccountSymmetry
INVARIANTS TypeOK MemoryExtendsDisk BreachIsPermanent OwnFileAlwaysLoads
PROPERTIES ImplementsLedger NewDayClearsDailyBreach
