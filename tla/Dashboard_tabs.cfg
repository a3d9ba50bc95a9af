SPECIFICATION DashboardSpec
CONSTANTS
  Browsers = {b1, b2}
  QueueSize = 2
  MaxWire = 2
  MaxPublish = 4
CHECK_DEADLOCK FALSE
INVARIANTS HonestWithoutConnection TabsCatchUp
PROPERTIES NoTabGoesBack
