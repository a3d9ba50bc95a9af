\* One event moves, one is of another currency; a fault and the way back from it.  The
\* terminal's clock changes by no more than the gate's buffers.
CONSTANTS
  nfp = nfp
  ecb = ecb
  usd = usd
  eur = eur
  Unscheduled = Unscheduled
  Events = {nfp, ecb}
  Importance <- MCImportance
  Currency <- MCCurrency
  Releases = {7, 10}
  BridgeMin = 3
  BridgeCurrencies = {}
  GateMin = 3
  GateCurrencies = {usd}
  Before = 1
  After = 1
  Lookback = 2
  Lookahead = 8
  ServerAhead <- MCServerAhead
  ClockChange = 6
  ChangedBy = 1
  UtcOffset <- MCUtcOffset
  RefreshEvery = 3
  ReadEvery = 2
  PollEvery = 1
  MaxTime = 11
  MaxChanges = 1
  MaxFaults = 1
SPECIFICATION NewsSpec
INVARIANTS KnownEventsBlock ReleasesBlock VerdictIsGrounded
CHECK_DEADLOCK FALSE
