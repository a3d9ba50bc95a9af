# Vector Odyssey: models, checks and proofs

Vector Odyssey is a trading system of three processes. A bridge inside the
MetaTrader 5 terminal (MQL5) writes market data to JSONL files. A Python process, the EA,
reads those files, observes, decides, checks its risk and compliance limits, and sends
orders through the terminal. A dashboard backend (FastAPI) listens to the EA and shows its
state in browsers. Indicators in the terminal draw, with ports of the Python code, what the
Python code measures; scripts replay history and report on it. This directory holds TLA+
modules of the parts that keep state and can go wrong by order, failure or arithmetic, the
TLC configurations that check them, and TLAPS proofs about the parts that can lose an account
(compliance, preflight, live dispatch, closeout, the news gate), about what goes between the
processes (the wire, the publisher, the dashboard, the regime feed), and about the cycle that
decides what the strategy may call a reversal, and about the clocks and longer bars that all of
them read.

Paths below are relative to `src/`. `vo/` is `python/vo/`.

## 1. The system

### 1.1 Components

| component | state it keeps | operations | talks to |
|---|---|---|---|
| compliance engine `vo/compliance/engine.py` | login, peak equity, the trading day and its start equity, the total-breach latch | `on_snapshot`, `headroom_rejection`, `approve_trade`, `persistent_state` | called by live dispatch; asks the news gate |
| state file `vo/compliance/state_store.py` | one JSON file | `load_compliance_state`, `save_compliance_state` | the engine's constructor |
| calendar bridge, news gate `mql5/.../VO_CalendarBridge.mq5`, `vo/market/economic_calendar_ingestion.py`, `vo/compliance/news_gate.py` | one snapshot file; the runtime's cache of it | the refresh on a timer, `read_calendar_snapshot`, `verdict` | runtime, compliance engine |
| preflight `vo/execution/preflight.py` | the position under test, the step report | `run`, `_finish` | the terminal, through `vo/core/mt5.py` |
| breach closeout, reconciliation `vo/execution/compliance_closeout.py`, `reconciliation.py` | a plan and the results of its requests | `plan_breach_closeout`, `execute_breach_closeout`, `reconcile`, `execute_reconciliation_actions` | the terminal |
| broker and terminal `vo/core/mt5.py` | positions, requests in flight (outside the repository) | `send_order`, `positions_now` | preflight, router, closeout, reconciliation |
| execution router `vo/execution/router.py` | known tickets, events (read by nothing) | `place` | the terminal |
| live dispatch `vo/telemetry/live_dispatch.py`, `live_wiring.py` | `commissioned` | `commission`, `dispatch`, `build_live_dispatcher` | preflight, engine, router |
| risk manager, allocator, generator `vo/risk`, `vo/allocation`, `vo/signals` | none | `evaluate_risk`, `allocate` | `evaluate_trade_pipeline` |
| runtime `vo/telemetry/ea_runtime.py` | the poll loop, the calendar cache | `poll_once`, `run_forever` | all of the above |
| publisher `vo/telemetry/publisher.py` | the set of connected writers | `start`, `publish`, `stop`, `_handle_client` | dashboard link, over TCP |
| dashboard `dashboard/backend/ea_link.py`, `state_hub.py`, `app.py` | the current state, one queue per browser | `run_ea_link`, `StateHub.publish`, `ws_runtime` | publisher, browsers |
| bridge `mql5/Experts/.../VO_Bridge.mq5`, `VO_Transport.mqh` | the last bar written, the JSONL files | `OnInit`, `OnTick`, `BackfillBars`, `VO_WriteLine` | files read by the EA |
| wire reader `vo/market/ingestion.py`, `vo/core/pipeline.py`, `vo/market/sequence.py` | the byte offset, the bar sequence | `JsonlTailer.poll`, `ObservationPipeline.ingest` | the bridge's files |
| time engine `vo/time`, `vo/market/aggregate.py` | none (a broker profile file); the aggregator's open bucket | broker time to UTC, trading day, sessions, reference levels, longer bars | everywhere |
| broker time probe `mql5/Scripts/.../VO_BrokerTimeProbe.mq5`, `vo/time/probe.py`, `scripts/seed_broker_profile.py` | none | the weekly opens of a history, the calendar that explains them, the profile | the time engine |
| observation `vo/observation` | swing, regime and range engines, each a fold over bars; the context of longer frames | `on_bar` | feed, reports, LRX |
| regime feed `vo/telemetry/regime_feed.py`, `scripts/publish_regime.py` | one feed file | `build_regime_segments`, `render_feed_lines`, `--watch` | the two indicators that read it |
| reports `vo/telemetry/regime_report.py`, `regime_validation.py`, `vo/research`, `scripts/backtest_regime.py` | none | tables made of a run's records | a human |
| chart indicators `mql5/Indicators` | objects on a chart, buffers, the last bar seen | `OnCalculate`, `OnTimer` | the feed; the terminal's own bars |
| LRX detectors `vo/valco/lrx_sweep.py`, `lrx_displacement.py`, `lrx_consolidation.py`, `lrx_mss.py`, `lrx_bos.py`, `lrx_inefficiency.py` | none | raids, legs, ranges, shifts, breaks and gaps at one bar | `replay_events` |
| LRX cycle `vo/valco/lrx_cerr.py` | one `CerrCycle` | `begin_cycle`, `observe_displacement`, `observe_bar`, `observe_reversal` | `observe_cycles` |
| LRX replay `vo/valco/lrx_replay.py`, `lrx_calibration.py` | raids and legs still waiting; the open cycle | `replay_events`, `observe_cycles` | detectors, cycle |

`PROJECT.json` lists every component, those outside the models too, with the reason.

### 1.2 How they interact, and where it is hard

* The EA is one asyncio task that awaits in one place, the publish, and calls the
  terminal synchronously everywhere else. So *its own* state is not raced; the
  market, the broker and the user move between any two of its calls, and the dashboard
  tasks run whenever a publish waits.
* A request to the broker may be rejected, filled in part, carried out late, carried out
  although the call raised, or lost. The account's positions are the only evidence, and they also
  change by themselves (stops, targets, pending orders that are triggered, the user).
* The compliance memory must survive a crash: a forgotten breach re-opens a dead account.
* Bridge and EA share only a file that one appends to while the other reads; the calendar
  bridge truncates its file and writes it anew; the feed's publisher writes beside the feed and
  renames, and Windows refuses to rename over a file somebody reads. All of them die and
  restart independently.
* A publish, a dashboard leaving and a shutdown interleave on one event loop; the set of
  writers is changed under a loop that awaits.
* The cycle is fed by four detectors that each look back a different distance; a bar may
  confirm a leg, break several shifts and end a phase at once, and the order decides.
* Swings are confirmed late. Every reader of them (regime, range, detectors, chart, feed,
  reports) must neither use one early nor take back what it said.
* The chart recomputes in pieces, from a window that loses its oldest bars and on bars that
  are still forming, after calls the terminal may have missed; it must agree with engines
  that see each closed bar once.
* Three clocks (broker, UTC, New York) each shift by an hour at their own time; two programs
  convert between them with separate code.
* A browser may be slow, close in the middle of a send, or connect in the middle of a publish.

### 1.3 What makes each part correct

* Engine and file: the peak only rises, a day has one start equity, a total breach is for
  good, across any crash; the own file always loads; no verdict allows a trade the file
  forbids.
* News: an event the runtime could have known of blocks, around the time the bridge labels
  UTC; one that was withdrawn does not.
* Preflight: always ends; says the cleanup is verified only if the position is closed; a
  run that passed on the position it opened really gave it both protective levels; never touches
  a position of the user's, and of the EA's at most the one it took for its own.
* Closeout, reconciliation: what they return names every risk that is left.
* Dispatch: no second trade but by a late fill; an open trade carries the drawdown past the
  halt point by no more than its fill was off; nothing is sent after a total breach.
* Publisher: one client's trouble is nobody else's; a publish and a shutdown end.
* Dashboard: never says CONNECTED without a connection; a tab that catches up is right;
  a tab never goes back in time; the link retries for ever.
* Wire: no whole line is skipped; restarts lose only what nobody could have written.
* Time: a calendar said to be observed over a year is the broker's; both programs read broker time alike, as
  what it was where the profile is right and within an hour where it is wrong; longer bars are
  their buckets; the chart has the engine's levels.
* Observation: engine and chart decide each swing alike and once; a pullback is resolved
  once; longer frames are fed finished bars only; feed and reports count each bar, entry,
  lean and pullback once.
* Feed: the chart draws whole feeds only, and catches up.
* LRX: a detector looks back only, but for one level of the day; phases in their order, on bars in that order; one
  direction from the expansion to the reversal; nothing after the end.

## 2. The modules

### 2.1 Compliance: `ComplianceEngine`, `ComplianceStore`, `DrawdownLedger`

`ComplianceEngine` holds no variables: it is the arithmetic of `engine.py` over a
record `[peak, day, dayStart, totalBreached]`.

| definition | code |
|---|---|
| `Observe(m, day, equity)` | the state changes of `on_snapshot`: latch the peak, roll the day over at its first snapshot, latch a total breach |
| `FirstPeak`, `EffectiveTotalLimit`, `EffectiveDailyLimit` | the configured high-water mark and the limits less their safety buffer |
| `StatusOf(m, equity, blackout)` | the order of the verdicts: total, daily, news, critical, warning, ok |
| `HaltPoint`, `HeadroomRejects` | `headroom_rejection` |

Fractions are integers in `Unit`-ths and comparisons are multiplied out, so the model has
no rounding; the code divides floats, and a result within one rounding error of a limit
is outside the model.

`ComplianceStore` gives the engine a process, a disk and accounts. Starting is three
actions (no file, a file of this account, refused), a snapshot is one, and a save is three
(create the temporary file, write it, replace) with `SaveFails` and `Crash` possible
between any two.

`DrawdownLedger` is the abstract promise: each account has a memory on record that is only ever
*extended* (higher peak, later day, same start for the same day, never a breach taken
back), and an answer given about an account never allows a trade that the record forbids.
`ComplianceStore!ImplementsLedger` instantiates it with the state file as the record. A
crash, a torn temporary file, a refused start and a save that fails are stutters.

### 2.2 Execution: `Broker`, `Preflight`, `Closeout`

`Broker` is external: the open positions, the closed ones, and the accepted requests not
carried out yet. `Send(request, outcome)` relates a request to what `send_order` may answer:
done, partial, placed, rejected, or an exception. The first three are `Approved`, as in
`_SUCCESS_RETCODES` (`core/mt5.py:143`). A deal is sent `ORDER_FILLING_IOC` (`:508`), so one that is
done in part (`FillInPart`) opens its position, or leaves the one it was to close. What was placed
is carried out later (`Deliver`) or not at all (`Lose`), and a call that raised may have had any of
these effects. `Vanish` closes a position unasked.

`Preflight` has one action per call `PreflightSequence.run` makes. `pc` is the step, `seen`
what the last look returned, `handling` whether the `except` clause is running. Stops have
three values, none, first, trailed, because only their order is compared. The account it starts on
(`Prior`) may hold positions of the user's and of this EA: `_find_opened` takes the newest of the
latter for the one it opened (`preflight.py:391`).

`Closeout` extends it by the two batch jobs, run on the account a preflight has left behind
(an ended run, with its position open, closed, or its request still in flight), and by
pending orders, which are the user's: this EA never leaves one. `PlanBreachCloseout`,
`Reconcile` and `Unrecognized` are the plans, made from one look; `ClosePosition`,
`CancelOrder` and `JobReturns` send them request by request (the positions first), and an
answer that raises ends the job with the rest unsent. A result carries its retcode, so that one
filled in part or only placed can be told from one that is done. What the preflight knew is forgotten
when the job starts. Meanwhile orders become positions
(`Trigger`) or go away (`Removed`), and what the broker does goes on.

### 2.3 The trade path: `LiveDispatch`

`LiveDispatch` extends `ComplianceEngine` and `Broker` and composes the runtime: `Start`
(`build_live_dispatcher`), `Commission`, `Propose` (`evaluate_trade_pipeline` down to a
size that `evaluate_risk` computes and counts positions for), `NotCommissioned`, `Judge`
(the account read, `on_snapshot`, `headroom_rejection`, `approve_trade`) and `Place`
(`ExecutionRouter.place`; an `MT5ExecutionError` ends the process). Between them:
orders that were answered before are filled or given up (`LateFill`), positions close at a gain, at
the stop or beyond it, money is paid in, days pass, the process crashes. A position's `stop` field is
the money it loses at its stop. It is judged at the signal's price (`live_dispatch.py:104`) and made
by the fill, which is at the tick's with the stop where it was (`core/mt5.py:516`): `Place` gives it
any value up to `Slippage` above the judged one, and any below (a better price, or a part).
`Commission` does not repeat the steps of `Preflight` but what they may leave: the newest own position
tightened or closed, and its own order open, on its way or lost (`Passes`, `Fails`). `late` is a
history variable: the tickets of orders that were answered before they were filled.

### 2.4 The news: `NewsCalendar`

From the terminal's calendar to a verdict. Events have a time in UTC. The terminal's calendar shows
them, and asks for a range, on its server's clock (`ServerTime`); the bridge adds the offset it was
configured with to each (`CalendarTimeToUtc`, `VO_CalendarBridge.mq5:131`) and labels the sum UTC
(`LineOf`), and the gate compares that with its own clock. `ServerAhead` is any function of time, the
offset a constant, so `Drift`, what the label is off by, may change. The provider moves and withdraws events
(`Schedule`); the bridge truncates its file (`Refresh`), writes it event by event
(`WriteLine`, `LookupFails`) and closes it; the runtime reads the file whole when its cache is
old enough (`PollReads`) or keeps the cache (`PollKeeps`), also in the middle of a write; the
gate judges by the cache (`Judge`). Bridge and runtime die and start again. `settled` (since
when an event stands) and `calm` (since when nothing went wrong) are ghosts that say what the
runtime could have known.

### 2.5 Telemetry: `Publisher`, `Dashboard`

`Publisher` models the event loop at its awaits. `publish` is `Publish`, then one of
`WriteAtOnce` / `WriteRaises` / `WriteBlocks` per writer, `Drained` or `DrainFails` (the
one second limit), and `PublishDone`. Python's rule for iterating over a set that changes is
modelled by its size check (`SizeChanged`) and by the table slots a late joiner may still be
met in. `stop` is `Stop` and `StopReturns`: `server.wait_closed()` returns when the
connections have ended, as it does since Python 3.12.

`Dashboard` is `run_ea_link` (connect, read with a timeout, parse, sleep), `StateHub.publish`
(which never waits, hence one step) and a `ws_runtime` task per browser (subscribe, greet,
take, send). A queue that is full drops its oldest entry. A line is `state`, `junk` (fails
inside the inner `try`) or `poison` (fails outside it).

### 2.6 Market data: `BarWire`, `WireRecords`

The bridge's handlers queue the lines they will write; a line reaches the file in two
steps, so that a poll or a death may fall between. The EA's poll (`Poll`) takes the whole lines
from its offset on, or from the start when the file has shrunk; the pipeline ingests them one
after the other (`IngestNext`), and the sequence refuses a bar that is not later than its last.
A death between two of them loses the rest (`pending`), and the next start reads the file from
its beginning. `lost` is a ghost: the bars the bridge had no chance to write in time.

`WireRecords` is what one line goes through: the tables of `schema.py`, the record that
`deserialization.py` makes of it, the identity and the instant that `mapping.py` and
`time/mapping.py` give it, and the step of the pipeline that quarantines what raised. The four
scripts that read the same bars in ways of their own are there too (`publish_regime.py`,
`generate_swing_reference.py`, `calibrate_cerr.py`, `diagnose_quarantine.py`). It has no state
and is evaluated once for each broker of `ReferenceLevels`.

### 2.7 Time and levels: `BrokerClock`, `TradingLevels`, `ReferenceLevels`, `BrokerProbe`

`BrokerClock` has the three clocks: `Resolve` is `brokers.py` with its ambiguous and its missing
hour, `NyWall` is `zoneinfo`, and the `Chart…` operators are the port in
`VO_ReferenceLevelsMath.mqh`; trading days and sessions with their bounds are on top.
`TradingLevels` measures over a stream of M1 bars: the aggregator, the levels of a day, week and
month, and the indicator's own way to the same levels. `ReferenceLevels` sends one stream down
both paths: `BarCloses` ends an M1 bar (Python resolves, keeps and aggregates it), `Scan` is a
new-bar call of the indicator, which the terminal may miss while it is away; the objects it
leaves on the chart are state.

`BrokerProbe` is the program that fills in the profile: the MQL5 script over a history with
missing chunks, `Classify` (`probe.py`) and the split of a measured offset into winter and
summer (`brokers.py`). It has no state; it is evaluated at the real scale (minutes, weeks,
fourteen months). A profile is what the offset measured at an instant makes of the calendar that was
named (`ProfileMeasured`), right or wrong, and every reader resolves by it (`Resolve`). The run's
profiles are what the probe seeds for brokers of three calendars; two of them are wrong
(`Misjudged`): a broker without daylight saving and one of Europe's, probed over a history too short
to show the difference, are both named to keep New York's, PROVISIONAL (`probe.py:353`).

### 2.8 Observation: `Measures`, `Swings`, `SwingChart`, `Regime`, `StructureRange`, `StructureContext`, `Observation`

| module | code |
|---|---|
| `Measures` | ATR with its rounding in Python and in MQL, efficiency ratio, percentile rank, candle geometry, over integers |
| `Swings` | `SwingEngine.on_bar`, and `VO_DetectSwings`, the one-pass port |
| `SwingChart` | bars that open, form and close; the engines of all tiers; the two indicators with their window, their redraws and their incremental recalculation, and calls the terminal misses |
| `Regime` | `RegimeEngine`: swings then close of each bar, records and transitions, the lean of a pullback and its refresh |
| `StructureRange` | `StructureRangeEngine`: anchors of two tiers, the leg that leaves the range, its end |
| `StructureContext` | buckets of longer timeframes, an engine pair over each, the snapshot and the alignment |
| `Observation` | every closed bar through all of these, the LRX detectors and, after any bar, the feed and the reports |

An engine is a record, an `on_bar` an operator from record to record, so the modules compose
by passing records on. Prices are ticks; ratios are pairs of integers that are multiplied out.

### 2.9 The regime feed and the reports: `RegimeFeed`, `RegimeReports`, `PhaseReports`, `FeedExchange`

`RegimeFeed` turns a log of records into bands, markers, session lines and panel counts
(`regime_feed.py`, `publish_regime.py`, `regime_report.py`). `RegimeReports` are the tables of
a backtest: durations, evidence samples, leans and their scores, year slices, transition
matrices, pullback durations, agreement with the range engine. A group of values is the set
of bars or records it is taken of. `PhaseReports` are the tables that set a measurement against
the phases: the Hurst exponent, ATR and efficiency ratio by phase, the sample before each move,
matrices by value and by the state before, the samples of the hidden Markov report, and the
phase it guesses against the phase that was held. The fit of an exponent and of a hidden state
are constants (`HurstFit`, `FittedState`). None holds variables; all are run inside
`Observation`.

`FeedExchange` is the file: `Publish`, `WriteRest`, `Rename` or `Refused` with its bounded
attempts, `WatchDies` at any point; `ChartOpens` and `ChartDraws` (`VO_Regime`), `LinesOpen`
and `LinesDraw` (`VO_ReferenceLevels`), reloads, a terminal that hangs or restarts with
handles open.

### 2.10 Strategy: `CerrPhases`, `LrxCycle`, `LrxChain`

`CerrPhases` is the phase diagram at the top of `lrx_cerr.py` as a specification of two
variables, the phase and the direction, with no bar in it.

`LrxCycle` is the replay that produces cycles. `replay_events` and `observe_cycles` are two
passes over the same bars, and both look only back, so the module makes one pass:
`NextBar` is one bar through both, `Offer` one shift of that bar offered to the cycle.

| definition | code |
|---|---|
| `Raids`, `Leg`, `Qualified`, `Window`, `Consolidates` | `detect_sweep`, `measure_displacement`, `_qualify`, `measure_consolidation`, `qualify_consolidation` |
| `Replay` | one round of `replay_events`: `raids` is `acc.pending`, `awaiting` is `acc.awaiting_shift` |
| `Search`, `ConfirmLegs`, `Observe` | the three things `observe_cycles` does with a bar: look for a range, hand over the legs it confirms, or feed it to `observe_bar` |
| `Expire` ... `Deepen` | the returns of `observe_bar`, in their order |
| `Offer` | `observe_reversal`, for each shift until the cycle ends |

There, which levels exist and which swing a shift must break is left open: any possible raid may
return, any waiting leg may break. The rest is fixed by configuration: `window_bars` is 2,
`return_max_bars` 1, the ATR one tick, qualification by range (`ATR_RANGE`), origins at the
raid's extreme (`SWEEP_EXTREME`), `step` 1, both invalidations on, and only qualified legs
reach `observe_cycles`, as `scripts/sensitivity_cerr.py` passes them.

`LrxChain` makes those choices as the code does: levels of the reference engine for the day of the bar
(`CollectLevels`: previous day, previous week, opening range gap), all qualification modes and origins as options of a setup, the swing a leg's shift must break,
then `BosRun` (`lrx_bos.py`) and the gaps of a leg (`lrx_inefficiency.py`). It runs inside
`Observation`, on the swings of the swing engines. There `Reference` is what the engine computes of
the bars, and `ReplayReference` what `replay_events` gets of it: the engine has the whole run
(`lrx_replay.py:285`), so the opening price of a day (`OpeningOf`) is known on every bar of that day,
those before the opening included.

## 3. The runs

`tlc -workers 2 -config X.cfg M` in this directory. Each property is defined near the end of
its module, with the line of the source it is about. Some are conjunctions of named parts that
one run checks together; the table below lists them.

### Passing

| run | shows | bounds, and why they are enough |
|---|---|---|
| `compliance_prop` | `TypeOK`, `MemoryExtendsDisk`, `BreachIsPermanent`, `OwnFileAlwaysLoads`, `NewDayClearsDailyBreach`, `ImplementsLedger` with the `FIXED` daily limit | 2 accounts (one file, two owners, symmetric), 3 days (breach, next day, one more), equities `{90, 91, 95, 96, 100, 104}` on each side of both effective limits (9.5 % and 4.5 %) seen from two peaks |
| `preflight` | `VerifiedCleanupIsReal`, `TouchesOnlyItsOwn`, `ReportsAreTrue`, `RunsEnd`: the preflight, then a closeout or a reconciliation | an earlier position of this EA that was left behind with both levels, and one pending order of the user's: the runner may take either own position for the one it opened, and the order may become a position of the user's; one run and one job: a run opens one position, a job sends one request for each thing it saw, so nothing further repeats; 235,320 states (with a position of the user's besides, 2.2 million) |
| `dispatch` | `NoSecondTradeInTime`, `RiskIsBounded`, `BreachEndsSession` with the live profile | 3 tickets and 2 days: a trade, its close, another, a late fill, and what a failed preflight leaves; gaps of 16 so that a single loss can reach the 19.5 % breach; a fill may be off by 1; step losses 2 and 4 so that rounding and the cap on the size both bite; 4.2 million states |
| `publisher` | `OthersAreServed`, `PublishEnds` | 3 clients: one blocks, one leaves, one stays; 2 publishes, so a dropped client meets a second one; 4 table slots, at least one free |
| `dashboard` | `HonestWithoutConnection`, `TabsCatchUp`, `NoTabGoesBack` | 2 tabs, queues of 2 (overflow needs 3 publishes), 4 publishes |
| `lrx_cycle` | `CycleIsInOrder`, `ExpansionHasLength`, `ImplementsPhases` | 6 bars, in which a second raid, leg and shift inside the pullback just fit, a phase of 2 bars expires, and a cycle that ends early is followed by another; 4 prices: a range of 1, a leg of 2 or more on either side of it, a pullback, and a close past the origin |
| `bar_wire` | `WireIsRead`, `OnlyMissedBarsMissing` | 4 bars with a backfill of 2, so that a restart can miss some, and 5 lines, so that bars are rewritten |
| `news` | `KnownEventsBlock`, `ReleasesBlock`, `VerdictIsGrounded` | 2 events, one of a currency the gate ignores, one change of the calendar, one fault, 11 polls: a move, a torn read and the whole way back to calm before either release. The server's clock is put back shortly before the releases, by as much as the gate's buffers allow for; 5.5 million states |
| `trading_time` | `TimeIsReadRight`, `LongerBarsAreTheirBuckets`, `LevelsAreCurrent` | 78 bars of 12 a day over both clock changes of New York and of Europe, at different times; weeks of 2 days and months of 3; four patterns of closed hours (over a change, a settlement, a repeated hour, more than a day); profiles that are right, one the probe could not give and two that are wrong, all of them seeded by the probe; looks at the chart missed for most of a day. The probe: brokers of three calendars and two offsets, probed in every third week of a year, with 0, 2, 5 or 7 of its oldest chunks missing. Lines: of both versions, whole and with a field missing, renamed or of another kind |
| `observation` | `SwingsAreAgreed`, `ChartIsCurrent`, `RegimeKeepsItsWord`, `FeedIsTheRun`, `ReportsCountOnce`, `RangesFollowTheirBars`, `LongerFramesAreRight`, `DetectorsLookBackOnly` | 13 bars of four shapes: lead-ins that leave swings at several prices, then every sequence of four; three tiers; two longer timeframes; a turn of the year inside the free bars; three setups that between them use every mode and origin, both cut-offs and three ways of breaking a level; three days of two weeks, two of them with an opening, so that levels of all kinds are raided, those of a gap before its opening too. Chains of leans over the turn of the year, right and wrong leans, longer frames in EXPANSION that are aligned and counter, and agreement of the range rule on both phases it can name all occur. Exponents over 7 closes, classed by their shape, a largest gap of 2 bars, a killzone of two stretches of the day: every guess, every value bucket and a gap too large occur |
| `regime_feed` | `FeedIsTakenWhole`, `TheWatchGoesOn`, `ChartCatchesUp` | 4 bars, 5 records with a refreshed lean and a trimmed warm-up, a chart of three-bar bars, 2 tries of a rename (for 40), 2 crashes, hangs or reloads: one of the publisher's and one of the terminal's at every point |

`CHECK_DEADLOCK FALSE` is set where the system may really stop: a preflight run or a job ends,
a publisher stops, bars, polls, publishes or lines reach their bound.

The conjunctions:

| property | its parts, and what they say |
|---|---|
| `ReportsAreTrue` | `CloseoutTypeOK`; `PassedWithBothLevels`: a preflight that passed on the position it opened closed it with the trailed stop and still its target (the one other way to pass is on an earlier position of this EA); `ResultsNameTheRiskLeft`: every position open when a closeout has returned is named by a result that was refused, filled in part or only placed, also one whose pending order was triggered after the plan |
| `RunsEnd` | `RunEnds`, and a job that sends returns or raises |
| `RiskIsBounded` | `DispatchTypeOK`; `OpenRiskIsWithinSlippage`: where no order was answered before it was filled, an approved trade at its stop leaves the equity above the halt point, but for what its fill was off the price it was judged at |
| `CycleIsInOrder` | `TypeOK`: a cycle has the parts of its phase, none for longer than it may; `PhasesInOrderOfBars` |
| `WireIsRead` | `TypeOK`; `EveryLineCounts`: no whole line is skipped |
| `VerdictIsGrounded` | `NewsTypeOK`; `NoFalseBlackout`: nothing blocks for an event that was moved or withdrawn, and what blocks stands at the time the bridge labels |
| `TimeIsReadRight` | `ProfilesAreTrue`: a calendar the probe says it OBSERVED is the broker's (of a broker without daylight saving: after a year of history), one it says is PROVISIONAL is New York's, right or not, and offsets are recovered of a right one; `TimelineIsTrue`: a bar that counts as valid stands at the instant it traded if the profile is right, and within an hour of it whatever the profile; `ClocksAgree`: both programs read broker time alike; `SessionsFitTheStream`: bounds and transitions of sessions fit the bars; `WireIsReadRight`: what the schema accepts becomes a record, a record a bar at the instant of the broker's clock, a bad line disturbs no other, and the scripts have the pipeline's bars |
| `LevelsAreCurrent` | `TypeOK`; `ChartShowsEngineLevels`; `NothingExpired`: no level from before the lookback stays on the chart |
| `SwingsAreAgreed` | `SameEventsAsEngine`: the port emits the engine's events; `ActiveIsUntouched`: what is offered as active has not been traded through |
| `ChartIsCurrent` | `TypeOK`; `DrawnAsDecided`, `PaneShowsReadings`: boxes and buffers are what a drawing from the beginning would be |
| `RegimeKeepsItsWord` | `OneRecordWaits`, `FirstLegDelivers`, `DefiningPriceHolds` |
| `FeedIsTheRun` | `FeedShowsWhatWasHeld`, `PanelCountsEveryBar`, `LeansScoredAsHeld` |
| `ReportsCountOnce` | `DurationsMatchTransitions`, `OneSamplePerEntry`, `PeriodsAddUp`, `LeansCountedOnce`, `PullbacksTimedFromTheirStart`, `AgreementIsBarForBar`: every table against a count over the bars; `GuessesAreOfTheirTime`: no sample or guess of a report is made of bars after the one it is held against |
| `RangesFollowTheirBars` | `RangesDoNotShareAnchors`, `LegFollowsItsBars` |
| `LongerFramesAreRight` | `HigherBarsAreOver`: a longer bar is fed when its bucket is over, with every bar of it; `ContextSaysWhatIsHeld` |
| `DetectorsLookBackOnly` | `ShiftsStandInHindsight`: repeating the walk with all swings known later finds the same shifts; `OneBarForEachRaid`: one leg, up to the first bar it can be measured on; `BreaksInOrder`; `LevelsStandInHindsight`: the level of a raid, unless it is an edge of the opening range gap, is one that a run which ended with that bar has too |
| `FeedIsTakenWhole` | `TypeOK`, `WholeFeedsOnly`, `ChartIsOneFeed`, `NothingBeyondTheFeed`: a reader gets one build, and the chart shows one |

Not reached in `observation`: two chains of leans in one run, a pullback and its resolution on
one bar, and PULLBACK on a longer frame; they need more bars than TLC can enumerate here.

### Violation: where the code and its words part

| run | property | what happens |
|---|---|---|
| `dispatch_restart` | `BreachEndsTrading` | The runtime loads a compliance state but never calls `save_compliance_state`; after a restart a breached account trades again (`live_wiring.py:84` against `engine.py:54`). |

Six more sentences of the repository are stated in the modules as they read, and TLC refutes each
when it is added as an `INVARIANT` to the cfg of the run named here. Beside each stands what does hold,
which is checked and proved.

| sentence | definition | where TLC refutes it | what happens | what holds |
|---|---|---|---|---|
| `compliance_live.yaml:13`, one trade at a time | `OneTradeAtATime` | `dispatch` | An order that was only placed counts as sent (`core/mt5.py:143`), the next poll counts no position and sends another; both are filled. | `NoSecondTradeInTime` |
| `engine.py:203`, a trade that would pass the halt point if it loses in full is rejected | `OpenRiskStaysAboveHalt` | `dispatch` | The order is filled at the tick with the signal's stop (`core/mt5.py:516`), and nobody looks at the distance again. | `OpenRiskIsWithinSlippage` |
| `preflight.py:29`, what the runner opened it closes | `PassedClosedItsOwn` | `preflight` | The order to open is only placed; VERIFY_OPEN finds the position an earlier run has left (`:391`), all steps go well on that one, the run passes, and its own position is filled later. | `PassedWithBothLevels`, `VerifiedCleanupIsReal` |
| `news_gate.py:3`, nothing goes out around a release | `ReleasesBlock` | `news`, with `ChangedBy = 2` (and no change and no fault, to be quick) | The server's clock goes back by more than the gate's buffers (shipped: 5 minutes; a change of the clock is an hour), the offset stays (`VO_CalendarBridge.mq5:133`), the window is elsewhere. | `KnownEventsBlock`; `ReleasesBlock` while the label errs by less than the buffers |
| `lrx_replay.py:17-22`, a truncated run has the same events up to its end | `TruncatedRunsAgree` | `observation` | The level engine has the whole run (`:285`), so an edge of the opening range gap is raided before the market has opened. | `LevelsStandInHindsight` |
| `probe.py:28-31`, no hour of silent error | `NoSilentError` | `trading_time` | A short history yields a wrong calendar, PROVISIONAL (`:353`); no reader looks at the confidence (`brokers.py:266`), and bars an hour off count as VALID. | `TimelineIsTrue` |

### Fairness

Four properties are about something that must happen: `RunsEnd`, `PublishEnds`,
`TheWatchGoesOn` and `ChartCatchesUp`.

* `Preflight`: `WF_vars(Runner)`; `Closeout` adds `WF_allVars(Job)`. Both are straight-line
  code or loops in one thread, whose every call returns or raises; a step of it is enabled until it
  returns. Nothing is assumed of the broker.
* `Publisher`: weak fairness of the runtime's own steps (the loop body, the end of the
  loop), of `DrainFails` (`asyncio.wait_for(..., timeout=1.0)` fires) and of each
  `HandleGone` (a closed connection wakes its `reader.read`). Nothing is assumed of when a
  client reads, connects or leaves.
* `FeedExchange`: weak fairness of what the watch and an indicator do once they may; strong
  fairness of `Rename`, because the feed is opened and closed again and again and a rename is
  tried 40 times a quarter of a second apart, so one try meets it closed; of `ChartOpens` and
  `LinesOpen`, because a timer that fires waits for its thread. Not assumed: that the terminal
  answers, a restart of a dead watch, or that bars go on.
* All other specifications are safety only.

## 4. What is proved

Thirty-nine theorems in eight modules, checked by TLAPS for every value of the constants
their modules assume something about.

`ComplianceStoreProofs`, for every configuration `ConfigAssumption`
accepts, every set of accounts, every set of positive equities and every `MaxDay`:

| theorem | property |
|---|---|
| `TypeCorrect` | `Spec => []TypeOK` |
| `MemoryNeverBehindDisk` | `Spec => []MemoryExtendsDisk` |
| `TotalBreachIsPermanent` | `Spec => []BreachIsPermanent` |
| `OwnFileLoads` | `Spec => []OwnFileAlwaysLoads` |
| `ComplianceStoreRefinesLedger` | `Spec => ImplementsLedger` |
| `DailyBreachClears` | with `DailyLossMode = "FIXED"`, `Spec => NewDayClearsDailyBreach` |

The inductive invariant is `StoreInv` (in `ComplianceStore`). None of the properties is
inductive alone:

* `OwnFileAlwaysLoads` is about a refused start. It needs that the state file is never
  torn, and that a running process has no file or its own (`ProcessShape`).
* `MemoryExtendsDisk` is disturbed by `Snapshot` and by `SaveReplace`. For a snapshot,
  the lemma `ObserveExtends` says one observation extends the memory it started from, and
  `ExtendsTransitive` carries this back to the file; both need that no memory is from a
  day later than `today` (`DaysOrdered`). For the replace, what is put in place is exactly
  the memory, because no snapshot falls into a save: this is the second conjunct of
  `MemoryExtendsDisk` itself.
* `BreachIsPermanent` follows from `MemoryExtendsDisk` and `VerdictMatches` (a verdict
  standing under a latched breach says so).

`NewDayClearsDailyBreach` needs that the last verdict is of the day in memory (`DayMatches`):
a verdict of another day then rolled the day over, and nothing is lost of a day that was
anchored at this equity (`NewDayLosesNothing`).

The refinement needs one fact of arithmetic. The ledger forbids a trade if the drawdown
*from the recorded peak* reaches the limit, and the running engine measures from its own,
higher peak. `HigherPeakIsStricter` shows that a limit reached from `p` is reached from any
`q >= p` (the limit is a fraction of the peak of at most one), and
`ExtendedMemoryIsStricter` lifts this to the verdict. `InitImplements` and `NextImplements`
then map the initial state and each action to a ledger step or a stutter.

Assumptions: `ConfigAssumption` (what `compliance_config.py` validates), `EquityAssumption`,
`DayAssumption`, `AccountAssumption`, and `SentinelAssumption` (the model's stand-ins for
"no file" and "half a file" are not memories). TLC evaluates all of them on the runs.

`LrxCycleProofs`, for every price range, number of bars and setting of the thresholds:

| theorem | property |
|---|---|
| `Typed` | `Spec => []TypeOK` |
| `InOrderOfBars` | `Spec => []CycleIsInOrder` |
| `HasLength` | `Spec => []ExpansionHasLength` |
| `ImplementsDiagram` | `Spec => ImplementsPhases` |

The inductive invariant is `Inv` there, in three parts. `RaidsInv`: the bar a raid returned
on reached beyond the raid's origin, in the direction of the reversal; from it
`QualifiedLegs` concludes that a leg reaches beyond its origin, which `ExpansionHasLength`
needs and does not say. `EventsInv`: no waiting leg ends later than the latest bar, and one
whose shift breaks ended before it. `CycleInv`: the parts a phase promises and the dates
they carry; it is stated for a bar count `n`, because a bar that leaves the cycle alone
still moves the clock (`LaterBar`). One lemma per action shows that it is kept
(`SearchStep` ... `OfferStep`), and one per action that the step is a step of the diagram or
a stutter (`SearchPhase` ... `OfferPhase`). `CycleInv` is needed there as well: that a
cycle invalidated by a bar was in EXPANSION or RETRACEMENT rests on CONSOLIDATION having no
leg. Assumptions: `CycleAssumption` (the thresholds and bounds are numbers) and
`NoneAssumption`.

`BrokerProofs`, for any positions the account has before, the user's and this EA's, and any pending
orders; the preflight is part of the closeout's specification, so its theorems hold there too:

| theorem | property |
|---|---|
| `TypeCorrect` | `Spec => []TypeOK` |
| `CleanupIsReal` | `Spec => []VerifiedCleanupIsReal` |
| `LeavesOthersAlone` | `Spec => TouchesOnlyItsOwn` |
| `ResultsNameWhatIsLeft` | `CloseoutSpec => []ResultsNameTheRiskLeft` |
| `AllReportsAreTrue` | `CloseoutSpec => []ReportsAreTrue` |

"The cleanup is verified" is said because a look no longer shows a ticket. That this is more
than a late fill rests on facts about any broker, the parts of `Inv`: the ticket is given once, so an
order to open is in flight or its position is known, never both (`GivenOnce`); a position that was
ever seen is open or has closed (`NothingLost`); no ticket is later than the run's (`NoLaterTicket`);
and a step that needs a position has one (`KnowsIts`). `LeavesOthersAlone` adds `ItsOwnOnly`: a
position is this EA's exactly if it was before or bears the new ticket (`OwnersKnown`), and so is the
one the run took for its own, under whose ticket is all it asks for after the opening. What the theorem says of
this EA's positions is as much as is true: of several, the run may take an earlier one.

While a job runs, each position it answers for is still to be closed, its order is still to be
cancelled, or a result names it (`Owed`, in `Answered`). An order that is triggered hands its
obligation to the position it becomes, which only works because the tickets of orders and
positions never meet (`Apart`); and no order to open may be sent after the plan (`JobGoesOn`).

An answer "done" takes the position away; one that is rejected, placed or filled in part may leave
it, and is then among the results with its ticket.

What `AllReportsAreTrue` adds is `PassedWithBothLevels`. No step looks at the target after the
trail, so the theorem rests on what can still be in flight. `Levels` says, while every step so
far is ok and the position found is the one that was opened (`AllWell`), that a look which shows a
level also shows that the request which set it has been carried out; only then is the next one sent,
so no late request can set an older level again. It is false once the trail names the stop alone.
`Reported` keeps it beyond the end of the run, where a job finds the account.

And of the live session (`BrokerProofs` too), for every account, set of rules and behaviour of the
broker:

| theorem | property |
|---|---|
| `EverySecondTradeIsLate` | `DispatchSpec => []NoSecondTradeInTime` |
| `BreachStopsTheSession` | `DispatchSpec => []BreachEndsSession` |
| `LossStaysNearHalt` | with one trade at a time and the headroom gate, `DispatchSpec => []RiskIsBounded` |

`NoSecondTradeInTime` needs what a poll saw some steps ago: from a size computed until the order is
sent there is room for one more trade among those that were not late (`RoomForOne`, `InTime`), since
meanwhile the market only removes such trades: an order that arrives late is in `late` since it was
answered. `BreachEndsSession` needs that a breach of this session is in the engine's memory and that
no poll with such a memory is past the gate (`BreachRemembered`). `RiskIsBounded` (`RiskInv`) needs
what the engine judged: a poll past the gate has an account without positions (`PollIsAlone`), so the
equity it judged is the cash, and until that poll's trade has closed no other poll gets as far, so
the peak stays the one it was judged by (`Judged`); what the fill adds is at most `Slippage`. A trade
an earlier session left behind keeps the engine from being asked at all: its memory is fresh. The
risk of the book, a fold, is then over one position (`RiskOfOne`), so no induction is needed; with
room for more than one trade it would be. Where an order was late the theorem says nothing: two
trades that were each judged alone may then be open together.

`FileExchangeProofs` is about the two files that one program rewrites and another reads. Of the
news, for any events, any calendar, any periods of the three timers, any clock of the server's and any
offset:

| theorem | property |
|---|---|
| `KnownEventsAreBlocked` | `NewsSpec => []KnownEventsBlock` |
| `ReleasesAreBlocked` | where the label never errs by more than the gate's buffers, `NewsSpec => []ReleasesBlock` |
| `VerdictsAreGrounded` | `NewsSpec => []VerdictIsGrounded` |

A verdict is three steps old: the calendar as the bridge asked for it, the file as the runtime
read it, the cache as the poll left it. What a reader of any of them sees is right of each event
that stood still since the step before (`Shows`, of its labelled time), in the file (`SnapshotShows`) and in the cache
(`CacheShows`), unless something went wrong since. `OnTime` bounds each step by its timer, so
the three together are what `Staleness` says and what the properties allow. All of it is about the
time a line is labelled with (`Labelled`), which the offset and the server's clock decide; the second
theorem relates that to the release. Its premise, `Drift` between minus `After` and `Before`, is what
a constant offset gives only while the server's clock stays. One more condition is part of the
property, `InReach`: a server so far ahead that an event has left the range asked for before its
labelled window ends is not told of in time. Assumptions:
`TimingAssumption` (periods are positive, times are numbers) and `ScopeAssumption`: what the
bridge asks for reaches as far back as the gate's window does, and further ahead than it by the
time the timers take. The shipped settings keep it by two hours behind and two weeks ahead
(`VO_CalendarBridge.mq5:66`); without it an event could be known to the calendar, inside the
window, and not asked for.

`RuntimeProofs`, for any number of clients, bars, lines, bars of a backfill, tabs and slots of
a queue:

| theorem | property |
|---|---|
| `PublisherTypeCorrect` | `PublisherSpec => []PublisherTypeOK` |
| `PublishServesOthers` | `PublisherSpec => OthersAreServed` |
| `LinesAreRead` | `Spec => []WireIsRead` (`BarWire`) |
| `NoSilentGap` | `Spec => []OnlyMissedBarsMissing` (`BarWire`) |
| `DashboardTypeCorrect` | `DashboardSpec => []DashboardTypeOK` |
| `SlowTabsCatchUp` | `DashboardSpec => []TabsCatchUp` |
| `NeverConnectedWithout` | `DashboardSpec => []HonestWithoutConnection` |
| `TabsGoForward` | `DashboardSpec => NoTabGoesBack` |

A publish serves everyone who stayed because each writer its loop has had, less those it gave
up, holds the line, also while it waits for one of them and others come and go (`Served`). A
tab never goes back because all that is on its way to it (what it shows, what is being sent,
the queue, the hub's state) is in order of time (`InOrder`), and dropping the oldest entry of a
full queue keeps that order and the newest (`PutFacts`).

`OnlyMissedBarsMissing` speaks of the sequence alone; that it stays true depends on every place
a bar goes through before. `WireInv` says of each of them (what a handler has yet to write, the
lines, those taken and not yet ingested) that no bar is ahead of an earlier one, unless that one
is behind it already or was missed (`Grounded`). A handler's list starts so because only the
latest closed bar may be neither written nor missed nor about to be written (`NothingSkipped`),
and it writes what has closed, in its order (`HandlerIsWhole`). Then the first line to ingest
never jumps over a bar that may still come, and the sequence is whole up to its last
(`Complete`). A fold over the lines of a poll would have needed induction over data; one line
per step, as the pipeline has it, does not.

And of the feed (`FileExchangeProofs` too), for any bars, any log of the engine, any chart frame
and any number of tries:

| theorem | property |
|---|---|
| `ChartsShowOneFeed` | `Spec => []FeedIsTakenWhole` |
| `BandsFollowOneAnother` | for every build and every bar of it past the warm-up: one band covers it, of the regime of the log's last record by that bar; none does before the first record |

A chart keeps what it drew after the file has gone, so the invariant cannot speak of the file:
`DrawnFromOne` says that what is drawn is the drawing of the header's build on the bar the chart was
on, and `NeverAhead` that this is not a later bar than the present one; a new bar
forgets the header. `WholeFeedsOnly` needs `PublishIsWhole`: the file a publish renames is whole by
then.

`BandsFollowOneAnother` is the contract that `regime_feed.py:214` states and that
`regime_report.py:388` and `regime_windows.py:57` rely on. It also says more: the right side does
not name the build, so no later bar or record changes the regime drawn over the past.
Its lemmas are about runs of a log (`RunsKeepTheirRegime`, `EachRecordIsInARun`,
`RunsAreApart`, `OneRunCovers`), each by the least member of a set of positions where an
induction would be usual. `LogAssumption` says the engine appends to its log as bars close, so
its records are in order of time.

`ObservationProofs`, for any bars, tiers, periods and thresholds:

| theorem | property |
|---|---|
| `RegimeIsKept` | `ObservationSpec => []RegimeKeepsItsWord` |
| `SwingsAgree` | `ObservationSpec => []SwingsAreAgreed` |
| `RangesAreTheirBars` | `ObservationSpec => []RangesFollowTheirBars` |
| `LongerFramesAreOver` | `ObservationSpec => []LongerFramesAreRight` |
| `DetectorsLookBack` | `ObservationSpec => []DetectorsLookBackOnly` |

A bar takes its swings one after the other, a loop in the code and a recursive function in the
model (`Swung`). That it is one (`TakenOneByOne`), and that a bar confirms two swings at most
(`TwoAtMostConfirmed`), turns a bar into at most four steps of the engine: the close, two swings,
the lean. What each may do is one of five relations (`Stands`, `Expands`, `Pulls`, `ResolvesTo`,
`Renews`), which name the fields a property looks at and leave out the prices.

`RegimeInv` says of the logs what `OneRecordWaits` does not: which record waits, that it is the
one the engine still has to resolve, and that no two pullbacks have the same bar, because a
record's identity is its regime and its bar (`LogOf`, `Waits`). Two pullbacks of one bar would
take a third swing in between (`SwingTaken`), so the bound of two is what the identities rest
on. `LegsDeliver` adds that `delivered` is true only after a resolution, `NotPassed` that the last
move is the one into the pullback, and `WaitsSince` relates a bar's end to its start.

`SwingsAgree` relates two programs: the engine in Python, which is given a bar at a time and
keeps the active swing of each type, and the pass of the chart in MQL5, which starts again from
the first bar and keeps indices. `SwingInv` says of every tier that they are `Agreed` on the
closed bars: where no average lies halfway (`HalvesFree`), the pass has the events of the log
and each of its indices points at the engine's active swing (`Agree`); and whatever the
averages, no bar since its pivot has gone beyond an active swing (`Untouched`). That is
inductive because of three facts:

* the pass over one more bar is the pass over the bars before it and one step (`OnePassMore`):
  its first steps read no later bar (`SameChartBar`), down to the window's furthest bar
  (`OppositeIsThere`, `SamePivot`) and the true ranges (`SameRanges`);
* the engine's four optional events of a bar, joined and then read for what is active
  (`ActiveThen`), do to each type what the chart's four calls do one after the other (`AgreeOnBreak`,
  `AgreeOnPivot`, `BarAgrees`), because the events of one type leave the other type alone;
* a new pivot stands out from all the bars up to its confirmation, and a bar that breaks
  an active swing ends it (`StaysUntouched`).

The start needs the same over the history (`WarmedAgreed`). Both loops are recursive functions,
and that they are (`PassGoesOn`, `WarmingGoesOn`) is shown by the least position they fail at.

`RangesAreTheirBars` is about two logs that only grow, the records and the moves of the range
engine, and about a leg that remembers one number of all its bars. `RangeInv` adds to `SwingInv`:

* which anchors a record may name depends on the records up to it alone (`RecordRight`,
  `RecordStays`), so that only the newest has to be looked at;
* since the last record that ended a range there was no leg, or one began with record `b`
  (`RecordsSince`). In the first case the anchors at hand were confirmed since that end, because
  every event of a bar is dated by it (`EventsAreOfTheBar`); in the second they are frozen. A leg
  that ends empties both sides, so a record of the next range cannot name them
  (`ReversalSound`);
* the extreme is the tip of one of the leg's bars and none goes further, and the leg is in
  expansion exactly when no bar before the present one reached it (`LegSince`). One more bar
  keeps that whether it goes further, falls short or reclaims the boundary (`LegLasts`). That the
  bars before it had a furthest one (`HasFurthest`) is the extreme the leg had then, so no fact
  about finite sets is needed.

`LongerFramesAreOver` has one part about bars and one about records, and `FrameInv` of both, for
every longer timeframe, what the aggregator and the engines of it hold:

* the bars not yet merged are those from the first of the present bucket on (`OpenFrom`,
  `OpenBars`), so what they are merged into is the longer bar of that bucket (`MergedIsLonger`);
* for every bucket that is over its longer bar stands at the bucket's rank among them
  (`EndedBars`). A bar of the same bucket leaves the buckets that are over as they are
  (`EndedStay`), a bar of a later one adds one, of the highest rank (`EndedGrow`): later,
  because buckets are of times and never come back (`BucketsGrow`);
* an engine that has made a record holds the regime and the direction its last record has, and
  has a direction exactly outside consolidation (`Speaks`). This is kept by every bar whatever its
  swings (`BarSays`), unlike `RegimeInv`, for which they must be the bar's own two at most; so it
  serves the longer frames, about whose swings nothing is known.

`DetectorsLookBack` compares a replay, which goes on bar by bar with the swings found so far,
with what the closed bars and all the swings say now. `DetectorInv` adds to `SwingInv` that every
swing is dated by a bar there has been (`Dated`), and of each setup `ReplaySound`: all a replay
holds follows from its raids, the bars and the swings.

* A raid waits exactly while no bar within its horizon could measure its leg (`RaidsWait`), and
  otherwise has one leg, which ends on the first that could (`LegsRight`).
* A leg waits exactly while no bar within its horizon breaks its swing (`LegsAwait`); if one
  does, the shift is that of the first (`ShiftsRight`). A replay that looked again at a leg it had
  settled, or let one go early, would break one of the two equivalences.
* Swings found on a later bar are dated by it (`Lengthens`), and a leg is measured against those
  known when it began, so what it selects never changes (`SameSelection`, `SameShift`); and an
  ATR reads no bar after its own (`SameMeasures`, `ReplayCounts`).

* The level of a raid is one a run that ends with that bar has (`RaidsOfLevels`): the days and weeks it
  looks back on were over by then (`PeriodsAreOver`), so no later bar takes part (`PastLevelsStay`,
  `LevelsStay`, `LevelsAreKnown`). Of an edge of the opening range gap this is not so, and the property
  excepts it.

The breaks after a shift are a recursive function of the bars (`BosRun`); `RunSound` holds of it at
each bar: every break takes the nearest swing of those left then (`BreakRight`), and swings only
leave. That there is a nearest, or a first, is shown without a fold (`NearestIsThere`,
`FirstIsThere`).

The attempt at this proof corrected the property. A leg used to be said to end on the bar after its
raid; but `evaluate_displacement` gives no verdict while the ATR is zero, which a run of bars
without any range makes it, and then the raid goes to a later bar. `OneBarForEachRaid` now says
so, and the old form is its case of a positive ATR.

`ChartProofs`, of the same bars, with any window of a scan and any bars during which the terminal
is away:

| theorem | property |
|---|---|
| `ChartStaysCurrent` | `ObservationSpec => []ChartIsCurrent` |

`SwingsAgree` is about a pass over all closed bars. The indicator passes over a window of them, its
first average may reach back further than the window does, its last bar is still forming, and the
boxes are what is left of the events. `DrawnSound` puts that together with `SwingInv`:

* the events a pass finds can be told from the bars alone (`Tells`): a swing at every turn, once its
  `k` bars have followed, and its end on the first bar beyond it while it is the last of its type
  (`Lives`). Each of the four events of a bar keeps this (`BreakTells`, `PivotTells`), so the boxes
  are a function of the bars (`BoxesShow`), and so is what the EA's log says of them (`DecidedShow`);
* of the pivots whose average and whose `k` bars before lie within the window, the window's turns
  are those of all bars (`WindowTurns`); what makes a swing end happens after it is confirmed, so in
  the window too (`WindowEnds`). Only a swing that ends on the forming bar differs (`WindowBox`),
  and of those the property says nothing;
* the boxes at hand were drawn of the closed bars and *some* shape of the forming one, if they were
  drawn at this bar at all (`DrawInv`); a scan happens once a bar, so it is seldom the present
  shape.

Of the pane, `PaneInv` says that all but the last value of each buffer are those of the bars. A value
reads no bar after its own (`SameReadings`), which is what lets `OnCalculate` begin at the last bar
it had seen: all before it had closed by then. The last step relates two scales. The pane takes the
averages as they are and the EA rounds them before it ranks; rounding to even keeps the order
(`RoundingKeepsOrder`), so an average that none of the scale exceeds has the full rank (`PaneReads`).

Assumptions: the bars are those of a history and of `ShapesAt`, with whole prices (ticks);
every tier waits a bar at least and there are finitely many (a chart has three), buckets only grow,
and `None` is neither a record's identity nor a direction, a number or a ratio. The tiers `swing` and `internal` are among those run (`TierAssumption`), and
periods and horizons are numbers, an ATR's of one bar at least (`SetupAssumption`). Days and weeks
only grow from bar to bar, and the price a day's regular trading opens at is that of its first regular
bar (`DayAssumption`).

`ReferenceLevelsProofs`, for any broker, daylight saving of one year, sessions, lengths of bars,
history and closures of the market:

| theorem | property |
|---|---|
| `BucketsAreWhole` | `Spec => []LongerBarsAreTheirBuckets` |
| `TimeIsKept` | `Spec => [](TimelineIsTrue /\ ClocksAgree /\ SessionsFitTheStream)` |

`TimeIsKept` is about every profile that was made of a measurement of the broker's offset, whichever
calendar it names and whenever it was measured (`ClockOf`): it is right, or off by an hour in some
seasons (`ResolvedIsNear`), and where it is wrong it may say of a reading that the broker's clock
skipped it (`SaidSkipped`). `TimelineInv` says that the sequence is made of delivered bars as they were
resolved, in order, and that what was not kept belongs to the second pass of the broker's repeated
hour, or was said to be skipped. It is kept because outside these later bars are resolved to later
instants (`ClockGoesOn`), also where the profile says `UNKNOWN` and the resolution is an hour off half of
the year. A second measurement at another instant, or of another broker, is no part of it.

A longer bar has to be shown to have all bars of its bucket, and a bucket has to stay over once
another has opened. `BucketInv` says of each length that the open bucket is that of the last bar,
that every bucket before it has its longer bar, and that each of them holds what the sequence
has of it (`Holds`). That is inductive because buckets never come back (`StartsInOrder`): a
bucket is cut on New York's clock, on which readings of later instants may be earlier, so the
order of instants is proved by way of readings that are not skipped (`Clear`, `InstantsInOrder`)
and of the buckets between two openings (`BucketsInOrder`, `BucketKeepsOpen`). In the hour shown
twice it holds only for buckets no shorter than the hour; for shorter ones the property makes an
exception, and TLC reaches it.

A session is known by two readings, where it begins and where it ends, and is open at all between
(`SessionAround`). That its bounds hold the bar's instant, and that it is said to begin exactly on
the bar before which another was open, comes down to one fact: a reading shown once, or for the
first time, is reached by the clock when its instant is (`PlainFits`). Between two bars an hour
may be skipped or shown again; no session changes within it (`NothingOpens`).

Assumptions: `ClockAssumption` (times of day are numbers of a day, a clock goes back later than an
hour after it went forward), `NestingAssumption` (of two calendars with daylight saving one's summer
lies within the other's, as Europe's does within New York's), `StreamAssumption`, `TargetAssumption`, `WindowAssumption` and
`BucketAssumption` (`None` is no bucket). The shipped settings keep them. `sessions.yaml` opens
the day at 18:00 and has sessions that begin or end at 18:00, 03:00, 09:30, 12:00 and 16:00, that
do not overlap, and none of these is within the hours from 01:00 to 03:00 that New York repeats
and skips; M5 to D1, counted from 18:00, never begin within the skipped hour, and those of an hour
or more hold the whole of the repeated one. A session that began at 02:30 would, on the day of
the change, be said to begin half an hour after its first bar.

Only model-checked:

* all liveness (TLAPS has no rule for fairness here);
* `BreachEndsTrading`, which is violated;
* two of the eight properties of `Observation` (`FeedIsTheRun`, `ReportsCountOnce`) and
  `LevelsAreCurrent`. Each compares an engine's state with a second fold
  or a count over the same bars, made with operators (`FoldLeft`, `SelectSeq`, `MapThenSumSet`)
  whose definitions the provers cannot expand;
* of `TimeIsReadRight` the probe (`ProfilesAreTrue`) and the wire (`WireIsReadRight`), evaluated
  once for each broker: what they say is computed by recursive definitions.

## 5. What the models assume of the environment

* Volumes are not told apart (`Broker`): a position that was closed in part is open, an order filled in
  part is a position. An answer DONE means that the request was carried out whole, and
  `positions_get` shows the account as it is. Every deal has a ticket of its own, as on a hedging
  account (`preflight.py` and `compliance_closeout.py` close by ticket).
* A fill is off the price it was judged at by a bounded amount (`Slippage` in `LiveDispatch`, any number
  in the proofs; 1 in the run). Nothing in the code bounds it.
* What a preflight leaves behind counts as no loss in `LiveDispatch` (it has the smallest volume), and
  of the positions it may take for its own only a tighter stop or a close matters there.
* TLC runs the preflight on an account with one earlier position of this EA and none of the user's but
  the one a pending order becomes; the theorems are of any account.
* The server's clock is ahead of UTC by any function of time, the bridge's offset is a constant
  (`NewsCalendar`). With the default offset of 0 and a server ahead of UTC by more than the two hours
  the bridge asks back for, less the buffer after a release, an event has left the file before its
  labelled window begins: it never blocks, and `InReach` excludes it from `KnownEventsBlock`.
* A profile was made of one measurement of the broker it is for, at any instant (`BrokerClock`).
* The opening price of a day is the same in every look of a run (`Observation`), and a day's own
  settlement, which is no liquidity (`lrx_levels.py`), is left out of its levels.
* The average true ranges that lie halfway between two ticks are left out where engine and chart are
  compared (`HalvesFree`, `NoHalves`): there the two programs do differ, by a tick.
* Before a commissioning has ended, a pending order that is triggered is one more of the
  user's positions; `Closeout` models the trigger only from then on.
* The terminal's login changes only while the EA is down. `on_snapshot` never compares it
  (`engine.py:156-162`), so a change under a running engine mixes two accounts.
* Equity is positive and trading days only advance. (A day that begins at equity zero
  divides by zero, `engine.py:306`; a clock that steps back re-anchors the day, `:275`.)
* The table behind a Python set is not rebuilt during one publish.
* A running EA polls between a rotation of the wire file and the bridge's next start;
  otherwise the file may grow past the old offset unnoticed (`ingestion.py:95`).
* Timers and polls are on time, and a refresh of the calendar is shorter than a poll's
  period (`NewsCalendar`); one change of the calendar is visible to the next refresh.
* Weeks open within ten minutes of their time, and no bar of a week is missing from a chunk
  that was read (`BrokerProbe`).
* One publisher writes a feed, all indicators of one symbol share a terminal thread, and a
  hung terminal keeps its handles. The last try of a publish, ten seconds after the first, is
  refused only if the terminal hung (`FeedExchange`).
* All bars a bridge wrote reach the engines and the terminal's own history alike
  (`SwingChart`, `ReferenceLevels`).

## 6. Other divergences met while modelling

Stated here without a run, because no property separates them from intended behaviour or
because they are about one path only.

Compliance and execution:

* In `DRAWDOWN_HEADROOM` mode the daily halt is a share of *total* drawdown (`engine.py:253`),
  which a new day does not reset: the account stays halted although `engine.py:130` and the
  verdict's reason (`:343`) promise the next trading day. (`NewDayClearsDailyBreach` holds for
  `FIXED`.)
* A daily breach is not latched: an intraday recovery lifts it (`engine.py:331`), although its
  reason says "until the next trading day" (`:351`).
* The engine sees the account only at a dispatch (`live_dispatch.py:180`), so a high
  between two trades never raises the peak that `engine.py:101` describes.
* OPEN is approved but the position is not seen by VERIFY_OPEN: `_finish` closes nothing and
  leaves `cleanup_verified` True (`preflight.py:348` against `:106`).
* A preflight whose position is stopped out before `_finish` passes without a CLOSE step
  (`preflight.py:353` against `:14-15`).
* `positions_now` or `send_order` raising inside the `_finish` of the `except` clause
  (`:346`) escapes `run`: the path its comment (`:336-338`) names as the one that leaves a
  live position behind.
* A closeout whose position is closed by its own stop after the plan gets a raised answer
  ("not found"), and every later request of the plan stays unsent; what is unsent is named by
  nothing, since the job does not return. A cancel of an order that was triggered is only a
  refused result: the position it became is not closed. An OPEN in flight at the plan is not named.
  Nothing in the runtime calls either job.
* "Approved" includes PLACED and DONE_PARTIAL (`core/mt5.py:143`). A closeout reports a position that was
  closed in part, or not yet, as an approved result and does not look again; only the retcode in it
  tells. A preflight does look, and fails.

News:

* What the bridge labels UTC is the calendar's time and a constant (`VO_CalendarBridge.mq5:133`, 0 by
  default). The header (`:40`) leaves open which clock the calendar is on, and asks not to rely on the
  gate before it is calibrated. Nothing checks that, on either side of the file: on a server's clock, with the default the gate is closed hours off, or, as the section above
  says, never. A calibrated offset is right until the server's clock next changes.
* An empty calendar file, as between the truncation and the first line, is a calendar without
  events: the gate is open.
* The bridge opens its file without share flags (`VO_CalendarBridge.mq5:202`), so a read in
  the middle may raise `PermissionError`, which nothing catches; it writes `FILE_ANSI` and the
  reader decodes UTF-8, outside its `try`.
* An empty currency filter means all currencies to the bridge, and none to the gate, whose
  word for all is None.

Telemetry:

* A dashboard connects or leaves while `publish` waits for another: the set changes size, the
  loop raises, `run_forever` ends (`publisher.py:89` against `:13-14`).
* A client that `publish` drops keeps its open connection (`publisher.py:98`): it gets no
  further line and has no reason to reconnect.
* `stop` awaits `server.wait_closed()` before it closes a writer (`publisher.py:103`). Since
  Python 3.12 (`pyproject.toml` asks for 3.13) that returns when every connection has
  ended, and a dashboard never ends its own: the shutdown of `:50` waits for ever
  (`StopReturns` needs every client away).
* `ConnectionResetError` from `readline`, or a line that fails outside the inner `try`, ends
  the link task (`ea_link.py:75` against `:52`).
* Silence on a live connection is reported as DISCONNECTED (`ea_link.py:79`); the status
  STALE, documented in `vo/telemetry/state.py`, is never used.
* A gap in the bars never heals: a bar written late is refused by the sequence.

Time:

* The probe: a failed chunk of history only *adds* weeks that seem shifted or regular
  (`probe.py:303` calls declining "a real outcome", but nothing declines for a hole). With one
  missing chunk in the middle, a broker of New York's calendar is observed to keep Europe's
  for about a fifth of the places and dates. So is a broker without daylight saving whose
  short history ends just after New York's autumn change: the European branch asks for no
  year. Such a broker, with the default 14 months, is not judged in part of the year.
* `seed_broker_profile.py:139` dates the measurement by the moment of seeding: a seed after a
  clock change moves both offsets by an hour. The terminal's time, on a weekend, is that of the
  last tick. A profile's confidence decides nothing:
  `resolve_broker_utc` reads the calendar alone.
* A measured offset of 2.99972 hours (a second of staleness) puts every instant a second late,
  and then no bar is ever a session's first (`transition`).
* The port's ambiguous hour has its two ends exchanged (`VO_ReferenceLevelsMath.mqh:201-202`):
  it is never found ambiguous, as `brokers.py` finds it.
* In New York's repeated hour the aggregator emits an *earlier* bucket or merges two hours,
  although `aggregate.py:135` says only a later bucket closes one.

Observation, feed and reports:

* `publish_regime.py:129` sorts the bars of the wire by `seq`, which every start of the bridge begins
  anew. With several starts in one file, a bar of the second comes before the bars of the first,
  and the sequence then refuses bars the pipeline has; the comment at `:156` says it skips
  "exactly as ObservationPipeline quarantines it". A broker profile that is the only one also
  serves servers it is not of (`:112`), which the pipeline quarantines.
* `_parse_v1_source` (`vo/market/mapping.py:82`) raises `AttributeError`, not `ValueError`, for a source
  that is not text; the bridge writes none.
* `hurst_exponent` accepts periods 4 and 5 and always answers None for them: they have one lag
  (`hurst.py:79`, `:91`).
* The samples of a killzone take the last ATR and efficiency ratio before them however old
  (`hmm_report.py:180`); the exponent before a transition has a largest age.
* RETRACEMENT carries the evidence that the defining swing is intact, which is not asked of
  a close beyond it during EXPANSION, nor on the entry bar. A first leg without a defining
  price can neither reverse nor end in a consolidation.
* Two EXPANSION records of one bar may share an identity.
* A same-type move of the SWING anchor leaves an internal anchor that formed before it,
  contrary to the docstring of `structure_range.py`.
* `VO_Swings` draws a swing that was replaced, never broken, as confirmed for ever.
  `VO_EntryTiming.mq5:57` declares two buffers and sets three.
* `backtest_regime.py:46` says it writes `<symbol>_regime.feed`; the code (`:513`) writes
  `_regime_history.feed`, and says why.
* A year slice drops a lean whose last record is of the year before its resolution, and takes
  a refresh whose origin is of the previous year for an entry, although
  `regime_validation.py:62` attributes a lean to the year of its resolution. The backtest does
  not trim the warm-up that the publisher trims.
* `build_preceding_pullback_duration_matrices` (`markov_report.py:230`) also counts moves to
  CONSOLIDATION, which its docstring does not name.
* The comparison with the range rule can never name RETRACEMENT or REVERSAL, whose bands have
  no width; only PULLBACK is documented as never agreeing.
* Any error but `PermissionError` ends `publish_regime.py --watch`, and two publishers of one
  feed share its temporary file. On a chart of longer bars a band may be drawn backwards (its
  edge before its start).

LRX:

* The leg that began an expansion may also confirm its reversal: `observe_reversal` dates
  the shift only (`lrx_cerr.py:596`), not the raid or the leg behind it, and the comment
  there speaks of the shift alone. The diagram does not tell such a reversal from a second
  sequence.
* A bar that confirms any leg is not observed (`lrx_calibration.py:395`), also when the
  cycle does not take the leg: a new extreme, a close past the origin and a shift on it
  are never seen, and the phase limit does not count it.
* A leg that lies wholly on one side of the range "breaks out" of it (`lrx_cerr.py:337`):
  only its far end is compared.
* A raid gets one measurement, on the bar after its return or, while the ATR is zero, on the
  first that has one: a FAIL is not None, so `replay_events` drops the raid
  (`lrx_replay.py:353`) whatever horizon `displacement_search_bars` (`:122`) allows. A leg of
  two bars has no gap, so but for a vanishing ATR a replayed leg never carries one.
* One excursion beyond a level is reported as two raids where it returns twice within the
  limit.
* BROKEN is a second record of a swing, so `visible_swings(active_only=True)`
  (`lrx_swings.py:236`) still offers the first one. Both tiers are in one list, so a run of
  breaks may hold one price twice. Labels and equal peers compare a swing with its own record.
* The edges of a day's opening range gap are raidable from the day's first bar, hours before the
  opening that makes one of them (`lrx_replay.py:285`, `levels.py:286`), though `lrx_replay.py:17` says
  that lookahead is prevented structurally.
* Levels of the session are never raided (the replay passes `session_start=None`,
  `lrx_replay.py:304`), and `raidable`, which applies `minimum_class`, `detect_bos_run`,
  `evaluate_arming`, `must_flatten` and `detect_inefficiencies_in_leg` are called by nothing
  outside the tests.

## 7. Not modelled

* The text of a line (of it, `WireRecords` has which fields there are and of what kind), YAML
  configuration, logging, HTTP getters: pure conversions.
* The dashboard's settings and frontend: the settings store refuses every write, and the page
  draws what it receives. The account reader is one terminal call per function.
* Real arithmetic: medians and tests in the reports, confidence numbers of records, the
  fit of a Hurst exponent and of a hidden Markov model, rendering and JSON output. The RTH
  label is a second labelling of the same bars.
* LRX sensitivity and calibration scripts: loops over the replay that count. The fill states of
  a gap and the arming gates, which nothing calls.
* Of the probe: its text formats, its holiday tables and the check of the daily close.

## 8. What is left

1. **Proofs.** `RiskIsBounded` for more than one trade at a time, and a bound on what late orders can
   add up to, need induction over the book. Of the observation engines `FeedShowsWhatWasHeld` is the next: `BandsFollowOneAnother` has
   the bands of a build, and what a run held on a bar has to be related to its log.
2. **`Telemetry`**, composing `Publisher` and `Dashboard`: a dropped client is seen to be so
   by its dashboard.
3. **The regime engine's refinement**: a specification of the five conditions and the moves
   between them, as `CerrPhases` is for the cycle.
4. **The arming gates and the fill states** of `vo/valco`, once something calls them.
5. **Two commissioned accounts** in one `LiveDispatch`, once the login is compared.
