---------------------------- MODULE Observation -----------------------------
(***************************************************************************)
(* The engines that read the swings, over the bars of SwingChart: every     *)
(* closed bar goes to the swing engines of both tiers, and what it confirms *)
(* to the regime engine of one tier and to the range engine of both.  A     *)
(* feed can be published, and a backtest of the bars reported, after any    *)
(* bar.                                                                    *)
(***************************************************************************)
EXTENDS SwingChart, PhaseReports, StructureContext

R == INSTANCE StructureRange
L == INSTANCE LrxChain

CONSTANTS
  RegimeTier,   \* tier of regime.yaml
  SessionOf,    \* the session each bar is in
  BucketOf,     \* of each higher timeframe, the bucket each bar is in
  YearOf,       \* the year each bar is in
  Stride,       \* bars from one sample of a measurement to the next
  HurstPeriod,  \* hurst_period of regime.yaml
  MaxGap,       \* how old a sample may be: max_gap_minutes
  Killzone,     \* the bars of the window the hidden states are fitted on
  DayOf, WeekOf,  \* the trading day and the week each bar is in
  Regular,      \* the bars at or after the regular open of their day
  Unsettled,    \* the bars before the settlement of their day
  OpeningOf,    \* the price each day's regular trading opens at, None if it does not
  Setups        \* the options of each replay of LrxChain

VARIABLES
  regime,   \* the RegimeEngine
  range,    \* the StructureRangeEngine
  held,     \* after each bar, what the engines held: [regime, direction, lean, range]
  frames,   \* the engines of the higher timeframes
  points,   \* the swings of the swing tier and the internal tier, as they were found
  replays   \* the events of each setup's replay

observed == <<regime, range, held, frames, points, replays>>

-----------------------------------------------------------------------------
(* ReferenceLevelEngine over a run of n bars, asked on the day of bar i.    *)

\* A mutant: the period that still runs is taken for the last.
LastOrThisPeriod(periodOf, period, n) ==
  LET running == {j \in 1..n : periodOf[j] <= period}
  IN {j \in running : \A m \in running : periodOf[m] <= periodOf[j]}

\* The bars of the last period, of those before one.
LastPeriod(periodOf, period, n) ==
  LET earlier == {j \in 1..n : periodOf[j] < period}
  IN {j \in earlier : \A m \in earlier : periodOf[m] <= periodOf[j]}

OhlcOf(all, some) ==
  IF some = {} THEN None
  ELSE [high |-> Max({all[j].high : j \in some}), low |-> Min({all[j].low : j \in some}),
        close |-> all[Max(some)].close]

PreviousDay(n, i) == LastPeriod(DayOf, DayOf[i], n)
PreviousWeek(n, i) == LastPeriod(WeekOf, WeekOf[i], n)

\* opening_range_gap: from the settlement of the day before to the open of this one.
OpeningGap(all, n, i, opened) ==
  LET before == PreviousDay(n, i) \cap Unsettled
      settled == all[Max(before)].close
  IN IF before = {} \/ opened = None THEN None
     ELSE [high |-> Larger(settled, opened), low |-> Smaller(settled, opened)]

Reference(all, n, i, opened) ==
  [day |-> OhlcOf(all, PreviousDay(n, i)), week |-> OhlcOf(all, PreviousWeek(n, i)),
   gap |-> OpeningGap(all, n, i, opened)]

\* What a run of n bars says of the open of a day.
OpenedBy(all, n, day) ==
  LET regular == {j \in 1..n : DayOf[j] = day} \cap Regular
  IN IF regular = {} THEN None ELSE all[Min(regular)].open

\* A replay has the engine of its whole run: the open of the day is there before its bar is.
ReplayReference(i) == Reference(bars, i, i, OpeningOf[DayOf[i]])

\* The open that is there before its bar is the one its bar will have.
ASSUME DayAssumption ==
  /\ {DayOf, WeekOf} \subseteq [1..MaxBars -> Int]
  /\ \A i \in 1..(MaxBars - 1) : DayOf[i] <= DayOf[i + 1] /\ WeekOf[i] <= WeekOf[i + 1]
  /\ \A i \in Regular \cap 1..MaxBars :
       (\A j \in Regular \cap 1..(i - 1) : DayOf[j] # DayOf[i]) =>
         {OpeningOf[DayOf[i]]} = IF i <= Len(History) THEN {History[i].open}
                                 ELSE {b.open : b \in ShapesAt[i]}
  /\ \A i \in 1..MaxBars :
       OpeningOf[DayOf[i]] = None <=> \A j \in Regular \cap 1..MaxBars : DayOf[j] # DayOf[i]

-----------------------------------------------------------------------------
\* What a tier's engine makes of the bar that closes.
Confirming(t) == NewEvents(Tiers[t], AtrPeriod, engines[t], bars)

Holding(r, e) ==
  [regime |-> r.regime, direction |-> r.direction,
   lean |-> IF r.unresolved = None THEN None ELSE r.unresolved.lean, range |-> e.state]

Observe ==
  /\ regime' = Classified(regime, bars, EfficiencyRatio(bars, Len(bars), ErPeriod),
                          Confirming(RegimeTier))
  /\ range' = R!Ranged(range, bars, Confirming("swing"), Confirming("internal"))
  /\ held' = Append(held, Holding(regime', range'))
  /\ frames' = [f \in DOMAIN BucketOf |->
                  Pushed(frames[f], BucketOf[f], bars, Tiers[RegimeTier], AtrPeriod, ErPeriod)]
  /\ points' = points \o Confirming("swing") \o Confirming("internal")
  /\ replays' = [s \in DOMAIN Setups |->
                   L!Replayed(replays[s], bars, ReplayReference(Len(bars)), points', Setups[s])]

\* The engines of a higher timeframe that have been given the history.
WarmedFrame(f) ==
  LET After[i \in 0..Len(History)] ==
        IF i = 0 THEN NewFrame
        ELSE Pushed(After[i - 1], BucketOf[f], SubSeq(History, 1, i), Tiers[RegimeTier],
                    AtrPeriod, ErPeriod)
  IN After[Len(History)]

ObservationInit ==
  /\ Init
  /\ regime = NewRegime
  /\ range = R!NewRange
  /\ held = [i \in DOMAIN History |-> Holding(NewRegime, R!NewRange)]
  /\ frames = [f \in DOMAIN BucketOf |-> WarmedFrame(f)]
  /\ points = <<>>
  /\ replays = [s \in DOMAIN Setups |-> L!NewReplay]

\* The history is too short for an engine to have seen a swing in it, or for a raid.
ASSUME HistoryAssumption == Len(History) <= 2

\* None is no record's identity.
ASSUME IdAssumption == None \notin Regimes \X Nat

\* None is no number and no ratio.
ASSUME RatioAssumption == None \notin Int /\ None \notin Int \X Int

\* None is no direction.
ASSUME DirectionAssumption == None \notin Directions

\* The swings of two tiers make the range and are what the detectors see.
ASSUME TierAssumption == {"swing", "internal"} \subseteq DOMAIN Tiers

\* Numbers of bars.
ASSUME SetupAssumption ==
  \A n \in DOMAIN Setups :
    /\ Setups[n].atrPeriod \in Nat \ {0}
    /\ {Setups[n].returnMax, Setups[n].searchBars} \subseteq Nat

\* Buckets are of times, which only grow from bar to bar.
ASSUME BucketAssumption ==
  \A f \in DOMAIN BucketOf :
    /\ BucketOf[f] \in [1..MaxBars -> Int]
    /\ \A i \in 1..(MaxBars - 1) : BucketOf[f][i] <= BucketOf[f][i + 1]

ObservationNext ==
  \/ Shape /\ UNCHANGED observed
  \/ NextBar /\ Observe

ObservationSpec == ObservationInit /\ [][ObservationNext]_<<vars, observed>>

-----------------------------------------------------------------------------
Pullbacks == {i \in DOMAIN regime.states : regime.states[i].regime = "PULLBACK_UNRESOLVED"}

\* Every record of a pullback is superseded once, by a later record, but for the one
\* that waits to be resolved; and one waits exactly while the regime is unresolved
\* (regime.py:221, canonical.py G5).
OneRecordWaits ==
  LET Revisions(i) == {j \in DOMAIN regime.states : regime.states[j].supersedes = Id(regime.states[i])}
      waiting == {i \in Pullbacks : Revisions(i) = {}}
  IN /\ \A i \in Pullbacks \ waiting : \E j \in Revisions(i) : Revisions(i) = {j} /\ j > i
     /\ {regime.states[i] : i \in waiting} =
          IF regime.regime = "PULLBACK_UNRESOLVED" THEN {regime.unresolved} ELSE {}

\* Since a delivery began it has resolved a pullback before it ends in consolidation:
\* consolidation, expansion, consolidation never happens (regime.py:48).
FirstLegDelivers ==
  LET Ends == {i \in DOMAIN regime.states : regime.states[i].regime = "CONSOLIDATION"}
  IN \A i \in Ends :
       \E j \in 1..(i - 1) :
         /\ regime.states[j].regime \in {"RETRACEMENT", "REVERSAL"}
         /\ \A k \in Ends : k < i => k < j

\* While a pullback waits, no bar since the one it was recognised on has closed beyond
\* the price that defines it, whatever swings were confirmed meanwhile (regime.py:452).
DefiningPriceHolds ==
  regime.regime = "PULLBACK_UNRESOLVED" /\ regime.defining # None =>
    LET moves == regime.transitions
        began == moves[Max({k \in DOMAIN moves : moves[k].to = "PULLBACK_UNRESOLVED"})].at
    IN \A j \in (began + 1)..Len(Closed) :
         ~Beyond(Trailing(regime.direction), bars[j].close, regime.defining)

FeedFrom == WarmupEnd(AtrPeriod, Tiers[RegimeTier])

CurrentFeed == Feed(regime.states, Closed, FeedFrom)

\* Before the first record, or in the warm-up once there are bars after it.
Unclassified(i) ==
  \/ regime.states = <<>>
  \/ i < regime.states[1].at
  \/ i < FeedFrom /\ FeedFrom <= Len(Closed)

\* Over every bar the feed shows one band, what the engine held after that bar, from the
\* first record or the end of the warm-up on, and none before (regime_feed.py:199,
\* regime_report.py:377).
FeedShowsWhatWasHeld ==
  BarClosed =>
  LET segments == CurrentFeed.segments
      Shown(i) == {s \in segments : Covers(s, i)}
  IN \A i \in DOMAIN Closed :
       IF Unclassified(i) THEN Shown(i) = {}
       ELSE /\ Cardinality(Shown(i)) = 1
            /\ \A s \in Shown(i) :
                 /\ s.regime = held[i].regime
                 /\ s.direction = held[i].direction
                 /\ i \in s.spanned
                 /\ s.end = None => s.lean = held[Len(Closed)].lean

\* The panel counts every bar once, in its session, under what the engine held after it
\* (regime_report.py:377).
PanelCountsEveryBar ==
  BarClosed =>
  LET Cell(i) == <<SessionOf[i], IF Unclassified(i) THEN None ELSE held[i].regime>>
      InCell(c) == {i \in DOMAIN Closed : Cell(i) = c}
      rows == Breakdown(CurrentFeed.segments, SessionOf, Len(Closed))
  IN /\ {<<row.session, row.regime, row.bars>> : row \in rows} =
          {<<Cell(i)[1], Cell(i)[2], Cardinality(InCell(Cell(i)))>> : i \in DOMAIN Closed}
     /\ MapThenSumSet(LAMBDA row : row.bars, rows) = Len(Closed)

\* Every resolution is scored from the bar its pullback began on, and with the lean the
\* engine held at each horizon from there (regime_report.py:257, :308).
LeansScoredAsHeld ==
  BarClosed =>
  LET moves == regime.transitions
      resolving == {k \in DOMAIN moves : moves[k].to \in {"RETRACEMENT", "REVERSAL"}}
      chains == LeanChains(regime.states)
  IN /\ {<<c.records[1].at, c.resolution.regime, c.resolution.at>> : c \in chains} =
          {<<moves[k - 1].at, moves[k].to, moves[k].at>> : k \in resolving}
     /\ \A h \in 0..3 : \A c \in ScoredAt(regime.states, h) :
          LeanAfter(c, h) = held[c.records[1].at + h].lean

-----------------------------------------------------------------------------
(* The reports of a backtest of the bars so far.                           *)

Run == 1..Len(Closed)

\* A backtest does not trim the warm-up off its bands.
RunSegments == Segments(regime.states, Closed)

RunReport == Report(RunSegments, regime.states, regime.transitions, Run)

Periods == PeriodBreakdown(RunSegments, regime.states, regime.transitions, YearOf, Len(Closed))

RangeOf == [i \in Run |-> held[i].range]

\* The bars of each band are those from one transition of the engine to the next, although
\* the bands are made of its states and not of its transitions (regime_report.py:475).
DurationsMatchTransitions ==
  BarClosed =>
  LET moves == regime.transitions
      segments == RunSegments
      Until(k) == IF k = Len(moves) THEN Len(Closed) + 1 ELSE moves[k + 1].at
      Stays(r) == {<<moves[k].at, Until(k) - moves[k].at>> :
                     k \in {k \in DOMAIN moves : moves[k].to = r /\ Until(k) > moves[k].at}}
  IN \A r \in Regimes :
       /\ Durations(segments, Run, r) = Stays(r)
       /\ Distribution(segments, Run, r) =
            [n |-> Cardinality(Stays(r)),
             minimum |-> IF Stays(r) = {} THEN None ELSE Min({d[2] : d \in Stays(r)}),
             maximum |-> IF Stays(r) = {} THEN None ELSE Max({d[2] : d \in Stays(r)})]

\* Each pullback gives one sample of the evidence and each resolution one, however often
\* a lean was renewed (regime_report.py:564, regime_validation.py:321).
OneSamplePerEntry ==
  LET moves == regime.transitions
  IN \A r \in Regimes :
       Evidence(regime.states, r).n = Cardinality({k \in DOMAIN moves : moves[k].to = r})

\* Of a run cut into years, or its moves into sessions, nothing is counted twice or lost:
\* minutes, moves and resolutions add up to the run's, a band counts in each year it
\* has a bar in, and a lean is scored where its last record and its resolution share a
\* year (regime_validation.py:159).
PeriodsAddUp ==
  BarClosed =>
  LET periods == Periods
      whole == RunReport
      segments == RunSegments
      Sum(Of(_)) == MapThenSumSet(Of, DOMAIN periods)
      Rows(y, r) == IF r \in DOMAIN periods[y].rows THEN periods[y].rows[r].minutes ELSE 0
      Bands(y) == MapThenSumSet(LAMBDA r : IF periods[y].rows[r].momentary THEN 0
                                           ELSE periods[y].rows[r].segments,
                                DOMAIN periods[y].rows)
      Moves(y, pair) == IF pair \in DOMAIN periods[y].moves THEN periods[y].moves[pair] ELSE 0
      matrices == LabelMatrices(regime.transitions, SessionOf)
      In(name, pair) == IF pair \in DOMAIN matrices[name] THEN matrices[name][pair] ELSE 0
      BarYears == {b \in segments \X DOMAIN periods :
                     \E i \in BarsIn(b[1], Run) : YearOf[i] = b[2]}
      scored == {c \in LeanChains(regime.states) :
                   LastLean(c) \in Resolutions /\ YearOf[Last(c.records).at] = YearOf[c.resolution.at]}
  IN /\ \A r \in Regimes : Sum(LAMBDA y : Rows(y, r)) = Minutes(segments, Run, r)
     /\ Sum(Bands) = Cardinality(BarYears)
     /\ \A pair \in DOMAIN whole.moves :
          /\ Sum(LAMBDA y : Moves(y, pair)) = whole.moves[pair]
          /\ MapThenSumSet(LAMBDA name : In(name, pair), DOMAIN matrices) = whole.moves[pair]
     /\ \A r \in Resolutions :
          Sum(LAMBDA y : periods[y].anticipation.resolved[r]) = whole.anticipation.resolved[r]
     /\ Sum(LAMBDA y : periods[y].anticipation.last.leaned) = Cardinality(scored)

\* A resolution counts once, in the session of its own bar, for the lean the engine held
\* on the bar before it, and the swing behind every lean is as old as its tier waits
\* (regime_validation.py:465, :518).
LeansCountedOnce ==
  BarClosed =>
  LET moves == regime.transitions
      Before(k) == IF moves[k - 1].at < moves[k].at THEN held[moves[k].at - 1].lean
                   ELSE LastLean(CHOOSE c \in LeanChains(regime.states) : c.resolution.at = moves[k].at)
      leaned == {k \in DOMAIN moves : moves[k].to \in Resolutions /\ Before(k) \in Resolutions}
      In(name) == {k \in leaned : SessionOf[moves[k].at] = name}
      accuracy == Accuracy(regime.states, SessionOf, {1})
  IN /\ accuracy.slices =
          [name \in {SessionOf[moves[k].at] : k \in leaned} |->
             [n |-> Cardinality(In(name)),
              matched |-> Cardinality({k \in In(name) : Before(k) = moves[k].to})]]
     /\ accuracy.anticipation.last.leaned = Cardinality(leaned)
     /\ accuracy.byHorizon[1].eligible <= accuracy.anticipation.origin.eligible
     /\ accuracy.lags \subseteq {Tiers[RegimeTier].k}

\* Every move out of a pullback is timed from the bar the engine entered it on, whatever
\* became of it (markov_report.py:198).
PullbacksTimedFromTheirStart ==
  LET moves == regime.transitions
  IN {<<p.move, p.minutes>> : p \in PrecedingPullbacks(moves, regime.states)} =
       {<<moves[k], moves[k].at - moves[k - 1].at>> :
          k \in {k \in DOMAIN moves : moves[k].from = "PULLBACK_UNRESOLVED"}}

\* Before the first record.
Unreached(i) == regime.states = <<>> \/ i < regime.states[1].at

Ratios(n) == RollingEr(SubSeq(bars, 1, n), ErPeriod, Stride)

HurstSeries(n) == RollingHurst(SubSeq(bars, 1, n), HurstPeriod, Stride)

\* The samples of the hidden states, had the run ended after n bars.
HiddenSamples(n) ==
  KillzoneSamples(SubSeq(bars, 1, n), RollingAtr(SubSeq(bars, 1, n), AtrPeriod, Stride),
                  Ratios(n), Killzone)

\* What is compared in that run, with the states named as they are in this one.
Comparisons(n) ==
  LET states == SelectSeq(regime.states, LAMBDA s : s.at <= n)
      fitted == HiddenSamples(Len(Closed))
      profiles == StateProfiles(fitted, HurstSeries(Len(Closed)), MaxGap)
  IN IF ~Trainable(fitted) THEN {}
     ELSE PhaseComparisons(Segments(states, SubSeq(bars, 1, n)), HiddenSamples(n), HurstSeries(n),
                           Extremes(profiles), MaxGap)

\* Every bar and every sampled ratio is put under the phase the engine held after it, and
\* the range rule agrees only there where it said the same: never on a pullback, and never
\* on a resolution, which is no bar's phase (structure_range_agreement.py:100,
\* regime_windows.py:47).
AgreementIsBarForBar ==
  BarClosed =>
  LET known == {i \in Run : regime.states # <<>> /\ i >= regime.states[1].at}
      segments == RunSegments
      Of(p) == {i \in known : held[i].regime = p}
      samples == Ratios(Len(Closed))
      report == Agreement(segments, RangeOf, Len(Closed))
  IN /\ DOMAIN report = {held[i].regime : i \in known}
     /\ DOMAIN report \cap Resolutions = {}
     /\ \A p \in DOMAIN report :
          /\ report[p].n = Cardinality(Of(p))
          /\ report[p].agreed = Cardinality({i \in Of(p) : held[i].range = p})
          /\ report[p].agreed + MapThenSumSet(LAMBDA q : report[p].instead[q],
                                              DOMAIN report[p].instead) = report[p].n
          /\ p = "PULLBACK_UNRESOLVED" => report[p].agreed = 0
     /\ ByRegime(samples, segments) =
          [p \in {held[i].regime : i \in known \cap DOMAIN samples} |-> Of(p) \cap DOMAIN samples]

\* What is guessed of a bar and measured before a move is what it would have been had the
\* run ended there, and the tables lose nothing of it: a comparison stands under the phase
\* the engine held after its bar, a move with a sample in one group, one bucket and one row
\* of the state before it (phase_agreement.py:122, transitions.py:82, markov_report.py:162).
GuessesAreOfTheirTime ==
  BarClosed =>
  LET n == Len(Closed)
      moves == regime.transitions
      hursts == HurstSeries(n)
      compared == Comparisons(n)
      report == PhaseAgreement(compared)
      HeldIn(p) == {c \in compared : c.at >= regime.states[1].at /\ held[c.at].regime = p}
      Instead(p) == MapThenSumSet(LAMBDA g : report.byPhase[p].instead[g],
                                  DOMAIN report.byPhase[p].instead)
      Preceding(m) == PrecedingTransitions(HurstSeries(m), SelectSeq(moves, LAMBDA v : v.at <= m), MaxGap)
      Found(m) == UNION {Preceding(m)[to] : to \in DOMAIN Preceding(m)}
      Total(matrix) == MapThenSumSet(LAMBDA pair : matrix[pair], DOMAIN matrix)
      buckets == ValueBucketMatrices(moves, hursts, MaxGap)
      second == SecondOrder(moves)
  IN /\ Comparisons(n - 1) = {c \in compared : c.at < n}
     /\ Found(n - 1) = {f \in Found(n) : moves[f[1]].at < n}
     /\ \A f \in Found(n) : f[2] \in (moves[f[1]].at - MaxGap)..moves[f[1]].at
     /\ Cardinality(DOMAIN hursts) >= 3 =>
          MapThenSumSet(LAMBDA label : Total(buckets[label]), DOMAIN buckets) = Cardinality(Found(n))
     /\ \A pair \in DOMAIN second :
          Total(second[pair]) = Cardinality({k \in 1..(Len(moves) - 1) : <<moves[k].from, moves[k].to>> = pair})
     /\ regime.states # <<>> =>
          /\ report.comparable = Cardinality({c \in compared : c.at >= regime.states[1].at})
          /\ \A p \in DOMAIN report.byPhase :
               /\ report.byPhase[p].n = Cardinality(HeldIn(p))
               /\ report.byPhase[p].agreed + Instead(p) = report.byPhase[p].n
     /\ ByRegimeReport([w \in {HurstPeriod} |-> hursts], RunSegments) =
          [w \in {w \in {HurstPeriod} : \E i \in DOMAIN hursts : ~Unreached(i)} |->
             [p \in {held[i].regime : i \in {i \in DOMAIN hursts : ~Unreached(i)}} |->
                {i \in DOMAIN hursts : ~Unreached(i) /\ held[i].regime = p}]]

-----------------------------------------------------------------------------
\* Of the bars so far those in a bucket, and the longer bar they make.
InBucket(f, b, n) == {i \in 1..n : BucketOf[f][i] = b}

LongerBar(f, b, all, n) ==
  LET group == InBucket(f, b, n)
  IN [open |-> all[Min(group)].open, close |-> all[Max(group)].close,
      high |-> Max({all[i].high : i \in group}), low |-> Min({all[i].low : i \in group})]

\* The buckets a later bar has ended.
Over(f, n) == {BucketOf[f][i] : i \in 1..n \ InBucket(f, BucketOf[f][n], n)}

\* The longer bars a timeframe's engines have seen are those of the buckets that are
\* over, in order, each with every bar of its bucket and with no other
\* (structure_context.py:27).
HigherBarsAreOver ==
  BarClosed =>
  \A f \in DOMAIN frames :
    LET over == Over(f, Len(Closed))
    IN /\ Len(frames[f].bars) = Cardinality(over)
       /\ \A b \in over :
            frames[f].bars[Cardinality({c \in over : c <= b})] = LongerBar(f, b, bars, Len(Closed))

\* The last record of each timeframe says what its engine now holds, and two timeframes
\* are aligned or counter only while neither consolidates (structure_context.py:127).
ContextSaysWhatIsHeld ==
  BarClosed =>
  LET snapshot == Snapshot(regime, Closed, frames)
      Says(s, engine) == /\ s.regime # None => s.regime = engine.regime
                         /\ s.direction = engine.direction
  IN /\ Says(snapshot.execution, regime)
     /\ \A f \in DOMAIN frames :
          /\ Says(snapshot.higher[f], frames[f].regime)
          /\ snapshot.alignment[f] = "UNDEFINED" <=>
               "CONSOLIDATION" \in {regime.regime, frames[f].regime.regime}
          /\ snapshot.alignment[f] = "ALIGNED" =>
               regime.direction = frames[f].regime.direction

-----------------------------------------------------------------------------
LegRecords == {i \in DOMAIN range.states : range.states[i].state # "CONSOLIDATION"}

\* The anchors a record names were both confirmed after the range before it ended, and
\* no later than the leg it belongs to began (structure_range.py:245, :380).
RangesDoNotShareAnchors ==
  BarClosed =>
  \A i \in DOMAIN range.states :
    LET record == range.states[i]
        ended == {j \in 1..(i - 1) : range.states[j].state = "REVERSAL"}
        from == IF ended = {} THEN 0 ELSE range.states[Max(ended)].at
        broke == {j \in 1..i : (ended = {} \/ j > Max(ended)) /\ j \in LegRecords}
        to == IF broke = {} THEN record.at ELSE range.states[Min(broke)].at
    IN /\ {record.swing.at, record.internal.at} \subseteq (from + 1)..to
       /\ record.internal.type = R!Facing(record.swing.type)

\* A leg is an expansion exactly on the bars that set its extreme, which is the furthest
\* body since the break of the bars that did not reclaim the boundary (structure_range.py:314).
LegFollowsItsBars ==
  range.state \in {"EXPANSION", "RETRACEMENT"} =>
    LET ended == {i \in DOMAIN range.transitions : range.transitions[i].to = "REVERSAL"}
        began == range.transitions[IF ended = {} THEN 1 ELSE Max(ended) + 1].at
        Tips(to) == {BodyTip(Leading(range.direction), bars[j]) :
                       j \in {j \in began..to : j = began \/ ~R!Reclaimed(range, bars[j])}}
        Best(to) == IF range.direction = "UP" THEN Max(Tips(to)) ELSE Min(Tips(to))
        now == Len(Closed)
    IN /\ range.extreme = Best(now)
       /\ range.state = "EXPANSION" <=> now = began \/ Best(now) # Best(now - 1)

-----------------------------------------------------------------------------
\* The bars a leg's shift may come on.
ShiftBars(leg, s) == (leg.end + 1)..Smaller(leg.end + L!Horizon(s), Len(Closed))

\* Every qualified leg has the shift, and only that, which is found on the first bar that
\* breaks its swing when the walk is repeated with all the swings that are known by now:
\* no swing confirmed later takes part (lrx_mss.py:323, lrx_replay.py:20).
ShiftsStandInHindsight ==
  BarClosed =>
  \A n \in DOMAIN Setups :
    LET s == Setups[n]
        qualified == {l \in replays[n].legs : l.qualification = "PASS"}
        Breaking(l) == {j \in ShiftBars(l, s) : L!IsShift(bars, j, l, points, s)}
    IN replays[n].shifts =
         {L!Shift(Min(Breaking(l)), l, points, s) : l \in {q \in qualified : Breaking(q) # {}}}

\* The bars a raid's leg may end on: those that have an ATR to measure it against.
LegBars(r, s) ==
  {i \in (r.at + 1)..Smaller(r.at + L!Horizon(s), Len(Closed)) : L!Measurable(bars, i, r, s)}

\* Every raid gets one leg, up to the first bar it can be measured on, however long the
\* search may go on and whether or not that leg qualifies; where that is the bar after the
\* raid's own, as it is unless the ATR vanishes, the leg can hold no gap (lrx_replay.py:335).
OneBarForEachRaid ==
  \A n \in DOMAIN Setups :
    \A r \in replays[n].raids :
      LET legs == {l \in replays[n].legs : l.raid = r}
          ends == LegBars(r, Setups[n])
      IN IF ends = {} THEN legs = {}
         ELSE /\ Cardinality(legs) = 1
              /\ \A l \in legs : l.end = Min(ends) /\ (l.end = r.at + 1 => l.gap = None)

\* The breaks after a shift come one a bar, each of a swing of its own, and none goes past
\* a nearer swing that was known by then and is broken later (lrx_bos.py:284, :381).
BreaksInOrder ==
  BarClosed =>
  \A n \in DOMAIN Setups :
    \A h \in replays[n].shifts :
      LET run == L!BosRun(Closed, h, points, Setups[n])
      IN \A b \in DOMAIN run : \A a \in 1..(b - 1) :
           /\ h.at < run[a].at /\ run[a].at < run[b].at
           /\ run[a].id # run[b].id
           /\ points[run[b].id].at <= run[a].at =>
                ~Beyond(L!Opposing(h.leg.direction), run[a].price, run[b].price)

\* Of the levels that a run of these bars has for the day of a raid.
RaidsALevelOfItsDay(r) ==
  r.level \in L!CollectLevels(Reference(bars, Len(Closed), r.at,
                                       OpenedBy(bars, Len(Closed), DayOf[r.at])))

\* The level of a raid is the one that every run of the same bars has, whether it ends with
\* the raid or later: no later bar takes part in it.  A gap's edge is left to the next
\* (levels.py:166, lrx_levels.py:207).
LevelsStandInHindsight ==
  BarClosed =>
  \A n \in DOMAIN Setups :
    \A r \in replays[n].raids : r.level.kind \notin Range(L!OfGap) => RaidsALevelOfItsDay(r)

\* Truncating the history reproduces the events up to there (lrx_replay.py:17-22): whatever
\* level it is that a raid is of.  The opening range gap of a day refutes it; of every other
\* level LevelsStandInHindsight holds.
TruncatedRunsAgree ==
  BarClosed =>
  \A n \in DOMAIN Setups : \A r \in replays[n].raids : RaidsALevelOfItsDay(r)

-----------------------------------------------------------------------------
\* Every swing is decided once, by engine and chart alike, and is on offer only until it
\* is traded through (swings.py:344, VO_SwingMath.mqh:192).
SwingsAreAgreed == SameEventsAsEngine /\ ActiveIsUntouched

\* Whatever bars the chart's indicators formed on, missed or lost from their window, they
\* show what a drawing from the beginning would (VO_Swings.mq5:166, VO_EntryTiming.mq5:156).
ChartIsCurrent == TypeOK /\ DrawnAsDecided /\ PaneShowsReadings

\* Every pullback is resolved once, every leg delivers, and the price that defines a
\* trend holds while the trend is said to (regime.py:377).
RegimeKeepsItsWord == OneRecordWaits /\ FirstLegDelivers /\ DefiningPriceHolds

\* The feed made of a run's records and the panel over it show on each bar what the
\* engine held after it (regime_feed.py:178, regime_report.py:376).
FeedIsTheRun == FeedShowsWhatWasHeld /\ PanelCountsEveryBar /\ LeansScoredAsHeld

\* The tables made of a run, whole or in years and sessions, count each stay, entry,
\* lean and pullback once (regime_report.py:510, regime_validation.py:159).
ReportsCountOnce ==
  /\ DurationsMatchTransitions /\ OneSamplePerEntry /\ PeriodsAddUp
  /\ LeansCountedOnce /\ PullbacksTimedFromTheirStart /\ AgreementIsBarForBar
  /\ GuessesAreOfTheirTime

\* A range has anchors of its own and its leg the extreme of its own bars
\* (structure_range.py:245).
RangesFollowTheirBars == RangesDoNotShareAnchors /\ LegFollowsItsBars

\* Longer frames are fed finished bars, and heard for as long as nothing new is said
\* (structure_context.py:213).
LongerFramesAreRight == HigherBarsAreOver /\ ContextSaysWhatIsHeld

\* The detectors judge each shift and break by what was known on its bar, once and in the
\* order of the bars, and a raid by its bars and, but for an opening gap, by a level that
\* was known on its bar (lrx_replay.py:20).
DetectorsLookBackOnly ==
  ShiftsStandInHindsight /\ OneBarForEachRaid /\ BreaksInOrder /\ LevelsStandInHindsight

=============================================================================
