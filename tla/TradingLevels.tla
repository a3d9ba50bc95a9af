--------------------------- MODULE TradingLevels ----------------------------
(***************************************************************************)
(* What is measured over a stream of M1 bars: longer bars (aggregate.py),   *)
(* the levels of a trading day, week and month (levels.py), and the same    *)
(* levels as VO_ReferenceLevels.mq5 works them out for the chart.           *)
(*                                                                         *)
(* Python's bars carry their instant, utc; the chart's carry the broker's   *)
(* time and New York's.  Weeks and months are runs of days.                 *)
(***************************************************************************)
EXTENDS BrokerClock, SequencesExt

CONSTANTS
  WeekDays, MonthDays,
  LookbackDays          \* InpLookbackDays

ASSUME PeriodAssumption ==
  {WeekDays, MonthDays} \subseteq Nat \ {0} /\ LookbackDays \in Nat

\* The first day of the period of so many days that holds a day.
PeriodOf(day, days) == (day \div days) * days
WeekOf(day) == PeriodOf(day, WeekDays)
MonthOf(day) == PeriodOf(day, MonthDays)

Ohlc(bars) ==
  [open |-> bars[1].open, high |-> Max({bars[i].high : i \in DOMAIN bars}),
   low |-> Min({bars[i].low : i \in DOMAIN bars}), close |-> bars[Len(bars)].close]

-----------------------------------------------------------------------------
(* Longer bars                                                             *)

\* The wall clock of the trading day's open at or before a reading.
DayOpenBefore(wall) ==
  (IF TimeOfDay(wall) >= DayOpens THEN DateOf(wall) ELSE DateOf(wall) - 1) * DayLength + DayOpens

\* Buckets are stepped on New York's clock, from the open of each trading day.
BucketOpens(target, wall) ==
  DayOpenBefore(wall) + ((wall - DayOpenBefore(wall)) \div target) * target

BucketStart(target, utc) == NyUtc(BucketOpens(target, NyWall(utc)))

WorstOf(qualities) == IF "SUSPECT" \in qualities THEN "SUSPECT" ELSE "VALID"

Opened(start, bar) ==
  [start |-> start, quality |-> bar.quality, ohlc |-> Ohlc(<<bar>>), last |-> bar.utc]

\* A mutant: the quality of the bucket before is carried on.
MergedKeepingOld(bucket, bar) ==
  [bucket EXCEPT !.ohlc = Ohlc(<<@, bar>>), !.last = bar.utc]

Merged(bucket, bar) ==
  [bucket EXCEPT !.ohlc = Ohlc(<<@, bar>>), !.last = bar.utc,
                 !.quality = WorstOf({@, bar.quality})]

\* Any other bucket closes this one.
Closes(bucket, start) == bucket # None /\ start # bucket.start

Push(bucket, target, bar) ==
  LET start == BucketStart(target, bar.utc)
  IN IF bucket = None \/ Closes(bucket, start) THEN Opened(start, bar) ELSE Merged(bucket, bar)

Completed(bucket, target, bar) ==
  IF Closes(bucket, BucketStart(target, bar.utc)) THEN <<bucket>> ELSE <<>>

-----------------------------------------------------------------------------
(* ReferenceLevelEngine, over a sequence                                    *)

DayOfBar(bar) == TradingDay(NyWall(bar.utc))

DaysOf(bars) == {DayOfBar(bars[i]) : i \in DOMAIN bars}
Group(bars, days) == SelectSeq(bars, LAMBDA b : DayOfBar(b) \in days)

\* OHLC of the last period before the one that holds the day.
PreviousPeriod(bars, day, length) ==
  LET earlier == {d \in DaysOf(bars) : PeriodOf(d, length) < PeriodOf(day, length)}
      last == {d \in earlier : PeriodOf(d, length) = PeriodOf(Max(earlier), length)}
  IN IF earlier = {} THEN None ELSE [from |-> Min(last), ohlc |-> Ohlc(Group(bars, last))]

PreviousDay(bars, day) == PreviousPeriod(bars, day, 1)
PreviousWeek(bars, day) == PreviousPeriod(bars, day, WeekDays)
PreviousMonth(bars, day) == PreviousPeriod(bars, day, MonthDays)

\* The open of the first bar at or after an instant, the close of the last before it.
OpenFrom(bars, instant) ==
  LET from == SelectSeq(bars, LAMBDA b : b.utc >= instant)
  IN IF from = <<>> THEN None ELSE from[1].open

CloseBefore(bars, instant) ==
  LET before == SelectSeq(bars, LAMBDA b : b.utc < instant)
  IN IF before = <<>> THEN None ELSE before[Len(before)].close

RthOpen(bars, day) == OpenFrom(Group(bars, {day}), InstantFor(day, Rth.start))
Settlement(bars, day) == CloseBefore(Group(bars, {day}), InstantFor(day, Settles))

PeriodOpen(bars, day, length) ==
  Group(bars, {d \in DaysOf(bars) : PeriodOf(d, length) = PeriodOf(day, length) /\ d <= day})[1].open

Gap(settled, opened) ==
  [high |-> Max({settled, opened}), low |-> Min({settled, opened}),
   twiceEquilibrium |-> settled + opened,
   position |-> IF opened > settled THEN "HIGH" ELSE IF opened < settled THEN "LOW" ELSE "FLAT"]

OpeningGap(bars, day) ==
  LET earlier == {d \in DaysOf(bars) : d < day}
      settled == Settlement(bars, Max(earlier))
      opened == RthOpen(bars, day)
  IN IF earlier = {} THEN None
     ELSE IF settled = None \/ opened = None THEN None
     ELSE Gap(settled, opened)

\* Adjacent bars in different sessions, by the position of the second.
BoundaryPairs(bars) ==
  {i \in 2 .. Len(bars) : Context(bars[i].utc).session # Context(bars[i - 1].utc).session}

-----------------------------------------------------------------------------
(* VO_RescanAndDraw                                                        *)

\* The trading days of the scanned bars: a day runs until another one begins.
ScannedDays(bars) ==
  LET day == [i \in DOMAIN bars |-> TradingDay(bars[i].ny)]
      first == SelectSeq([i \in DOMAIN bars |-> i], LAMBDA i : i = 1 \/ day[i] # day[i - 1])
      End(n) == IF n = Len(first) THEN Len(bars) ELSE first[n + 1] - 1
  IN [n \in DOMAIN first |-> [key |-> day[first[n]], bars |-> SubSeq(bars, first[n], End(n))]]

Ray(kind, date, anchor, level) ==
  [name |-> <<kind, date>>, anchor |-> anchor, level |-> level]

PeriodRays(kind, openKind, date, bars) ==
  {Ray(kind, date, bars[1].time, Ohlc(bars)), Ray(openKind, date, bars[1].time, bars[1].open)}

\* The bar at or after a New York reading, the bar before it: none or one.
ChartFrom(bars, reading) ==
  LET from == SelectSeq(bars, LAMBDA b : b.ny >= reading)
  IN IF from = <<>> THEN {} ELSE {from[1]}

\* A mutant: the bar that opens at the settlement settles the day.
ChartUpTo(bars, reading) ==
  LET upTo == SelectSeq(bars, LAMBDA b : b.ny <= reading)
  IN IF upTo = <<>> THEN {} ELSE {upTo[Len(upTo)]}

\* The scan for it stops at the first bar that is not before.
ChartBefore(bars, reading) ==
  LET stop == SelectInSeq(bars, LAMBDA b : b.ny >= reading)
      last == IF stop = 0 THEN Len(bars) ELSE stop - 1
  IN IF last = 0 THEN {} ELSE {bars[last]}

ChartRthOpen(day) == ChartFrom(day.bars, ChartInstantFor(day.key, Rth.start))
ChartSettlement(day) == ChartBefore(day.bars, ChartInstantFor(day.key, Settles))

DailyRays(days, d) ==
  LET day == days[d]
  IN {Ray("DAY OPEN", day.key, day.bars[1].time, day.bars[1].open)}
     \cup {Ray("RTH OPEN", day.key, b.time, b.open) : b \in ChartRthOpen(day)}
     \cup {Ray("SETTLEMENT", day.key, b.time, b.close) : b \in ChartSettlement(day)}
     \cup (IF d = 1 THEN {} ELSE
           {Ray("PREVIOUS DAY", day.key, days[d - 1].bars[1].time, Ohlc(days[d - 1].bars))}
           \cup {Ray("ORG", day.key, o.time, Gap(s.close, o.open)) :
                   s \in ChartSettlement(days[d - 1]), o \in ChartRthOpen(day)})

BarsOfPeriod(days, length, p) ==
  FlattenSeq([d \in DOMAIN days |-> IF PeriodOf(days[d].key, length) = p THEN days[d].bars ELSE <<>>])

Cutoff(days) == days[Len(days)].key - LookbackDays

\* The weeks or months over that began within the lookback, each over all its days.
CompletedRays(days, length, kind, openKind) ==
  LET current == PeriodOf(days[Len(days)].key, length)
      over == {p \in {PeriodOf(days[d].key, length) : d \in DOMAIN days} : p # current /\ p >= Cutoff(days)}
  IN UNION {PeriodRays(kind, openKind, p, BarsOfPeriod(days, length, p)) : p \in over}

WeeklyRays(days) == CompletedRays(days, WeekDays, "PREVIOUS WEEK", "WEEK OPEN")
MonthlyRays(days) == CompletedRays(days, MonthDays, "PREVIOUS MONTH", "MONTH OPEN")

RaysOf(days) ==
  UNION {DailyRays(days, d) : d \in {e \in DOMAIN days : days[e].key >= Cutoff(days)}}
  \cup WeeklyRays(days) \cup MonthlyRays(days)

=============================================================================
