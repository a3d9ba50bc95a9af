-------------------------- MODULE ReferenceLevels ---------------------------
(***************************************************************************)
(* One stream of M1 bars on two paths.  The bridge writes every closed bar  *)
(* with the broker's wall clock; Python resolves the clock, keeps the bar   *)
(* if it is later than the last (BarSequence) and aggregates it.  The       *)
(* indicator reads the terminal's own history once per new bar and draws    *)
(* the levels of TradingLevels with its own copy of the clock.              *)
(*                                                                         *)
(* A bar is named by the instant it opens at.                              *)
(***************************************************************************)
EXTENDS TradingLevels

CONSTANTS
  Prices,               \* [instant -> open, high, low, close] of its bar
  Brokers,              \* [calendar, named, measured]: what a broker keeps, what it is said
                        \* to keep, and the instant its offset was measured at
  Closures,             \* the sets of instants at which the market may be shut
  Targets,              \* the lengths the bars are aggregated into
  AwayDuring,           \* the bars that may pass without a look at the chart
  ScanBars              \* InpMaxM1BarsToScan

VARIABLES
  calendar, profile,    \* the clock of the broker, and brokers.yaml's word for it
  closed,               \* when the market is shut
  now,                  \* the forming bar
  sequence, quarantined, \* the bars Python holds, and those it could not append
  partial, higher,      \* the aggregators: the open bucket, and the bars completed
  objects,              \* the levels on the chart
  seen, cleaned         \* g_last_seen_m1_open, g_last_cleanup_trading_day

stream == <<calendar, profile, closed, now>>
python == <<sequence, quarantined, partial, higher>>
chart == <<objects, seen, cleaned>>
vars == <<stream, python, chart>>

Instants == DOMAIN Prices
Ohlcs == [open : Int, high : Int, low : Int, close : Int]

ASSUME StreamAssumption ==
  /\ Cardinality(Instants) \in Nat \ {0} /\ Instants = 0 .. Cardinality(Instants) - 1
  /\ Brokers \subseteq [calendar : Calendars \ {"UNKNOWN"}, named : Calendars, measured : Int]
  /\ \A c \in Closures : c \subseteq Instants \ {0}
  /\ AwayDuring \subseteq Instants
  /\ ScanBars \in Nat \ {0}
  /\ \A i \in Instants : Prices[i] \in Ohlcs

\* SUPPORTED_TARGETS: no bucket begins within the hour that is skipped, and one that is not
\* shorter than it holds the whole hour that is repeated.
ASSUME TargetAssumption ==
  \A t \in Targets :
    /\ t \in Nat \ {0}
    /\ BucketOpens(t, Skipped + Shift) \notin Skipped + 1 .. Skipped + Shift - 1
    /\ t >= Shift => BucketOpens(t, Repeats) = BucketOpens(t, Repeats + Shift - 1)

\* None is no bucket.
ASSUME BucketAssumption ==
  None \notin [start : Int, quality : {"VALID", "SUSPECT"}, ohlc : Ohlcs, last : Int]

Init ==
  /\ \E b \in Brokers :
       calendar = b.calendar /\ profile = ProfileMeasured(b.calendar, b.named, b.measured)
  /\ closed \in Closures
  /\ now = 0
  /\ sequence = <<>> /\ quarantined = {}
  /\ partial = [t \in Targets |-> None] /\ higher = [t \in Targets |-> <<>>]
  /\ objects = {} /\ seen = None /\ cleaned = None

-----------------------------------------------------------------------------
(* A bar closes                                                            *)

Quality(status) == IF status = "VALID" THEN "VALID" ELSE "SUSPECT"

\* resolve_record of the bar that opened at an instant.
Resolved(i) ==
  LET resolution == Resolve(profile, BrokerWall(calendar, i))
  IN [of |-> i, utc |-> resolution.utc, quality |-> Quality(resolution.status),
      open |-> Prices[i].open, high |-> Prices[i].high, low |-> Prices[i].low,
      close |-> Prices[i].close]

\* _validate_next
Follows(bar) == sequence = <<>> \/ bar.utc > sequence[Len(sequence)].utc

Append1(bar) ==
  /\ sequence' = Append(sequence, bar)
  /\ partial' = [t \in Targets |-> Push(partial[t], t, bar)]
  /\ higher' = [t \in Targets |-> higher[t] \o Completed(partial[t], t, bar)]
  /\ UNCHANGED quarantined

\* The next bar opens at the first instant of an open market; the one that closes is written.
BarCloses ==
  LET later == {i \in Instants : i > now} \ closed
      bar == Resolved(now)
  IN /\ later # {}
     /\ seen = now \/ now \in AwayDuring
     /\ now' = Min(later)
     /\ IF Follows(bar) THEN Append1(bar)
        ELSE quarantined' = quarantined \cup {now} /\ UNCHANGED <<sequence, partial, higher>>
     /\ UNCHANGED <<calendar, profile, closed, chart>>

-----------------------------------------------------------------------------
(* The chart                                                               *)

\* A tick into the bar, or at its end.
Forming == {Prices[now], [o \in {"open", "high", "low", "close"} |-> Prices[now].open]}

ChartBar(i, price) ==
  LET wall == BrokerWall(calendar, i)
  IN [time |-> wall, ny |-> ChartNyWall(calendar, wall)] @@ price

\* The last bars of the history; the forming one shows what it has come to.
Scanned(forming) ==
  LET past == SelectSeq([n \in 1 .. now |-> n - 1], LAMBDA i : i \notin closed)
      kept == SubSeq(past, Max({1, Len(past) - ScanBars + 2}), Len(past))
  IN Append([n \in DOMAIN kept |-> ChartBar(kept[n], Prices[kept[n]])], ChartBar(now, forming))

Named(rays) == {r.name : r \in rays}

\* A mutant: a level that moves leaves its old ray behind.
DrawnBeside(rays) == rays \cup objects

\* VO_DrawLevel creates an object or moves it.
Drawn(rays) == rays \cup {o \in objects : o.name \notin Named(rays)}

\* A mutant: the sweep is forgotten.
KeptForEver(drawn, cutoff) == drawn

\* VO_DeleteExpiredObjects
Unexpired(drawn, cutoff) == {o \in drawn : o.name[2] >= cutoff}

\* OnCalculate, at the first chance after a bar opened.
Scan ==
  /\ seen # now
  /\ seen' = now
  /\ \E forming \in Forming :
       LET bars == Scanned(forming)
           days == ScannedDays(bars)
           today == days[Len(days)].key
           drawn == Drawn(RaysOf(days))
       IN IF Len(bars) <= 1 THEN UNCHANGED <<objects, cleaned>>
          ELSE /\ objects' = IF today # cleaned THEN Unexpired(drawn, Cutoff(days)) ELSE drawn
               /\ cleaned' = today
  /\ UNCHANGED <<stream, python>>

\* OnDeinit and OnInit: a removed indicator takes its objects with it, a reload or a
\* terminal that is closed leaves them.
Reload ==
  /\ seen # None
  /\ \/ objects' = {}
     \/ UNCHANGED objects
  /\ seen' = None /\ cleaned' = None
  /\ UNCHANGED <<stream, python>>

Next == BarCloses \/ Scan \/ Reload

Spec == Init /\ [][Next]_vars

-----------------------------------------------------------------------------
(* Properties                                                              *)

Delivered == {i \in Instants : i < now} \ closed

\* The hour a clock shows for the second time, and whether the market trades in it.
SecondPass(c) == IF c \in DOMAIN Fall THEN Fall[c] .. Fall[c] + Shift - 1 ELSE {}

TypeOK ==
  /\ calendar \in Calendars /\ profile \in [calendar : Calendars, standard : Int] /\ closed \in Closures
  /\ now \in Instants /\ quarantined \subseteq Instants
  /\ \A n \in DOMAIN sequence : sequence[n].quality \in {"VALID", "SUSPECT"}
  /\ DOMAIN partial = Targets /\ DOMAIN higher = Targets
  /\ seen \in Instants \cup {None}
  /\ Cardinality(Named(objects)) = Cardinality(objects)

\* What a wrong profile says the broker's clock never showed.
SaidSkipped ==
  {i \in Instants : /\ profile.calendar # calendar
                   /\ Resolve(profile, BrokerWall(calendar, i)).status = "INVALID"}

\* The sequence is the market's own time line.  A bar that counts as VALID stands at the
\* instant it traded if the profile names the broker's calendar, and no further than an hour
\* from it whatever the profile says (the probe names calendars it has no evidence for, and a
\* profile serves whatever its confidence).  No bar is missing but one the broker's clock had
\* shown before, or one a wrong profile says it cannot have shown.
TimelineIsTrue ==
  /\ \A n \in DOMAIN sequence :
       /\ sequence[n].quality = "VALID" =>
            sequence[n].utc - sequence[n].of
              \in IF profile.calendar = calendar THEN {0} ELSE {-Shift, 0, Shift}
       /\ n > 1 => sequence[n - 1].utc < sequence[n].utc
  /\ quarantined \subseteq SecondPass(calendar) \cup SaidSkipped
  /\ Delivered = quarantined \cup {sequence[n].of : n \in DOMAIN sequence}

\* What the probe declines to name for: no label is wrong without saying so ("A timezone rule
\* guessed wrong is an hour of silent error in every session label downstream, so declining
\* to answer is the correct answer", probe.py:29).  A profile that is PROVISIONAL and wrong
\* refutes it: nothing reads the confidence.
NoSilentError ==
  \A n \in DOMAIN sequence : sequence[n].quality = "VALID" => sequence[n].utc = sequence[n].of

\* The two copies of the clock agree on every bar, whatever the chart is told of the
\* broker, once Python is told the same.
ClocksAgree ==
  profile.calendar = calendar =>
    \A i \in Delivered :
      LET wall == BrokerWall(calendar, i)
      IN wall - ChartOffset(calendar, wall) = Resolve(profile, wall).utc

\* What the clock says of a session is what the stream shows.  Every bar lies within the
\* bounds its context gives the session; and where the stream has no hole, a bar reports
\* a transition exactly if boundary_pairs sees one into its session, and from the same one.
SessionsFitTheStream ==
  LET context == [n \in DOMAIN sequence |-> Context(sequence[n].utc)]
      changes == BoundaryPairs(sequence)
  IN \A n \in DOMAIN sequence :
    /\ context[n].session # None =>
         context[n].bounds.from <= sequence[n].utc /\ sequence[n].utc < context[n].bounds.to
    /\ (n > 1 /\ sequence[n].utc = sequence[n - 1].utc + 1) =>
         /\ context[n].transition <=> (n \in changes /\ context[n].session # None)
         /\ context[n].transition => context[n].previous = context[n - 1].session

TradedTwice == \E n \in DOMAIN sequence : sequence[n].utc \in SecondPass("US")

Starts(t) == {BucketStart(t, sequence[n].utc) : n \in DOMAIN sequence}

\* It has the bars Python holds of a bucket: their first, their last, their extremes and
\* their worst quality.
StandsFor(bar, t) ==
  LET of == {n \in DOMAIN sequence : BucketStart(t, sequence[n].utc) = bar.start}
  IN /\ bar.ohlc = [open |-> sequence[Min(of)].open, high |-> Max({sequence[n].high : n \in of}),
                    low |-> Min({sequence[n].low : n \in of}), close |-> sequence[Max(of)].close]
     /\ bar.quality = WorstOf({sequence[n].quality : n \in of})

\* Every bucket Python holds bars of, but the last, has a longer bar that stands for all of
\* them, and after the one of the bucket before.  The one exception is New York's repeated
\* hour, for lengths that fit into it.
LongerBarsAreTheirBuckets ==
  \A t \in Targets :
    LET bars == higher[t]
    IN \/ (t < Shift /\ TradedTwice)
       \/ /\ \A n \in DOMAIN bars : n > 1 => bars[n - 1].start < bars[n].start
          /\ \A n \in DOMAIN bars : StandsFor(bars[n], t)
          /\ sequence # <<>> =>
               {bars[n].start : n \in DOMAIN bars}
               = {s \in Starts(t) : s < BucketStart(t, sequence[Len(sequence)].utc)}

\* The levels of every finished day still kept, and of every finished week and month,
\* are on the chart as the engine measures them over its own bars.
Levels(kind, date) == {o.level : o \in {p \in objects : p.name = <<kind, date>>}}
AsSet(level) == IF level = None THEN {} ELSE {level}
OhlcOf(period) == IF period = None THEN {} ELSE {period.ohlc}

ChartShowsEngineLevels ==
  (seen = now /\ quarantined = {} /\ profile.calendar = calendar /\ Len(sequence) > 0) =>
    LET today == TradingDay(NyWall(now))
        days == {d \in DaysOf(sequence) : d >= today - LookbackDays /\ d < today}
    IN /\ \A d \in days :
            /\ Levels("PREVIOUS DAY", d) = OhlcOf(PreviousDay(sequence, d))
            /\ Levels("DAY OPEN", d) = {PeriodOpen(sequence, d, 1)}
            /\ Levels("RTH OPEN", d) = AsSet(RthOpen(sequence, d))
            /\ Levels("SETTLEMENT", d) = AsSet(Settlement(sequence, d))
            /\ Levels("ORG", d) = AsSet(OpeningGap(sequence, d))
       /\ \A d \in days \cup {today} :
            LET week == PreviousWeek(sequence, d)
                month == PreviousMonth(sequence, d)
            IN /\ week = None \/ WeekOf(week.from) < today - LookbackDays
                  \/ Levels("PREVIOUS WEEK", WeekOf(week.from)) = {week.ohlc}
               /\ month = None \/ MonthOf(month.from) < today - LookbackDays
                  \/ Levels("PREVIOUS MONTH", MonthOf(month.from)) = {month.ohlc}

\* After a scan the chart keeps no level from before the lookback, however long the
\* terminal was away.
NothingExpired ==
  (seen = now /\ cleaned # None) =>
    \A o \in objects : o.name[2] >= TradingDay(NyWall(now)) - LookbackDays

\* The chart has the levels the engine measures, all of them, and none it should have dropped.
LevelsAreCurrent == TypeOK /\ ChartShowsEngineLevels /\ NothingExpired

=============================================================================
