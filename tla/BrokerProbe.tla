---------------------------- MODULE BrokerProbe -----------------------------
(***************************************************************************)
(* How a broker's clock gets into its profile.  VO_BrokerTimeProbe.mq5      *)
(* walks the terminal's history in chunks and writes down when each week    *)
(* opened, probe.py names the calendar that explains those times or         *)
(* declines to, and brokers.py splits the offset that was measured into     *)
(* the one of winter and the one of summer.                                *)
(*                                                                         *)
(* Time is counted in minutes of the broker's wall clock.  A year has 52    *)
(* weeks here; the clocks change at the weekend before a week.             *)
(***************************************************************************)
EXTENDS Integers, Sequences, SequencesExt, FiniteSets, FiniteSetsExt

CONSTANTS
  SpringWeek, FallWeek,  \* [calendar -> the first week of summer, of winter]
  OpensNy, WeekLength,   \* when a week opens after Sunday midnight in New York, how long it is
  NyBehind,              \* how far New York is behind UTC in winter
  Months,                \* InpMonthsBack
  MinOpens               \* the weekly opens a verdict takes: 30

Day == 1440
ShiftMinutes == 60
YearWeeks == 52

-----------------------------------------------------------------------------
(* The market and the broker's clock                                       *)

Saving(calendar, week) ==
  /\ calendar \in DOMAIN SpringWeek
  /\ SpringWeek[calendar] <= week % YearWeeks
  /\ week % YearWeeks < FallWeek[calendar]

ShiftOf(calendar, week) == IF Saving(calendar, week) THEN ShiftMinutes ELSE 0

\* The week's opening in New York, as the broker's clock shows it.
OpenWall(broker, week) ==
  week * 7 * Day + OpensNy + NyBehind + broker.standard
    + ShiftOf(broker.calendar, week) - ShiftOf("US", week)

\* The first bar may come a few minutes late.
FirstBar(broker, week) == OpenWall(broker, week) + ((week * 5) % 11)
LastBar(broker, week) == OpenWall(broker, week) + WeekLength

-----------------------------------------------------------------------------
(* VO_BrokerTimeProbe.mq5                                                  *)

ChunkLength == 30 * Day
GapLength == 12 * 60

\* A bar after a break of GapLength, reported with its day and minute of day.
WeeklyOpen(bar) == [day |-> bar \div Day, minute |-> bar % Day]

\* One chunk that CopyRates returned: the last bar seen, and the openings reported so far.
ReadChunk(broker, scan, from, to) ==
  LET around == [i \in 1 .. 8 |-> from \div (7 * Day) - 2 + i]
      weeks == SelectSeq(around, LAMBDA w : FirstBar(broker, w) < to /\ LastBar(broker, w) >= from)
      First(i) == Max({FirstBar(broker, weeks[i]), from})
      Before(i) == IF i = 1 THEN scan.last ELSE LastBar(broker, weeks[i - 1])
      reported == SelectSeq([i \in DOMAIN weeks |-> i],
                            LAMBDA i : Before(i) > 0 /\ First(i) - Before(i) >= GapLength)
  IN [last |-> Min({LastBar(broker, weeks[Len(weeks)]), to}),
      opens |-> scan.opens \o [i \in DOMAIN reported |-> WeeklyOpen(First(reported[i]))],
      failed |-> scan.failed]

\* OnStart, at a moment of the broker's clock, when CopyRates fails for some chunks.
OnStart(broker, now, failing) ==
  LET start == now - Months * 31 * Day
      chunks == (now - start - 1) \div ChunkLength
      scanned[k \in -1 .. chunks] ==
        IF k = -1 THEN [last |-> 0, opens |-> <<>>, failed |-> 0]
        ELSE IF k \in failing THEN [scanned[k - 1] EXCEPT !.failed = @ + 1]
        ELSE ReadChunk(broker, scanned[k - 1],
                       start + k * ChunkLength, Min({start + (k + 1) * ChunkLength, now}))
  IN scanned[chunks]

-----------------------------------------------------------------------------
(* probe.py                                                                *)

Jitter == 15
BoundaryTolerance == 10
MaxPlateauRuns == 6

UsBounds(year) == <<(year * YearWeeks + SpringWeek["US"]) * 7, (year * YearWeeks + FallWeek["US"]) * 7>>
EuBounds(year) == <<(year * YearWeeks + SpringWeek["EU"]) * 7, (year * YearWeeks + FallWeek["EU"]) * 7>>

\* The two stretches of a year in which the calendars disagree.
GapWindows(year) ==
  LET us == UsBounds(year)
      eu == EuBounds(year)
  IN {<<us[1], eu[1]>>, <<eu[2], us[2]>>}

Bucket(open) == open.minute \div Jitter

\* Counter.most_common: of the buckets with the most openings, the one seen first.
ModalBucket(opens) ==
  LET Count(b) == Cardinality({i \in DOMAIN opens : Bucket(opens[i]) = b})
      most == Max({Count(Bucket(opens[i])) : i \in DOMAIN opens})
  IN Bucket(opens[Min({i \in DOMAIN opens : Count(Bucket(opens[i])) = most})])

\* round: to the nearest, and half to even.
Rounded(sum, n) ==
  LET low == sum \div n
      rest == 2 * (sum % n)
  IN IF rest > n \/ (rest = n /\ low % 2 = 1) THEN low + 1 ELSE low

BaselineMinute(opens) ==
  LET modal == ModalBucket(opens)
      in == SelectSeq(opens, LAMBDA o : Bucket(o) = modal)
      Of(m) == Cardinality({i \in DOMAIN in : in[i].minute = m})
      sum == FoldSet(LAMBDA m, total : total + m * Of(m), 0, {in[i].minute : i \in DOMAIN in})
  IN Rounded(sum, Len(in))

\* The short way round the clock.
CircularDelta(a, b) ==
  LET delta == IF a < b THEN b - a ELSE a - b
  IN Min({delta, Day - delta})

IsShifted(open, baseline) == CircularDelta(open.minute, baseline) >= ShiftMinutes - Jitter

CountRuns(opens, baseline) ==
  Cardinality({i \in 2 .. Len(opens) :
                 IsShifted(opens[i], baseline) # IsShifted(opens[i - 1], baseline)})

Within(day, window) ==
  window[1] - BoundaryTolerance <= day /\ day <= window[2] + BoundaryTolerance

Unknown == [calendar |-> "UNKNOWN", confidence |-> "UNKNOWN"]

\* A mutant: as many openings as a verdict takes count as a year.
CoversEnough(opens) == Len(opens) >= MinOpens

CoversAYear(opens) == Len(opens) > 0 /\ opens[Len(opens)].day - opens[1].day >= 330

\* A failed chunk is evidence in the verdict's text, and decides nothing.
Classify(scan) ==
  LET opens == scan.opens
      baseline == BaselineMinute(opens)
      shifted == SelectSeq(opens, LAMBDA o : IsShifted(o, baseline))
      years == {shifted[i].day \div (YearWeeks * 7) : i \in DOMAIN shifted}
      gaps == UNION {GapWindows(y) : y \in years}
      InGaps == \A i \in DOMAIN shifted : \E w \in gaps : Within(shifted[i].day, w)
      Plateau ==
        /\ 10 * Len(shifted) >= 3 * Len(opens)
        /\ 10 * Len(shifted) <= 7 * Len(opens)
        /\ CountRuns(opens, baseline) <= MaxPlateauRuns
  IN IF Len(opens) < MinOpens THEN Unknown
     ELSE IF shifted = <<>>
     THEN [calendar |-> "US", confidence |-> IF CoversAYear(opens) THEN "OBSERVED" ELSE "PROVISIONAL"]
     ELSE IF InGaps THEN [calendar |-> "EU", confidence |-> "OBSERVED"]
     ELSE IF Plateau THEN [calendar |-> "NONE", confidence |-> "OBSERVED"]
     ELSE Unknown

-----------------------------------------------------------------------------
(* brokers.py                                                              *)

\* TimeCurrent less TimeGMT, while the market trades.
MeasuredOffset(broker, week) == broker.standard + ShiftOf(broker.calendar, week)

\* A mutant: what was measured is taken to be the offset of winter.
InferFromWinter(measured, calendar, week) ==
  IF calendar \in {"NONE", "UNKNOWN"} THEN [standard |-> measured, dst |-> measured]
  ELSE [standard |-> measured, dst |-> measured + ShiftMinutes]

\* The offsets of winter and summer, of an offset taken to be measured in a certain week.
InferStandardAndDst(measured, calendar, week) ==
  IF calendar \in {"NONE", "UNKNOWN"} THEN [standard |-> measured, dst |-> measured]
  ELSE IF Saving(calendar, week) THEN [standard |-> measured - ShiftMinutes, dst |-> measured]
  ELSE [standard |-> measured, dst |-> measured + ShiftMinutes]

\* What the loader makes of the file that seed_broker_profile.py wrote.
ProfileOf(broker, scan, week) ==
  LET verdict == Classify(scan)
  IN verdict @@ InferStandardAndDst(MeasuredOffset(broker, week), verdict.calendar, week)

-----------------------------------------------------------------------------
(* Properties                                                              *)

\* The probe run at the end of a week, in a terminal whose history lacks its first chunks.
Probed(broker, week, missing) == OnStart(broker, LastBar(broker, week), 0 .. missing - 1)

\* Of a history without holes: a broker that keeps New York's or Europe's calendar is never
\* OBSERVED to keep another, however far the history goes back, and is recognised once a year
\* is covered, whenever the probe runs.  A fixed offset is then not taken for another calendar.
\* Of less than a year a verdict may be wrong, and is then PROVISIONAL and New York's
\* (probe.py:353).
ProbeNamesTheBroker(brokers, weeks, missing) ==
  \A broker \in brokers, week \in weeks, m \in missing :
    LET scan == Probed(broker, week, m)
        verdict == Classify(scan)
        year == CoversAYear(scan.opens)
    IN /\ IF broker.calendar = "NONE"
          THEN year => verdict.calendar \in {"NONE", "UNKNOWN"}
          ELSE /\ verdict.confidence = "OBSERVED" => verdict.calendar = broker.calendar
               /\ year => verdict.confidence = "OBSERVED"
       /\ verdict.confidence = "PROVISIONAL" => verdict.calendar = "US"

\* A profile seeded in the week of its measurement has the broker's own offsets, in the
\* summer of the broker's calendar and in its winter (brokers.py:99).
OffsetsAreRecovered(brokers, weeks) ==
  \A broker \in brokers, week \in weeks :
    LET profile == ProfileOf(broker, Probed(broker, week, 0), week)
    IN profile.calendar = broker.calendar =>
         /\ profile.standard = broker.standard
         /\ broker.calendar # "NONE" => profile.dst = broker.standard + ShiftMinutes

=============================================================================
