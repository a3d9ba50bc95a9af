---------------------------- MODULE BrokerClock -----------------------------
(***************************************************************************)
(* Three clocks and the way between them: the broker's wall clock on the    *)
(* wire, UTC, and New York's wall clock, by which trading days and sessions *)
(* are cut.  brokers.py resolves the first, zoneinfo gives the third, and   *)
(* VO_ReferenceLevelsMath.mqh does both for the chart.                     *)
(*                                                                         *)
(* Time is counted in bars.  A wall clock is a number too: the day is its   *)
(* quotient by DayLength, the time of day its remainder.                   *)
(***************************************************************************)
EXTENDS Integers, Sequences, FiniteSets, FiniteSetsExt

CONSTANTS
  None,
  DayLength, Shift,      \* a day, and the hour that daylight saving shifts, in bars
  Spring, Fall,          \* [calendar -> the instant of the change], of the one year
  NyBehind,              \* how far New York is behind UTC in winter
  BrokerStandard,        \* the broker's offset, standard_utc_offset_hours
  DayOpens,              \* trading_day_opens
  Windows,               \* sessions of sessions.yaml, in order: [name, start, end]
  Rth, Settles           \* rth and settlement

\* DstCalendar; UNKNOWN is a broker no probe has measured across a change.
Calendars == DOMAIN Spring \cup {"NONE", "UNKNOWN"}

ASSUME ClockAssumption ==
  /\ {DayLength, Shift} \subseteq Nat \ {0} /\ DayOpens \in 0 .. DayLength - 1
  /\ {NyBehind, BrokerStandard} \subseteq Int
  /\ "US" \in DOMAIN Spring /\ {"NONE", "UNKNOWN"} \cap DOMAIN Spring = {}
  /\ Spring \in [DOMAIN Spring -> Int] /\ Fall \in [DOMAIN Spring -> Int]
  /\ \A c \in DOMAIN Spring : Spring[c] + Shift < Fall[c]

\* Of two calendars one begins its summer before the other, and ends it well after.
ASSUME NestingAssumption ==
  \A c, d \in DOMAIN Spring :
    \/ c = d
    \/ Spring[c] <= Spring[d] /\ Fall[d] + 2 * Shift <= Fall[c]
    \/ Spring[d] <= Spring[c] /\ Fall[c] + 2 * Shift <= Fall[d]

NyStandard == -NyBehind

\* The first reading New York's clock skips, and the first it shows twice.
Skipped == Spring["US"] + NyStandard
Repeats == Fall["US"] + NyStandard

TimeOfDay(wall) == wall % DayLength
DateOf(wall) == wall \div DayLength

Saving(calendar, utc) ==
  calendar \in DOMAIN Spring /\ Spring[calendar] <= utc /\ utc < Fall[calendar]

\* The offset a clock of this calendar really has.
Offset(calendar, standard, utc) == IF Saving(calendar, utc) THEN standard + Shift ELSE standard

NyWall(utc) == utc + Offset("US", NyStandard, utc)

\* zoneinfo, of a New York reading: one that occurs twice is its first occurrence, one
\* that never occurs is read with the offset from before the change.
NyUtc(wall) ==
  LET summer == wall - NyStandard - Shift
  IN IF Saving("US", summer) THEN summer ELSE wall - NyStandard

\* What the broker writes on a bar.
BrokerWall(calendar, utc) == utc + Offset(calendar, BrokerStandard, utc)

-----------------------------------------------------------------------------
(* BrokerProfile: the calendar the broker is said to keep, and its offset in winter.        *)

\* What is made of the offset measured at an instant (_infer_standard_and_dst_hours).
ProfileMeasured(calendar, named, at) ==
  LET measured == Offset(calendar, BrokerStandard, at)
  IN [calendar |-> named, standard |-> IF Saving(named, at) THEN measured - Shift ELSE measured]

RightProfile(calendar) == [calendar |-> calendar, standard |-> BrokerStandard]

-----------------------------------------------------------------------------
(* resolve_broker_utc                                                      *)

\* A mutant: the repeated hour is looked for where the chart looks for it.
ResolveWithoutRepeat(profile, wall) ==
  LET calendar == profile.calendar
      standard == profile.standard
      saving == standard + Shift
      Summer == Spring[calendar] + saving <= wall /\ wall < Fall[calendar] + saving
  IN IF calendar \notin DOMAIN Spring THEN [utc |-> wall - standard, status |-> "VALID"]
     ELSE IF Spring[calendar] + standard <= wall /\ wall < Spring[calendar] + saving
     THEN [utc |-> wall - saving, status |-> "INVALID"]
     ELSE [utc |-> IF Summer THEN wall - saving ELSE wall - standard, status |-> "VALID"]

\* A reading and how much to trust it.
Resolve(profile, wall) ==
  LET calendar == profile.calendar
      standard == profile.standard
      saving == standard + Shift
      InGap == Spring[calendar] + standard <= wall /\ wall < Spring[calendar] + saving
      InRepeat == Fall[calendar] + standard <= wall /\ wall < Fall[calendar] + saving
      Summer == Spring[calendar] + saving <= wall /\ wall < Fall[calendar] + standard
  IN IF calendar \notin DOMAIN Spring
     THEN [utc |-> wall - standard, status |-> IF calendar = "NONE" THEN "VALID" ELSE "UNKNOWN"]
     ELSE IF InGap THEN [utc |-> wall - saving, status |-> "INVALID"]
     ELSE IF InRepeat THEN [utc |-> wall - saving, status |-> "AMBIGUOUS"]
     ELSE [utc |-> IF Summer THEN wall - saving ELSE wall - standard, status |-> "VALID"]

-----------------------------------------------------------------------------
(* VO_ResolveOffsetHours, VO_BrokerNaiveToUtc                              *)

\* A mutant: daylight saving ends where the repeated hour begins.
ChartOffsetUntilRepeat(calendar, wall) ==
  LET saving == BrokerStandard + Shift
  IN IF calendar \notin DOMAIN Spring THEN BrokerStandard
     ELSE IF Spring[calendar] + BrokerStandard <= wall /\ wall < Fall[calendar] + BrokerStandard
     THEN saving ELSE BrokerStandard

\* The repeat runs from Fall + saving to Fall + standard: no reading is in it, and the
\* hour itself still counts as summer.
ChartOffset(calendar, wall) ==
  LET saving == BrokerStandard + Shift
      InGap == Spring[calendar] + BrokerStandard <= wall /\ wall < Spring[calendar] + saving
      InRepeat == Fall[calendar] + saving <= wall /\ wall < Fall[calendar] + BrokerStandard
      Summer == Spring[calendar] + saving <= wall /\ wall < Fall[calendar] + saving
  IN IF calendar \notin DOMAIN Spring THEN BrokerStandard
     ELSE IF InGap \/ InRepeat \/ Summer THEN saving
     ELSE BrokerStandard

ChartNyWall(calendar, wall) == NyWall(wall - ChartOffset(calendar, wall))

-----------------------------------------------------------------------------
(* Trading days and sessions                                               *)

\* From its opening on, a trading day carries the next date.
TradingDay(wall) ==
  IF TimeOfDay(wall) >= DayOpens THEN DateOf(wall) + 1 ELSE DateOf(wall)

\* A window may run past midnight.
Covers(window, time) ==
  IF window.start <= window.end
  THEN window.start <= time /\ time < window.end
  ELSE time >= window.start \/ time < window.end

\* sessions.yaml: sessions have names, do not overlap, and none begins or ends within the
\* hour that is skipped or the hour that is repeated.
ASSUME WindowAssumption ==
  /\ DOMAIN Windows \subseteq Nat
  /\ \A i \in DOMAIN Windows :
       /\ {Windows[i].start, Windows[i].end} \subseteq 0 .. DayLength - 1
       /\ Windows[i] # None /\ Windows[i].name # None
       /\ \A wall \in (Skipped .. Skipped + Shift - 1) \cup (Repeats + 1 .. Repeats + Shift - 1) :
            TimeOfDay(wall) \notin {Windows[i].start, Windows[i].end}
       /\ \A j \in DOMAIN Windows \ {i} :
            /\ Windows[i].name # Windows[j].name
            /\ \A time \in 0 .. DayLength - 1 : ~(Covers(Windows[i], time) /\ Covers(Windows[j], time))

SessionAt(wall) ==
  LET open == {i \in DOMAIN Windows : Covers(Windows[i], TimeOfDay(wall))}
  IN IF open = {} THEN None ELSE Windows[Min(open)]

NameOf(window) == IF window = None THEN None ELSE window.name

\* A mutant: a window that began yesterday is taken to begin today.
StartDateToday(window, wall) == DateOf(wall)

StartDate(window, wall) ==
  IF window.start > window.end /\ TimeOfDay(wall) < window.start
  THEN DateOf(wall) - 1 ELSE DateOf(wall)

SessionBounds(window, wall) ==
  LET first == StartDate(window, wall)
      last == IF window.start > window.end THEN first + 1 ELSE first
  IN [from |-> NyUtc(first * DayLength + window.start), to |-> NyUtc(last * DayLength + window.end)]

\* TimeContext, where it is about sessions; a transition is reported on the dot.
Context(utc) ==
  LET wall == NyWall(utc)
      window == SessionAt(wall)
  IN [day |-> TradingDay(wall), session |-> NameOf(window),
      bounds |-> IF window = None THEN None ELSE SessionBounds(window, wall),
      previous |-> IF window = None THEN None ELSE NameOf(SessionAt(wall - 1)),
      transition |-> window # None /\ SessionBounds(window, wall).from = utc,
      rth |-> Covers(Rth, TimeOfDay(wall))]

\* The instant of a time of day that belongs to a trading day (levels.py).
InstantFor(day, time) ==
  LET candidate == NyUtc(day * DayLength + time)
  IN IF TradingDay(NyWall(candidate)) = day THEN candidate
     ELSE NyUtc((day + 1) * DayLength + time)

\* The same as a New York reading (VO_InstantForTradingDay).
ChartInstantFor(day, time) ==
  LET candidate == day * DayLength + time
  IN IF TradingDay(candidate) = day THEN candidate ELSE candidate + DayLength

=============================================================================
