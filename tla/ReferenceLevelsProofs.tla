------------------------ MODULE ReferenceLevelsProofs ------------------------
(***************************************************************************)
(* Theorems about the stream of M1 bars and what Python makes of it, for   *)
(* any broker, any daylight saving of one year, any list of sessions, any  *)
(* lengths of bars, any history and any time the market is shut.           *)
(*                                                                         *)
(* A clock that goes back shows an hour twice.  The broker's readings are  *)
(* resolved in order of time but for the second pass of that hour, and the  *)
(* hour a wrong profile skips (ClockGoesOn).  Its summer and the profile's *)
(* lie one within the other, so it is never two hours off (ResolvedIsNear). *)
(* New York's readings are not in order, but no bucket opens at one that is *)
(* skipped, and a bucket that is not shorter than the repeated hour holds   *)
(* all of it: so buckets follow one another (StartsInOrder).  Sessions begin *)
(* and end at readings that are shown once, or for the first time, and      *)
(* these tell the instants before from those after (PlainFits).             *)
(***************************************************************************)
EXTENDS ReferenceLevels, SequenceTheorems, WellFoundedInduction, TLAPS

-----------------------------------------------------------------------------
(* The clocks                                                              *)

LEMMA ClockTypes ==
  /\ DayLength \in Nat \ {0} /\ Shift \in Nat \ {0} /\ DayOpens \in 0 .. DayLength - 1
  /\ NyBehind \in Int /\ BrokerStandard \in Int
  /\ "US" \in DOMAIN Spring /\ "NONE" \notin DOMAIN Spring /\ "UNKNOWN" \notin DOMAIN Spring
  /\ DOMAIN Fall = DOMAIN Spring
  /\ \A c \in DOMAIN Spring : Spring[c] \in Int /\ Fall[c] \in Int /\ Spring[c] + Shift < Fall[c]
BY ClockAssumption

\* The clock of a broker, read by a profile of it that was measured at some instant.
ClockOf(c, p) ==
  /\ c \in Calendars \ {"UNKNOWN"}
  /\ \E d \in Calendars, m \in Int : p = ProfileMeasured(c, d, m)

LEMMA ProfileOfClock ==
  ASSUME NEW c, NEW p, ClockOf(c, p)
  PROVE  /\ c \in Calendars \ {"UNKNOWN"} /\ p.calendar \in Calendars /\ p.standard \in Int
         /\ \E m \in Int : p.standard = IF Saving(p.calendar, m)
                                       THEN Offset(c, BrokerStandard, m) - Shift
                                       ELSE Offset(c, BrokerStandard, m)
         /\ p.calendar = c => p.standard = BrokerStandard
<1>1. PICK d \in Calendars, m \in Int : p = ProfileMeasured(c, d, m)
  BY DEF ClockOf
<1>2. /\ p.calendar = d
      /\ p.standard = IF Saving(d, m) THEN Offset(c, BrokerStandard, m) - Shift
                      ELSE Offset(c, BrokerStandard, m)
  BY <1>1 DEF ProfileMeasured
<1>3. Offset(c, BrokerStandard, m) \in Int
  BY ClockTypes DEF Offset
<1>4. Offset(c, BrokerStandard, m) = IF Saving(c, m) THEN BrokerStandard + Shift ELSE BrokerStandard
  BY DEF Offset
<1>5. p.standard \in Int
  BY <1>2, <1>3, ClockTypes
<1>6. d = c => p.standard = BrokerStandard
  BY <1>2, <1>4, ClockTypes
<1> QED BY <1>1, <1>2, <1>5, <1>6 DEF ClockOf

LEMMA ResolvedToAnInstant ==
  ASSUME NEW c, NEW p, ClockOf(c, p), NEW i \in Int
  PROVE  Resolve(p, BrokerWall(c, i)).utc \in Int
<1>1. p.standard \in Int /\ BrokerWall(c, i) \in Int
  BY ProfileOfClock, ClockTypes DEF BrokerWall, Offset
<1> QED BY <1>1, ClockTypes DEF Resolve

\* A reading that is not in doubt is resolved to the instant it was taken at, if the profile
\* names the calendar of the broker.
LEMMA ResolvedIsRight ==
  ASSUME NEW c, NEW p, ClockOf(c, p), p.calendar = c, NEW i \in Int
  PROVE  /\ Resolve(p, BrokerWall(c, i)).status = "VALID" => Resolve(p, BrokerWall(c, i)).utc = i
         /\ Resolve(p, BrokerWall(c, i)).status # "INVALID"
<1>1. p.standard = BrokerStandard
  BY ProfileOfClock
<1>2. CASE c \in DOMAIN Spring
  BY <1>1, <1>2, ClockTypes DEF Resolve, BrokerWall, Offset, Saving
<1>3. CASE c \notin DOMAIN Spring
  BY <1>1, <1>3, ClockTypes DEF Resolve, BrokerWall, Offset, Saving
<1> QED BY <1>2, <1>3

\* If it does not, it is resolved to that instant or to one an hour away.
LEMMA ResolvedIsNear ==
  ASSUME NEW c, NEW p, ClockOf(c, p), NEW i \in Int, Resolve(p, BrokerWall(c, i)).status = "VALID"
  PROVE  Resolve(p, BrokerWall(c, i)).utc - i \in {-Shift, 0, Shift}
<1> DEFINE v == p.calendar
           u == Resolve(p, BrokerWall(c, i)).utc
<1>1. v \in Calendars /\ p.standard \in Int /\ u \in Int
  BY ProfileOfClock, ResolvedToAnInstant
<1>2. PICK m \in Int : p.standard = IF Saving(v, m) THEN Offset(c, BrokerStandard, m) - Shift
                                    ELSE Offset(c, BrokerStandard, m)
  BY ProfileOfClock
<1>3. CASE v \notin DOMAIN Spring
  <2>1. u = BrokerWall(c, i) - p.standard /\ ~Saving(v, m)
    BY <1>3 DEF Resolve, Saving
  <2> QED BY <1>2, <2>1, ClockTypes DEF BrokerWall, Offset
<1>4. CASE v \in DOMAIN Spring /\ c \notin DOMAIN Spring
  <2>1. BrokerWall(c, i) = i + BrokerStandard /\ Offset(c, BrokerStandard, m) = BrokerStandard
    BY <1>4 DEF BrokerWall, Offset, Saving
  <2>2. u = BrokerWall(c, i) - p.standard \/ u = BrokerWall(c, i) - (p.standard + Shift)
    BY <1>4 DEF Resolve
  <2> QED BY <1>1, <1>2, <2>1, <2>2, ClockTypes
<1>5. CASE v \in DOMAIN Spring /\ c \in DOMAIN Spring
  <2>1. \/ c = v
        \/ Spring[c] <= Spring[v] /\ Fall[v] + 2 * Shift <= Fall[c]
        \/ Spring[v] <= Spring[c] /\ Fall[c] + 2 * Shift <= Fall[v]
    BY <1>5, NestingAssumption
  <2>2. /\ Spring[v] \in Int /\ Fall[v] \in Int /\ Spring[v] + Shift < Fall[v]
        /\ Spring[c] \in Int /\ Fall[c] \in Int /\ Spring[c] + Shift < Fall[c]
        /\ Shift \in Nat \ {0} /\ BrokerStandard \in Int
    BY <1>5, ClockTypes
  <2>3. /\ Saving(v, u) => u = BrokerWall(c, i) - (p.standard + Shift)
        /\ ~Saving(v, u) => u = BrokerWall(c, i) - p.standard
    <3>1. BrokerWall(c, i) \in Int
      BY <2>2 DEF BrokerWall, Offset
    <3> QED BY <1>1, <1>5, <2>2, <3>1 DEF Resolve, Saving
  <2> HIDE DEF u
  <2> DEFINE ci == IF Spring[c] <= i /\ i < Fall[c] THEN Shift ELSE 0
             cm == IF Spring[c] <= m /\ m < Fall[c] THEN Shift ELSE 0
             vm == IF Spring[v] <= m /\ m < Fall[v] THEN Shift ELSE 0
             vu == IF Spring[v] <= u /\ u < Fall[v] THEN Shift ELSE 0
  <2>4. BrokerWall(c, i) = i + BrokerStandard + ci
    BY <1>5, <2>2 DEF BrokerWall, Offset, Saving
  <2>5. p.standard = BrokerStandard + cm - vm
    BY <1>2, <1>5, <2>2 DEF Offset, Saving
  <2>6. u = BrokerWall(c, i) - (p.standard + vu)
    BY <1>1, <1>5, <2>2, <2>3, <2>4 DEF Saving
  <2>7. u - i = ci - cm + vm - vu
    <3>1. ci \in Int /\ cm \in Int /\ vm \in Int /\ vu \in Int
      BY <2>2
    <3> HIDE DEF ci, cm, vm, vu
    <3> QED BY <1>1, <2>2, <2>4, <2>5, <2>6, <3>1
  <2>8. PICK s \in Int, f \in Int, t \in Int, g \in Int :
          s = Spring[c] /\ f = Fall[c] /\ t = Spring[v] /\ g = Fall[v]
    BY <2>2
  <2>9. u - i = (IF s <= i /\ i < f THEN Shift ELSE 0) - (IF s <= m /\ m < f THEN Shift ELSE 0)
                + (IF t <= m /\ m < g THEN Shift ELSE 0) - (IF t <= u /\ u < g THEN Shift ELSE 0)
    BY <2>7, <2>8
  <2>10. (s = t /\ f = g) \/ (s <= t /\ g + 2 * Shift <= f) \/ (t <= s /\ f + 2 * Shift <= g)
    BY <2>1, <2>8
  <2> HIDE DEF u
  <2>11. u - i \in {-Shift, 0, Shift}
    <3>1. CASE s <= m /\ m < f
      BY <1>1, <2>2, <2>9, <2>10, <3>1
    <3>2. CASE ~(s <= m /\ m < f)
      BY <1>1, <2>2, <2>9, <2>10, <3>2
    <3> QED BY <3>1, <3>2
  <2> QED BY <2>11 DEF u
<1> QED BY <1>1, <1>3, <1>4, <1>5

\* Later bars are resolved to later instants, but for those of an hour the broker's clock
\* had shown before, and those the profile says it never showed.
LEMMA ClockGoesOn ==
  ASSUME NEW c, NEW p, ClockOf(c, p), NEW i \in Int, NEW j \in Int,
         j < i, i \notin SecondPass(c), Resolve(p, BrokerWall(c, i)).status # "INVALID"
  PROVE  Resolve(p, BrokerWall(c, j)).utc < Resolve(p, BrokerWall(c, i)).utc
<1>1. p.calendar \in Calendars /\ p.standard \in Int
  BY ProfileOfClock
<1>2. /\ BrokerWall(c, j) \in Int /\ BrokerWall(c, i) \in Int
      /\ BrokerWall(c, j) < BrokerWall(c, i)
  <2>1. CASE c \in DOMAIN Spring
    BY <2>1, ClockTypes DEF BrokerWall, Offset, Saving, SecondPass
  <2>2. CASE c \notin DOMAIN Spring
    BY <2>2, ClockTypes DEF BrokerWall, Offset, Saving
  <2> QED BY <2>1, <2>2
<1>3. CASE p.calendar \in DOMAIN Spring
  BY <1>1, <1>2, <1>3, ClockTypes DEF Resolve
<1>4. CASE p.calendar \notin DOMAIN Spring
  BY <1>1, <1>2, <1>4, ClockTypes DEF Resolve
<1> QED BY <1>3, <1>4

LEMMA BothClocks ==
  ASSUME NEW p, p.standard = BrokerStandard, NEW wall \in Int
  PROVE  wall - ChartOffset(p.calendar, wall) = Resolve(p, wall).utc
<1>1. CASE p.calendar \in DOMAIN Spring
  BY <1>1, ClockTypes DEF ChartOffset, Resolve
<1>2. CASE p.calendar \notin DOMAIN Spring
  BY <1>2, ClockTypes DEF ChartOffset, Resolve
<1> QED BY <1>1, <1>2

-----------------------------------------------------------------------------
(* The sequence                                                            *)

M1Bars ==
  [of : Instants, utc : Int, quality : {"VALID", "SUSPECT"},
   open : Int, high : Int, low : Int, close : Int]

Kept == {sequence[n].of : n \in DOMAIN sequence}

\* Every bar Python holds is one the market delivered, as it was resolved, and later ones
\* come later.
TimelineInv ==
  /\ ClockOf(calendar, profile)
  /\ closed \subseteq Instants \ {0} /\ now \in Instants \ closed
  /\ sequence \in Seq(M1Bars)
  /\ \A n \in DOMAIN sequence : sequence[n] = Resolved(sequence[n].of)
  /\ \A n, m \in DOMAIN sequence : n < m => sequence[n].utc < sequence[m].utc
  /\ quarantined \subseteq SecondPass(calendar) \cup SaidSkipped
  /\ Delivered = quarantined \cup Kept

LEMMA StreamTypes ==
  /\ Instants \subseteq Nat
  /\ 0 \in Instants
  /\ \A b \in Brokers : ClockOf(b.calendar, ProfileMeasured(b.calendar, b.named, b.measured))
  /\ \A c \in Closures : c \subseteq Instants \ {0}
  /\ \A i \in Instants : Prices[i] \in Ohlcs
<1>1. Instants = 0 .. Cardinality(Instants) - 1 /\ Cardinality(Instants) \in Nat \ {0}
  BY StreamAssumption
<1> HIDE DEF Instants
<1>2. Instants \subseteq Nat /\ 0 \in Instants
  BY <1>1
<1>3. \A b \in Brokers : b.calendar \in Calendars \ {"UNKNOWN"} /\ b.named \in Calendars /\ b.measured \in Int
  BY StreamAssumption
<1>4. \A b \in Brokers : ClockOf(b.calendar, ProfileMeasured(b.calendar, b.named, b.measured))
  BY <1>3 DEF ClockOf
<1> QED BY <1>2, <1>4, StreamAssumption DEF Instants

LEMMA LeastOf ==
  ASSUME NEW S, S \subseteq Nat, S # {}
  PROVE  \E n \in S : \A m \in S : n <= m
<1>1. PICK n \in S : \A m \in S : ~ (<<m, n>> \in OpToRel(<, Nat))
  <2>1. IsWellFoundedOn(OpToRel(<, Nat), Nat)
    BY NatLessThanWellFounded
  <2> QED BY <2>1, WFMin
<1>2. ASSUME NEW m \in S PROVE n <= m
  <2>1. m \in Nat /\ n \in Nat /\ ~(m < n)
    BY <1>1 DEF OpToRel
  <2> QED BY <2>1
<1> QED BY <1>2

LEMMA MinIsLeast ==
  ASSUME NEW S, S \subseteq Nat, S # {}
  PROVE  Min(S) \in S /\ \A m \in S : Min(S) <= m
BY LeastOf DEF Min

LEMMA ResolvedIsABar ==
  ASSUME TimelineInv, NEW i \in Instants
  PROVE  /\ Resolved(i) \in M1Bars /\ Resolved(i).of = i
         /\ Resolved(i).utc = Resolve(profile, BrokerWall(calendar, i)).utc
         /\ Resolved(i).quality = "VALID" =>
              Resolved(i).utc - i \in IF profile.calendar = calendar THEN {0} ELSE {-Shift, 0, Shift}
<1> DEFINE resolution == Resolve(profile, BrokerWall(calendar, i))
<1>1. i \in Int /\ ClockOf(calendar, profile)
  BY StreamTypes DEF TimelineInv
<1>2. /\ resolution.utc \in Int
      /\ resolution.status = "VALID" =>
           resolution.utc - i \in IF profile.calendar = calendar THEN {0} ELSE {-Shift, 0, Shift}
  <2>1. resolution.utc \in Int
    BY <1>1, ResolvedToAnInstant
  <2>2. resolution.status = "VALID" /\ profile.calendar = calendar => resolution.utc - i = 0
    BY <1>1, ResolvedIsRight
  <2>3. resolution.status = "VALID" => resolution.utc - i \in {-Shift, 0, Shift}
    BY <1>1, ResolvedIsNear
  <2> QED BY <2>1, <2>2, <2>3
<1> HIDE DEF resolution
<1>3. Quality(resolution.status) \in {"VALID", "SUSPECT"}
      /\ (Quality(resolution.status) = "VALID" => resolution.status = "VALID")
  BY DEF Quality
<1>4. /\ Prices[i].open \in Int /\ Prices[i].high \in Int
      /\ Prices[i].low \in Int /\ Prices[i].close \in Int
  BY StreamTypes DEF Ohlcs
<1>5. Resolved(i) = [of |-> i, utc |-> resolution.utc, quality |-> Quality(resolution.status),
                     open |-> Prices[i].open, high |-> Prices[i].high, low |-> Prices[i].low,
                     close |-> Prices[i].close]
  BY DEF Resolved, resolution
<1>6. resolution.utc = Resolve(profile, BrokerWall(calendar, i)).utc
  BY DEF resolution
<1> QED BY <1>2, <1>3, <1>4, <1>5, <1>6 DEF M1Bars

LEMMA InitInTime == Init => TimelineInv
<1> SUFFICES ASSUME Init PROVE TimelineInv
  OBVIOUS
<1>1. PICK b \in Brokers : calendar = b.calendar /\ profile = ProfileMeasured(b.calendar, b.named, b.measured)
  BY DEF Init
<1>2. /\ ClockOf(calendar, profile)
      /\ closed \subseteq Instants \ {0}
  BY <1>1, StreamTypes DEF Init
<1>3. now = 0 /\ sequence = <<>> /\ quarantined = {}
  BY DEF Init
<1>4. 0 \in Instants \ closed
  BY <1>2, StreamTypes
<1>5. Delivered = {}
  <2>1. \A i \in Instants : ~(i < now)
    BY <1>3, StreamTypes
  <2> QED BY <2>1 DEF Delivered
<1>6. DOMAIN sequence = {}
  BY <1>3
<1>7. Kept = {}
  BY <1>6 DEF Kept
<1> QED BY <1>2, <1>3, <1>4, <1>5, <1>6, <1>7 DEF TimelineInv

\* The bar that closes is the next of those delivered.
LEMMA OneMoreDelivered ==
  ASSUME TimelineInv, BarCloses
  PROVE  /\ now' \in Instants \ closed /\ now < now' /\ closed' = closed
         /\ Delivered' = Delivered \cup {now} /\ \A i \in Delivered : i < now /\ i \in Instants
<1> DEFINE later == {i \in Instants : i > now} \ closed
<1>1. later # {} /\ now' = Min(later) /\ closed' = closed
  BY DEF BarCloses
<1>2. later \subseteq Nat /\ now \in Nat
  BY StreamTypes DEF TimelineInv
<1>3. Min(later) \in later /\ \A i \in later : Min(later) <= i
  BY <1>1, <1>2, MinIsLeast
<1>4. now' \in Instants \ closed /\ now < now' /\ \A i \in later : now' <= i
  BY <1>1, <1>3, <1>2
<1>5. ASSUME NEW i \in Instants PROVE (i < now' /\ i \notin closed) <=> ((i < now \/ i = now) /\ i \notin closed)
  <2>1. i \in Nat /\ now \in Nat /\ now' \in Nat
    BY <1>2, <1>4, StreamTypes
  <2>2. CASE i > now /\ i \notin closed
    <3>1. i \in later
      BY <2>1, <2>2
    <3> QED BY <3>1, <2>1, <2>2, <1>4
  <2>3. CASE ~(i > now)
    BY <2>3, <2>1, <1>4
  <2> QED BY <2>2, <2>3
<1>6. Delivered' = {i \in Instants : i < now'} \ closed
  BY <1>1 DEF Delivered
<1>7. now \in Instants /\ now \notin closed
  BY DEF TimelineInv
<1>8. Delivered' = Delivered \cup {now}
  BY <1>5, <1>6, <1>7 DEF Delivered
<1> QED BY <1>1, <1>4, <1>8 DEF Delivered

LEMMA AppendedInTime ==
  ASSUME NEW S, NEW s \in Seq(S), NEW x \in S, NEW t, t = Append(s, x)
  PROVE  /\ t \in Seq(S) /\ Len(s) \in Nat /\ Len(t) = Len(s) + 1
         /\ DOMAIN s = 1 .. Len(s) /\ DOMAIN t = 1 .. Len(s) + 1 /\ t[Len(s) + 1] = x
         /\ \A n \in 1 .. Len(s) : t[n] = s[n]
BY AppendProperties, SMT

\* What a bar does to the sequence: it ends it, or the broker's clock had shown its reading.
LEMMA TimelineGoesOn ==
  ASSUME TimelineInv, BarCloses
  PROVE  TimelineInv'
<1> DEFINE bar == Resolved(now)
<1>1. /\ now' \in Instants \ closed /\ now < now' /\ closed' = closed
      /\ Delivered' = Delivered \cup {now} /\ \A i \in Delivered : i < now /\ i \in Instants
  BY OneMoreDelivered
<1>2. calendar' = calendar /\ profile' = profile
  BY DEF BarCloses
<1>3. now \in Instants /\ now \in Int
  BY StreamTypes DEF TimelineInv
<1>4. /\ bar \in M1Bars /\ bar.of = now
      /\ bar.utc = Resolve(profile, BrokerWall(calendar, now)).utc
  BY <1>3, ResolvedIsABar
<1>5. ASSUME NEW i \in Instants PROVE Resolved(i)' = Resolved(i)
  BY <1>2 DEF Resolved
<1>6. /\ sequence \in Seq(M1Bars) /\ quarantined \subseteq SecondPass(calendar) \cup SaidSkipped
      /\ \A n \in DOMAIN sequence : sequence[n] = Resolved(sequence[n].of)
      /\ \A n, m \in DOMAIN sequence : n < m => sequence[n].utc < sequence[m].utc
      /\ Delivered = quarantined \cup Kept
      /\ ClockOf(calendar, profile)
  BY DEF TimelineInv
<1> HIDE DEF bar
<1>7. \A n \in DOMAIN sequence : sequence[n].of \in Delivered /\ sequence[n] \in M1Bars
  BY <1>6 DEF Kept
<1>8. ASSUME now \notin SecondPass(calendar) \cup SaidSkipped, NEW n \in DOMAIN sequence PROVE sequence[n].utc < bar.utc
  <2> DEFINE j == sequence[n].of
  <2>0. j \in Delivered /\ sequence[n] = Resolved(j)
    BY <1>6, <1>7
  <2> HIDE DEF j
  <2>1. j \in Instants /\ j < now /\ j \in Int
    <3>1. j \in Instants /\ j < now
      BY <2>0, <1>1
    <3>2. Instants \subseteq Int
      BY StreamTypes
    <3> QED BY <3>1, <3>2
  <2>2. sequence[n].utc = Resolve(profile, BrokerWall(calendar, j)).utc
    BY <2>0, <2>1, ResolvedIsABar
  <2>3. Resolve(profile, BrokerWall(calendar, j)).utc < Resolve(profile, BrokerWall(calendar, now)).utc
    <3>1. Resolve(profile, BrokerWall(calendar, now)).status # "INVALID"
      <4>1. CASE profile.calendar = calendar
        BY <1>3, <1>6, <4>1, ResolvedIsRight
      <4>2. CASE profile.calendar # calendar
        BY <1>3, <1>8, <4>2 DEF SaidSkipped
      <4> QED BY <4>1, <4>2
    <3> QED BY <1>3, <1>6, <1>8, <2>1, <3>1, ClockGoesOn
  <2> QED BY <2>2, <2>3, <1>4
<1>9. (\A c : SecondPass(c)' = SecondPass(c)) /\ SaidSkipped' = SaidSkipped
  BY <1>2 DEF SecondPass, SaidSkipped
<1>10. CASE Follows(bar)
  <2>1. sequence' = Append(sequence, bar) /\ quarantined' = quarantined
    BY <1>10 DEF BarCloses, Append1, bar
  <2>2. /\ sequence' \in Seq(M1Bars) /\ Len(sequence) \in Nat
        /\ DOMAIN sequence = 1 .. Len(sequence) /\ DOMAIN sequence' = 1 .. Len(sequence) + 1
        /\ sequence'[Len(sequence) + 1] = bar
        /\ \A n \in 1 .. Len(sequence) : sequence'[n] = sequence[n]
    BY <1>4, <1>6, <2>1, AppendedInTime
  <2>3. (\A n \in DOMAIN sequence : sequence[n] = Resolved(sequence[n].of))'
    <3>1. bar = Resolved(bar.of) /\ bar.of \in Instants
      BY <1>3, <1>4 DEF bar
    <3>2. \A n \in 1 .. Len(sequence) : sequence'[n] = Resolved(sequence'[n].of) /\ sequence'[n].of \in Instants
      BY <1>1, <1>6, <1>7, <2>2
    <3>3. \A n \in DOMAIN sequence' : n \in 1 .. Len(sequence) \/ n = Len(sequence) + 1
      BY <2>2
    <3> QED BY <1>5, <2>2, <3>1, <3>2, <3>3
  <2>4. \A n \in DOMAIN sequence : sequence[n].utc < bar.utc
    <3> SUFFICES ASSUME NEW n \in DOMAIN sequence PROVE sequence[n].utc < bar.utc
      OBVIOUS
    <3>1. n \in 1 .. Len(sequence) /\ Len(sequence) \in DOMAIN sequence /\ sequence # <<>>
      BY <2>2
    <3>2. bar.utc > sequence[Len(sequence)].utc
      BY <1>10, <3>1 DEF Follows
    <3>3. sequence[n].utc \in Int /\ sequence[Len(sequence)].utc \in Int /\ bar.utc \in Int
      BY <1>4, <1>7, <3>1 DEF M1Bars
    <3>4. n = Len(sequence) \/ sequence[n].utc < sequence[Len(sequence)].utc
      BY <1>6, <2>2, <3>1
    <3> QED BY <3>2, <3>3, <3>4
  <2>5. \A n, m \in DOMAIN sequence' : n < m => sequence'[n].utc < sequence'[m].utc
    <3> SUFFICES ASSUME NEW n \in DOMAIN sequence', NEW m \in DOMAIN sequence', n < m
                 PROVE  sequence'[n].utc < sequence'[m].utc
      OBVIOUS
    <3>1. n \in 1 .. Len(sequence) /\ (m \in 1 .. Len(sequence) \/ m = Len(sequence) + 1)
      BY <2>2
    <3> QED BY <1>6, <2>2, <2>4, <3>1
  <2>6. Kept' = Kept \cup {now}
    <3>1. Kept' = {sequence'[n].of : n \in 1 .. Len(sequence) + 1}
      BY <2>2 DEF Kept
    <3>2. Kept = {sequence'[n].of : n \in 1 .. Len(sequence)}
      BY <2>2 DEF Kept
    <3>3. 1 .. Len(sequence) + 1 = (1 .. Len(sequence)) \cup {Len(sequence) + 1}
      BY <2>2
    <3> QED BY <1>4, <2>2, <3>1, <3>2, <3>3
  <2>7. Delivered' = quarantined' \cup Kept'
    BY <1>1, <1>6, <2>1, <2>6
  <2> QED BY <1>1, <1>2, <1>6, <1>9, <2>1, <2>2, <2>3, <2>5, <2>7 DEF TimelineInv
<1>11. CASE ~Follows(bar)
  <2>1. quarantined' = quarantined \cup {now} /\ sequence' = sequence
    BY <1>11 DEF BarCloses, bar
  <2>2. sequence # <<>> /\ ~(bar.utc > sequence[Len(sequence)].utc)
    BY <1>11 DEF Follows
  <2>3. Len(sequence) \in DOMAIN sequence
    BY <1>6, <2>2
  <2>4. sequence[Len(sequence)].utc \in Int /\ bar.utc \in Int
    BY <1>4, <1>7, <2>3 DEF M1Bars
  <2>5. now \in SecondPass(calendar) \cup SaidSkipped
    BY <1>8, <2>2, <2>3, <2>4
  <2>6. (\A n \in DOMAIN sequence : sequence[n] = Resolved(sequence[n].of))'
    BY <1>1, <1>5, <1>6, <1>7, <2>1
  <2>7. Kept' = Kept
    BY <2>1 DEF Kept
  <2> QED BY <1>1, <1>2, <1>6, <1>9, <2>1, <2>5, <2>6, <2>7 DEF TimelineInv
<1> QED BY <1>10, <1>11

LEMMA TimelineStays ==
  ASSUME TimelineInv, UNCHANGED <<stream, python>>
  PROVE  TimelineInv'
<1>1. /\ calendar' = calendar /\ profile' = profile /\ closed' = closed /\ now' = now
      /\ sequence' = sequence /\ quarantined' = quarantined
  BY DEF stream, python
<1> QED BY <1>1 DEF TimelineInv, Resolved, SecondPass, SaidSkipped, Delivered, Kept

LEMMA TimelineAlways == Spec => []TimelineInv
<1>1. TimelineInv /\ [Next]_vars => TimelineInv'
  <2> SUFFICES ASSUME TimelineInv, [Next]_vars PROVE TimelineInv'
    OBVIOUS
  <2>1. CASE BarCloses
    BY <2>1, TimelineGoesOn
  <2>2. CASE Scan
    BY <2>2, TimelineStays DEF Scan
  <2>3. CASE Reload
    BY <2>3, TimelineStays DEF Reload
  <2>4. CASE UNCHANGED vars
    BY <2>4, TimelineStays DEF vars
  <2> QED BY <2>1, <2>2, <2>3, <2>4 DEF Next
<1> QED BY <1>1, InitInTime, PTL DEF Spec

LEMMA TimelineHolds == TimelineInv => TimelineIsTrue /\ ClocksAgree
<1> SUFFICES ASSUME TimelineInv PROVE TimelineIsTrue /\ ClocksAgree
  OBVIOUS
<1>1. ASSUME NEW n \in DOMAIN sequence
      PROVE  /\ sequence[n].quality = "VALID" =>
                  sequence[n].utc - sequence[n].of
                    \in IF profile.calendar = calendar THEN {0} ELSE {-Shift, 0, Shift}
             /\ n > 1 => sequence[n - 1].utc < sequence[n].utc
  <2>1. sequence[n].of \in Instants /\ sequence[n] = Resolved(sequence[n].of) /\ n \in Nat
    <3>1. sequence \in Seq(M1Bars) /\ sequence[n] = Resolved(sequence[n].of)
      BY DEF TimelineInv
    <3>2. sequence[n] \in M1Bars /\ n \in Nat
      BY <3>1
    <3> QED BY <3>1, <3>2 DEF M1Bars
  <2>2. n > 1 => n - 1 \in DOMAIN sequence /\ n - 1 < n
    BY DEF TimelineInv
  <2> QED BY <2>1, <2>2, ResolvedIsABar DEF TimelineInv
<1>2. TimelineIsTrue
  BY <1>1 DEF TimelineIsTrue, TimelineInv, Kept
<1>3. ASSUME profile.calendar = calendar, NEW i \in Delivered
      PROVE  LET wall == BrokerWall(calendar, i)
             IN wall - ChartOffset(calendar, wall) = Resolve(profile, wall).utc
  <2>1. i \in Int /\ profile.standard = BrokerStandard
    BY <1>3, StreamTypes, ProfileOfClock DEF Delivered, TimelineInv
  <2>2. BrokerWall(calendar, i) \in Int
    BY <2>1, ClockTypes DEF BrokerWall, Offset
  <2> QED BY <1>3, <2>1, <2>2, BothClocks
<1> QED BY <1>2, <1>3 DEF ClocksAgree

-----------------------------------------------------------------------------
(* Buckets                                                                 *)

LEMMA MoreTimes ==
  ASSUME NEW a \in Int, NEW b \in Int, NEW d \in Nat \ {0}, a < b
  PROVE  a * d + d <= b * d
<1>1. \A x \in Nat : x * d >= 0
  OBVIOUS
<1>2. b - a - 1 \in Nat
  OBVIOUS
<1>3. (b - a - 1) * d >= 0
  BY <1>1, <1>2
<1>4. (b - a - 1) * d = b * d - a * d - d
  OBVIOUS
<1>5. a * d \in Int /\ b * d \in Int
  OBVIOUS
<1> QED BY <1>3, <1>4, <1>5

\* Two multiples that are at or before two readings, and not by a whole step, are ordered as they are.
LEMMA StepsInOrder ==
  ASSUME NEW v \in Int, NEW w \in Int, v <= w, NEW d \in Nat \ {0}, NEW a \in Int, NEW b \in Int,
         NEW from \in Int, from + a * d <= v, w < from + b * d + d
  PROVE  a <= b /\ a * d <= b * d
<1>1. a * d \in Int /\ b * d \in Int
  OBVIOUS
<1>2. a <= b
  <2> SUFFICES ASSUME b < a PROVE FALSE
    OBVIOUS
  <2>1. b * d + d <= a * d
    BY MoreTimes
  <2> QED BY <1>1, <2>1
<1>3. CASE a = b
  BY <1>1, <1>3
<1>4. CASE a < b
  <2>1. a * d + d <= b * d
    BY <1>4, MoreTimes
  <2> QED BY <1>1, <1>2, <2>1
<1> QED BY <1>2, <1>3, <1>4

LEMMA Divided ==
  ASSUME NEW x \in Int, NEW d \in Nat \ {0}
  PROVE  x \div d \in Int /\ x % d \in 0 .. d - 1 /\ x = (x \div d) * d + (x % d)
<1>1. x \div d \in Int
  OBVIOUS
<1>2. x % d \in Int /\ 0 <= x % d /\ x % d < d
  OBVIOUS
<1>3. x = d * (x \div d) + (x % d)
  BY Z3
<1>4. d * (x \div d) = (x \div d) * d
  BY <1>1
<1> QED BY <1>1, <1>2, <1>3, <1>4

LEMMA DayHasOpened ==
  ASSUME NEW w \in Int
  PROVE  /\ \E k \in Int : DayOpenBefore(w) = DayOpens + k * DayLength
         /\ DayOpenBefore(w) \in Int
         /\ DayOpenBefore(w) <= w /\ w < DayOpenBefore(w) + DayLength
<1> DEFINE date == w \div DayLength
           time == w % DayLength
<1>1. date \in Int /\ time \in 0 .. DayLength - 1 /\ w = date * DayLength + time
  BY ClockTypes, Divided
<1>2. DayOpenBefore(w) = (IF time >= DayOpens THEN date ELSE date - 1) * DayLength + DayOpens
  BY DEF DayOpenBefore, TimeOfDay, DateOf
<1> HIDE DEF date, time
<1>3. date * DayLength \in Int /\ (date - 1) * DayLength = date * DayLength - DayLength
  BY <1>1, ClockTypes
<1>4. CASE time >= DayOpens
  <2>1. DayOpenBefore(w) = DayOpens + date * DayLength
    BY <1>2, <1>3, <1>4, ClockTypes
  <2> QED BY <1>1, <1>3, <1>4, <2>1, ClockTypes
<1>5. CASE ~(time >= DayOpens)
  <2>1. DayOpenBefore(w) = DayOpens + (date - 1) * DayLength
    BY <1>2, <1>3, <1>5, ClockTypes
  <2>2. DayOpenBefore(w) = DayOpens + date * DayLength - DayLength
    BY <2>1, <1>3, ClockTypes
  <2>3. DayOpenBefore(w) \in Int /\ DayOpenBefore(w) <= w /\ w < DayOpenBefore(w) + DayLength
    BY <1>1, <1>3, <1>5, <2>2, ClockTypes
  <2>4. date - 1 \in Int
    BY <1>1
  <2> QED BY <2>1, <2>3, <2>4
<1> QED BY <1>4, <1>5

LEMMA DaysInOrder ==
  ASSUME NEW v \in Int, NEW w \in Int, v <= w
  PROVE  DayOpenBefore(v) <= DayOpenBefore(w)
<1>1. PICK a \in Int : DayOpenBefore(v) = DayOpens + a * DayLength
  BY DayHasOpened
<1>2. PICK b \in Int : DayOpenBefore(w) = DayOpens + b * DayLength
  BY DayHasOpened
<1>3. DayOpenBefore(v) <= v /\ w < DayOpenBefore(w) + DayLength
  BY DayHasOpened
<1>4. DayOpens \in Int /\ DayLength \in Nat \ {0}
  BY ClockTypes
<1>5. a * DayLength \in Int /\ b * DayLength \in Int
  BY <1>4
<1>6. DayOpens + a * DayLength <= v /\ w < DayOpens + b * DayLength + DayLength
  BY <1>1, <1>2, <1>3
<1>7. a * DayLength <= b * DayLength
  BY <1>4, <1>6, StepsInOrder
<1> QED BY <1>1, <1>2, <1>4, <1>5, <1>7

\* A reading after the opening before a later one is of the same day.
LEMMA SameDay ==
  ASSUME NEW v \in Int, NEW w \in Int, v <= w, DayOpenBefore(w) <= v
  PROVE  DayOpenBefore(v) = DayOpenBefore(w)
<1>1. PICK a \in Int : DayOpenBefore(v) = DayOpens + a * DayLength
  BY DayHasOpened
<1>2. PICK b \in Int : DayOpenBefore(w) = DayOpens + b * DayLength
  BY DayHasOpened
<1>3. v < DayOpenBefore(v) + DayLength /\ DayOpenBefore(v) <= DayOpenBefore(w)
  BY DayHasOpened, DaysInOrder
<1>4. DayOpens \in Int /\ DayLength \in Nat \ {0}
  BY ClockTypes
<1>5. a * DayLength \in Int /\ b * DayLength \in Int
  BY <1>4
<1>6. DayOpens + b * DayLength <= v /\ v < DayOpens + a * DayLength + DayLength
  BY <1>1, <1>2, <1>3
<1>7. b * DayLength <= a * DayLength
  BY <1>4, <1>6, StepsInOrder
<1> QED BY <1>1, <1>2, <1>3, <1>4, <1>5, <1>7

\* A bucket opens at or before its readings, and later readings are in no earlier one.
LEMMA BucketHasOpened ==
  ASSUME NEW t \in Nat \ {0}, NEW w \in Int
  PROVE  /\ BucketOpens(t, w) \in Int
         /\ DayOpenBefore(w) <= BucketOpens(t, w) /\ BucketOpens(t, w) <= w
         /\ w < BucketOpens(t, w) + t
<1> DEFINE from == DayOpenBefore(w)
           steps == (w - from) \div t
           rest == (w - from) % t
<1>1. from \in Int /\ from <= w
  BY DayHasOpened
<1>2. BucketOpens(t, w) = from + steps * t
  BY DEF BucketOpens
<1> HIDE DEF from
<1>3. steps \in Int /\ rest \in 0 .. t - 1 /\ w - from = steps * t + rest
  <2>1. w - from \in Int
    BY <1>1
  <2> QED BY <2>1, Divided
<1>4. steps >= 0
  BY <1>1
<1> HIDE DEF steps, rest
<1>5. steps * t \in Int /\ steps * t >= 0
  BY <1>3, <1>4
<1>6. BucketOpens(t, w) \in Int /\ from <= BucketOpens(t, w) /\ BucketOpens(t, w) <= w
      /\ w < BucketOpens(t, w) + t
  BY <1>1, <1>2, <1>3, <1>5
<1> QED BY <1>6 DEF from

LEMMA BucketsInOrder ==
  ASSUME NEW t \in Nat \ {0}, NEW v \in Int, NEW w \in Int, v <= w
  PROVE  BucketOpens(t, v) <= BucketOpens(t, w)
<1>1. /\ BucketOpens(t, v) \in Int /\ BucketOpens(t, w) \in Int
      /\ BucketOpens(t, v) <= v /\ DayOpenBefore(w) <= BucketOpens(t, w)
      /\ w < BucketOpens(t, w) + t
  BY BucketHasOpened
<1>2. /\ DayOpenBefore(v) \in Int /\ DayOpenBefore(w) \in Int
      /\ DayOpenBefore(v) <= DayOpenBefore(w)
  BY DayHasOpened, DaysInOrder
<1>3. CASE v < DayOpenBefore(w)
  BY <1>1, <1>2, <1>3
<1>4. CASE DayOpenBefore(w) <= v
  <2>1. DayOpenBefore(v) = DayOpenBefore(w)
    BY <1>4, SameDay
  <2> DEFINE from == DayOpenBefore(w)
             a == (v - from) \div t
             b == (w - from) \div t
  <2>2. a \in Int /\ b \in Int
    BY <1>2
  <2>3. BucketOpens(t, v) = from + a * t /\ BucketOpens(t, w) = from + b * t
    BY <2>1 DEF BucketOpens
  <2> HIDE DEF a, b
  <2>4. a * t \in Int /\ b * t \in Int
    BY <2>2
  <2>5. from + a * t <= v /\ w < from + b * t + t /\ from \in Int
    BY <1>1, <1>2, <2>3, <2>4
  <2>6. a * t <= b * t
    BY <2>2, <2>5, StepsInOrder
  <2> QED BY <2>3, <2>4, <2>5, <2>6
<1> QED BY <1>1, <1>2, <1>3, <1>4

\* A reading between a bucket's opening and one of its readings is in it too.
LEMMA BucketKeepsOpen ==
  ASSUME NEW t \in Nat \ {0}, NEW v \in Int, NEW w \in Int, v <= w, BucketOpens(t, w) <= v
  PROVE  BucketOpens(t, w) = BucketOpens(t, v)
<1>1. /\ DayOpenBefore(v) \in Int /\ DayOpenBefore(w) \in Int
      /\ DayOpenBefore(v) <= DayOpenBefore(w)
      /\ BucketOpens(t, v) <= BucketOpens(t, w)
      /\ BucketOpens(t, v) \in Int /\ BucketOpens(t, w) \in Int
      /\ v < BucketOpens(t, v) + t
      /\ DayOpenBefore(w) <= BucketOpens(t, w)
  BY DayHasOpened, DaysInOrder, BucketHasOpened, BucketsInOrder
<1>2. DayOpenBefore(v) = DayOpenBefore(w)
  BY <1>1, SameDay
<1> DEFINE from == DayOpenBefore(w)
           a == (v - from) \div t
           b == (w - from) \div t
<1>3. a \in Int /\ b \in Int
  BY <1>1
<1>4. BucketOpens(t, v) = from + a * t /\ BucketOpens(t, w) = from + b * t
  BY <1>2 DEF BucketOpens
<1> HIDE DEF a, b
<1>5. a * t \in Int /\ b * t \in Int
  BY <1>3
<1>6. from + b * t <= v /\ v < from + a * t + t /\ from \in Int
  BY <1>1, <1>4, <1>5
<1>7. b * t <= a * t
  BY <1>3, <1>6, StepsInOrder
<1> QED BY <1>1, <1>4, <1>5, <1>6, <1>7

\* New York's reading of an instant, and the instant of a reading.
LEMMA Readings ==
  ASSUME NEW u \in Int
  PROVE  /\ NyWall(u) \in Int /\ Skipped \in Int /\ Repeats \in Int
         /\ Skipped + Shift < Repeats
         /\ u < Spring["US"] => NyWall(u) = u - NyBehind /\ NyWall(u) < Skipped
         /\ Spring["US"] <= u /\ u < Fall["US"] =>
              NyWall(u) = u - NyBehind + Shift /\ Skipped + Shift <= NyWall(u) /\ NyWall(u) < Repeats + Shift
         /\ Fall["US"] <= u => NyWall(u) = u - NyBehind /\ Repeats <= NyWall(u)
         /\ Skipped = Spring["US"] - NyBehind /\ Repeats = Fall["US"] - NyBehind
BY ClockTypes DEF NyWall, Offset, Saving, NyStandard, Skipped, Repeats

LEMMA Instant ==
  ASSUME NEW w \in Int
  PROVE  /\ NyUtc(w) \in Int
         /\ w < Skipped + Shift => NyUtc(w) = w + NyBehind
         /\ Skipped + Shift <= w /\ w < Repeats + Shift => NyUtc(w) = w + NyBehind - Shift
         /\ Repeats + Shift <= w => NyUtc(w) = w + NyBehind
BY ClockTypes DEF NyUtc, Saving, NyStandard, Skipped, Repeats

Clear(w) == w \notin Skipped + 1 .. Skipped + Shift - 1

LEMMA InstantsInOrder ==
  ASSUME NEW v \in Int, NEW w \in Int, v <= w, Clear(v), Clear(w)
  PROVE  NyUtc(v) <= NyUtc(w)
<1>1. Skipped \in Int /\ Repeats \in Int /\ Shift \in Nat \ {0} /\ NyBehind \in Int /\ Skipped + Shift < Repeats
  BY Readings, ClockTypes
<1> QED BY <1>1, Instant DEF Clear

\* The instants of an hour the clock had shown before are the one exception.
LEMMA ReadingsInOrder ==
  ASSUME NEW u \in Int, NEW v \in Int, u < v, v \notin SecondPass("US")
  PROVE  NyWall(u) < NyWall(v)
BY ClockTypes DEF NyWall, Offset, Saving, NyStandard, SecondPass

\* No bar's bucket opens within the hour that is skipped.
LEMMA BucketsOpenClear ==
  ASSUME NEW t \in Targets, NEW u \in Int
  PROVE  Clear(BucketOpens(t, NyWall(u)))
<1> DEFINE w == NyWall(u)
<1>1. /\ t \in Nat \ {0}
      /\ BucketOpens(t, Skipped + Shift) \notin Skipped + 1 .. Skipped + Shift - 1
  BY TargetAssumption
<1>2. /\ w \in Int /\ Skipped \in Int /\ Shift \in Nat \ {0}
      /\ w < Skipped \/ Skipped + Shift <= w
  BY Readings, ClockTypes
<1> HIDE DEF w
<1>3. BucketOpens(t, w) \in Int /\ BucketOpens(t, w) <= w
  BY <1>1, <1>2, BucketHasOpened
<1>4. ASSUME w < Skipped PROVE Clear(BucketOpens(t, w))
  BY <1>2, <1>3, <1>4 DEF Clear
<1>5. ASSUME Skipped + Shift <= w PROVE Clear(BucketOpens(t, w))
  <2> DEFINE g == Skipped + Shift
  <2>1. g \in Int
    BY <1>2
  <2>2. BucketOpens(t, g) \in Int /\ BucketOpens(t, g) <= g /\ BucketOpens(t, g) <= BucketOpens(t, w)
    BY <1>1, <1>2, <1>5, <2>1, BucketHasOpened, BucketsInOrder
  <2>3. CASE g <= BucketOpens(t, w)
    BY <1>2, <1>3, <2>3 DEF Clear
  <2>4. CASE BucketOpens(t, w) < g
    <3>1. BucketOpens(t, w) = BucketOpens(t, g)
      BY <1>1, <1>2, <1>3, <1>5, <2>1, <2>2, <2>4, BucketKeepsOpen
    <3> QED BY <3>1, <1>1 DEF Clear
  <2> QED BY <1>3, <2>1, <2>3, <2>4
<1> QED BY <1>2, <1>4, <1>5 DEF w

\* Of increasing instants, in the order of the sequence, the buckets are in order.
LEMMA StartsInOrder ==
  ASSUME NEW t \in Targets, NEW u \in Int, NEW v \in Int, u < v,
         v \in SecondPass("US") => t >= Shift
  PROVE  /\ BucketStart(t, u) \in Int /\ BucketStart(t, v) \in Int
         /\ BucketStart(t, u) <= BucketStart(t, v)
<1>1. /\ t \in Nat \ {0}
      /\ t >= Shift => BucketOpens(t, Repeats) = BucketOpens(t, Repeats + Shift - 1)
  BY TargetAssumption
<1>2. NyWall(u) \in Int /\ NyWall(v) \in Int
  BY Readings
<1>3. /\ BucketOpens(t, NyWall(u)) \in Int /\ BucketOpens(t, NyWall(v)) \in Int
      /\ Clear(BucketOpens(t, NyWall(u))) /\ Clear(BucketOpens(t, NyWall(v)))
  BY <1>1, <1>2, BucketHasOpened, BucketsOpenClear
<1>4. BucketOpens(t, NyWall(u)) <= BucketOpens(t, NyWall(v))
  <2>1. CASE v \notin SecondPass("US")
    <3>1. NyWall(u) < NyWall(v)
      BY <2>1, ReadingsInOrder
    <3> QED BY <1>1, <1>2, <3>1, BucketsInOrder
  <2>2. CASE v \in SecondPass("US")
    <3> DEFINE a == Repeats
               b == Repeats + Shift - 1
    <3>1. /\ a \in Int /\ b \in Int /\ a <= NyWall(v) /\ NyWall(u) <= b
      BY <2>2, ClockTypes DEF NyWall, Offset, Saving, NyStandard, SecondPass, Repeats
    <3>2. BucketOpens(t, a) = BucketOpens(t, b)
      BY <1>1, <2>2
    <3> HIDE DEF a, b
    <3>3. BucketOpens(t, NyWall(u)) <= BucketOpens(t, b) /\ BucketOpens(t, a) <= BucketOpens(t, NyWall(v))
      BY <1>1, <1>2, <3>1, BucketsInOrder
    <3>4. BucketOpens(t, a) \in Int
      BY <1>1, <3>1, BucketHasOpened
    <3> QED BY <1>3, <3>2, <3>3, <3>4
  <2> QED BY <2>1, <2>2
<1>5. BucketStart(t, u) <= BucketStart(t, v)
  BY <1>3, <1>4, InstantsInOrder DEF BucketStart
<1> QED BY <1>3, <1>5, Instant DEF BucketStart

-----------------------------------------------------------------------------
(* Longer bars                                                             *)

LongBars == [start : Int, quality : {"VALID", "SUSPECT"}, ohlc : Ohlcs, last : Int]

LEMMA MaxIs ==
  ASSUME NEW S, S \subseteq Int, NEW x \in S, \A y \in S : y <= x
  PROVE  Max(S) = x
<1>1. \A y \in S : x >= y
  OBVIOUS
<1>2. Max(S) \in S /\ \A y \in S : Max(S) >= y
  BY <1>1 DEF Max
<1>3. Max(S) >= x /\ x >= Max(S) /\ Max(S) \in Int /\ x \in Int
  BY <1>1, <1>2
<1> QED BY <1>3

LEMMA MinIs ==
  ASSUME NEW S, S \subseteq Int, NEW x \in S, \A y \in S : x <= y
  PROVE  Min(S) = x
<1>2. Min(S) \in S /\ \A y \in S : Min(S) <= y
  BY DEF Min
<1>3. Min(S) <= x /\ x <= Min(S) /\ Min(S) \in Int /\ x \in Int
  BY <1>2
<1> QED BY <1>3

LEMMA OfTwo ==
  ASSUME NEW x \in Int, NEW y \in Int, x <= y
  PROVE  Max({x, y}) = y /\ Max({y, x}) = y /\ Min({x, y}) = x /\ Min({y, x}) = x
<1>1. {x, y} \subseteq Int /\ {y, x} = {x, y} /\ x \in {x, y} /\ y \in {x, y}
  OBVIOUS
<1>2. \A z \in {x, y} : x <= z /\ z <= y
  OBVIOUS
<1> QED BY <1>1, <1>2, MaxIs, MinIs

LEMMA OhlcOfOne ==
  ASSUME NEW b \in M1Bars
  PROVE  Ohlc(<<b>>) = [open |-> b.open, high |-> b.high, low |-> b.low, close |-> b.close]
<1> DEFINE bars == <<b>>
<1>1. /\ DOMAIN bars = {1} /\ bars[1] = b /\ Len(bars) = 1
      /\ b.high \in Int /\ b.low \in Int
  BY DEF M1Bars
<1> HIDE DEF bars
<1>2. {bars[i].high : i \in DOMAIN bars} = {b.high} /\ {bars[i].low : i \in DOMAIN bars} = {b.low}
  BY <1>1
<1>3. Max({b.high}) = b.high /\ Min({b.low}) = b.low
  BY <1>1, MaxIs, MinIs
<1>4. Ohlc(bars) = [open |-> b.open, high |-> b.high, low |-> b.low, close |-> b.close]
  BY <1>1, <1>2, <1>3 DEF Ohlc
<1> QED BY <1>4 DEF bars

LEMMA OhlcOfTwo ==
  ASSUME NEW a \in Ohlcs, NEW b \in M1Bars, NEW both, both = Ohlc(<<a, b>>)
  PROVE  /\ both \in Ohlcs /\ both.open = a.open /\ both.close = b.close
         /\ both.high \in {a.high, b.high} /\ a.high <= both.high /\ b.high <= both.high
         /\ both.low \in {a.low, b.low} /\ both.low <= a.low /\ both.low <= b.low
<1> DEFINE bars == <<a, b>>
<1>1. /\ DOMAIN bars = {1, 2} /\ bars[1] = a /\ bars[2] = b /\ Len(bars) = 2
  OBVIOUS
<1>2. /\ a.open \in Int /\ a.high \in Int /\ a.low \in Int /\ a.close \in Int
      /\ b.open \in Int /\ b.high \in Int /\ b.low \in Int /\ b.close \in Int
  BY DEF M1Bars, Ohlcs
<1>3. both = Ohlc(bars)
  BY DEF bars
<1> HIDE DEF bars
<1>4. {bars[i].high : i \in DOMAIN bars} = {a.high, b.high} /\ {bars[i].low : i \in DOMAIN bars} = {a.low, b.low}
  BY <1>1
<1>5. both = [open |-> a.open, high |-> Max({a.high, b.high}), low |-> Min({a.low, b.low}), close |-> b.close]
  BY <1>1, <1>3, <1>4 DEF Ohlc
<1>6. \/ Max({a.high, b.high}) = a.high /\ b.high <= a.high
      \/ Max({a.high, b.high}) = b.high /\ a.high <= b.high
  <2>1. CASE b.high <= a.high
    BY <1>2, <2>1, OfTwo
  <2>2. CASE a.high <= b.high
    BY <1>2, <2>2, OfTwo
  <2> QED BY <1>2, <2>1, <2>2
<1>7. \/ Min({a.low, b.low}) = a.low /\ a.low <= b.low
      \/ Min({a.low, b.low}) = b.low /\ b.low <= a.low
  <2>1. CASE a.low <= b.low
    BY <1>2, <2>1, OfTwo
  <2>2. CASE b.low <= a.low
    BY <1>2, <2>2, OfTwo
  <2> QED BY <1>2, <2>1, <2>2
<1> DEFINE high == Max({a.high, b.high})
           low == Min({a.low, b.low})
<1>8. high \in {a.high, b.high} /\ a.high <= high /\ b.high <= high /\ high \in Int
  BY <1>2, <1>6
<1>9. low \in {a.low, b.low} /\ low <= a.low /\ low <= b.low /\ low \in Int
  BY <1>2, <1>7
<1>10. both = [open |-> a.open, high |-> high, low |-> low, close |-> b.close]
  BY <1>5
<1> HIDE DEF high, low
<1> QED BY <1>2, <1>8, <1>9, <1>10 DEF Ohlcs

OfBucket(t, start) == {n \in DOMAIN sequence : BucketStart(t, sequence[n].utc) = start}

\* What a bucket says of its bars, spelled out.
Holds(bucket, t) ==
  LET of == OfBucket(t, bucket.start)
      ohlc == bucket.ohlc
  IN /\ \E n \in of : ohlc.open = sequence[n].open /\ \A m \in of : n <= m
     /\ \E n \in of : ohlc.close = sequence[n].close /\ \A m \in of : m <= n
     /\ \E n \in of : ohlc.high = sequence[n].high
     /\ \E n \in of : ohlc.low = sequence[n].low
     /\ \A n \in of : sequence[n].high <= ohlc.high /\ ohlc.low <= sequence[n].low
     /\ bucket.quality = WorstOf({sequence[n].quality : n \in of})

LEMMA HoldingStands ==
  ASSUME sequence \in Seq(M1Bars), NEW t, NEW bucket \in LongBars, Holds(bucket, t)
  PROVE  StandsFor(bucket, t)
<1> DEFINE of == OfBucket(t, bucket.start)
           ohlc == bucket.ohlc
           highs == {sequence[n].high : n \in of}
           lows == {sequence[n].low : n \in of}
<1>1. of \subseteq Int /\ \A n \in of : sequence[n] \in M1Bars
  BY DEF OfBucket
<1>2. highs \subseteq Int /\ lows \subseteq Int /\ ohlc \in Ohlcs
  BY <1>1 DEF M1Bars, LongBars
<1>3. /\ \E n \in of : ohlc.open = sequence[n].open /\ \A m \in of : n <= m
      /\ \E n \in of : ohlc.close = sequence[n].close /\ \A m \in of : m <= n
      /\ \E n \in of : ohlc.high = sequence[n].high
      /\ \E n \in of : ohlc.low = sequence[n].low
      /\ \A n \in of : sequence[n].high <= ohlc.high /\ ohlc.low <= sequence[n].low
      /\ bucket.quality = WorstOf({sequence[n].quality : n \in of})
  BY DEF Holds
<1>4. of = {n \in DOMAIN sequence : BucketStart(t, sequence[n].utc) = bucket.start}
  BY DEF OfBucket
<1> HIDE DEF of
<1>5. ohlc.open = sequence[Min(of)].open
  <2>1. PICK n \in of : ohlc.open = sequence[n].open /\ \A m \in of : n <= m
    BY <1>3
  <2>2. Min(of) = n
    BY <1>1, <2>1, MinIs
  <2> QED BY <2>1, <2>2
<1>6. ohlc.close = sequence[Max(of)].close
  <2>1. PICK n \in of : ohlc.close = sequence[n].close /\ \A m \in of : m <= n
    BY <1>3
  <2>2. Max(of) = n
    BY <1>1, <2>1, MaxIs
  <2> QED BY <2>1, <2>2
<1>7. ohlc.high \in highs /\ \A y \in highs : y <= ohlc.high
  BY <1>3
<1>8. ohlc.low \in lows /\ \A y \in lows : ohlc.low <= y
  BY <1>3
<1>9. Max(highs) = ohlc.high /\ Min(lows) = ohlc.low
  BY <1>2, <1>7, <1>8, MaxIs, MinIs
<1>10. ohlc = [open |-> ohlc.open, high |-> ohlc.high, low |-> ohlc.low, close |-> ohlc.close]
  BY <1>2 DEF Ohlcs
<1>11. ohlc = [open |-> sequence[Min(of)].open, high |-> Max(highs), low |-> Min(lows),
               close |-> sequence[Max(of)].close]
  BY <1>5, <1>6, <1>9, <1>10
<1> QED BY <1>3, <1>4, <1>11 DEF StandsFor

LastStart(t) == BucketStart(t, sequence[Len(sequence)].utc)

Excused(t) == t < Shift /\ TradedTwice

\* The bars of one target so far: the buckets that are over, in order, and the one open.
OverAreRight(t) ==
  /\ \A n \in DOMAIN higher[t] : n > 1 => higher[t][n - 1].start < higher[t][n].start
  /\ \A n \in DOMAIN higher[t] : Holds(higher[t][n], t)
  /\ sequence # <<>> =>
       {higher[t][n].start : n \in DOMAIN higher[t]} = {s \in Starts(t) : s < LastStart(t)}

BucketInv(t) ==
  /\ higher[t] \in Seq(LongBars)
  /\ sequence = <<>> => partial[t] = None /\ higher[t] = <<>>
  /\ sequence # <<>> => partial[t] \in LongBars /\ partial[t].start = LastStart(t)
  /\ Excused(t) \/ (OverAreRight(t) /\ (sequence # <<>> => Holds(partial[t], t)))

LevelsInv ==
  /\ TimelineInv
  /\ DOMAIN partial = Targets /\ DOMAIN higher = Targets
  /\ \A t \in Targets : BucketInv(t)

\* Of one bar more, only its own bucket has one bar more.
LEMMA BucketGrows ==
  ASSUME sequence \in Seq(M1Bars), NEW bar \in M1Bars, sequence' = Append(sequence, bar), NEW t, NEW start
  PROVE  /\ OfBucket(t, start) \subseteq 1 .. Len(sequence)
         /\ start # BucketStart(t, bar.utc) => OfBucket(t, start)' = OfBucket(t, start)
         /\ start = BucketStart(t, bar.utc) =>
              OfBucket(t, start)' = OfBucket(t, start) \cup {Len(sequence) + 1}
         /\ Len(sequence) \in Nat /\ sequence'[Len(sequence) + 1] = bar
         /\ \A n \in 1 .. Len(sequence) : sequence'[n] = sequence[n]
         /\ Starts(t)' = Starts(t) \cup {BucketStart(t, bar.utc)}
<1>1. /\ Len(sequence) \in Nat /\ DOMAIN sequence = 1 .. Len(sequence)
      /\ DOMAIN sequence' = 1 .. Len(sequence) + 1 /\ sequence'[Len(sequence) + 1] = bar
      /\ \A n \in 1 .. Len(sequence) : sequence'[n] = sequence[n]
  BY AppendedInTime
<1>2. 1 .. Len(sequence) + 1 = (1 .. Len(sequence)) \cup {Len(sequence) + 1}
  BY <1>1
<1>3. OfBucket(t, start) = {n \in 1 .. Len(sequence) : BucketStart(t, sequence[n].utc) = start}
  BY <1>1 DEF OfBucket
<1>4. OfBucket(t, start)' = {n \in (1 .. Len(sequence)) \cup {Len(sequence) + 1} : BucketStart(t, sequence'[n].utc) = start}
  BY <1>1, <1>2 DEF OfBucket
<1>5. \A n \in OfBucket(t, start)' : n \in OfBucket(t, start) \/ (n = Len(sequence) + 1 /\ start = BucketStart(t, bar.utc))
  BY <1>1, <1>3, <1>4
<1>6. \A n \in OfBucket(t, start) : n \in OfBucket(t, start)'
  BY <1>1, <1>3, <1>4
<1>7. start = BucketStart(t, bar.utc) => Len(sequence) + 1 \in OfBucket(t, start)'
  BY <1>1, <1>4
<1>8. Starts(t)' = {BucketStart(t, sequence'[n].utc) : n \in (1 .. Len(sequence)) \cup {Len(sequence) + 1}}
  BY <1>1, <1>2 DEF Starts
<1>9. Starts(t) = {BucketStart(t, sequence[n].utc) : n \in 1 .. Len(sequence)}
  BY <1>1 DEF Starts
<1>10. Starts(t)' = Starts(t) \cup {BucketStart(t, bar.utc)}
  BY <1>1, <1>8, <1>9
<1> QED BY <1>1, <1>3, <1>5, <1>6, <1>7, <1>10

\* What a bucket says it says for as long as it has no other bars.
LEMMA StillHolds ==
  ASSUME sequence \in Seq(M1Bars), NEW bar \in M1Bars, sequence' = Append(sequence, bar), NEW t,
         NEW b, b.start # BucketStart(t, bar.utc), Holds(b, t)
  PROVE  Holds(b, t)'
<1> DEFINE of == OfBucket(t, b.start)
           ohlc == b.ohlc
<1>1. /\ of \subseteq 1 .. Len(sequence) /\ OfBucket(t, b.start)' = of
      /\ \A n \in 1 .. Len(sequence) : sequence'[n] = sequence[n]
  BY BucketGrows
<1>2. \A n \in of : sequence'[n] = sequence[n]
  BY <1>1
<1>3. /\ \E n \in of : ohlc.open = sequence[n].open /\ \A m \in of : n <= m
      /\ \E n \in of : ohlc.close = sequence[n].close /\ \A m \in of : m <= n
      /\ \E n \in of : ohlc.high = sequence[n].high
      /\ \E n \in of : ohlc.low = sequence[n].low
      /\ \A n \in of : sequence[n].high <= ohlc.high /\ ohlc.low <= sequence[n].low
      /\ b.quality = WorstOf({sequence[n].quality : n \in of})
  BY DEF Holds
<1> HIDE DEF of
<1>4. /\ \E n \in of : ohlc.open = sequence'[n].open /\ \A m \in of : n <= m
      /\ \E n \in of : ohlc.close = sequence'[n].close /\ \A m \in of : m <= n
      /\ \E n \in of : ohlc.high = sequence'[n].high
      /\ \E n \in of : ohlc.low = sequence'[n].low
      /\ \A n \in of : sequence'[n].high <= ohlc.high /\ ohlc.low <= sequence'[n].low
  BY <1>2, <1>3
<1>5. {sequence[n].quality : n \in of} = {sequence'[n].quality : n \in of}
  BY <1>2
<1>6. OfBucket(t, b.start)' = of
  BY <1>1
<1> QED BY <1>3, <1>4, <1>5, <1>6 DEF Holds

\* A bucket that opens holds its one bar.
LEMMA OpenedHolds ==
  ASSUME sequence \in Seq(M1Bars), NEW bar \in M1Bars, sequence' = Append(sequence, bar), NEW t,
         BucketStart(t, bar.utc) \in Int
  PROVE  /\ OfBucket(t, BucketStart(t, bar.utc)) = {} => Holds(Opened(BucketStart(t, bar.utc), bar), t)'
         /\ Opened(BucketStart(t, bar.utc), bar) \in LongBars
         /\ Opened(BucketStart(t, bar.utc), bar).start = BucketStart(t, bar.utc)
<1> DEFINE start == BucketStart(t, bar.utc)
           n == Len(sequence) + 1
           b == Opened(start, bar)
<1>1. /\ OfBucket(t, start)' = OfBucket(t, start) \cup {n} /\ sequence'[n] = bar /\ n \in Nat
  BY BucketGrows
<1>2. Ohlc(<<bar>>) = [open |-> bar.open, high |-> bar.high, low |-> bar.low, close |-> bar.close]
  BY OhlcOfOne
<1>3. /\ bar.open \in Int /\ bar.high \in Int /\ bar.low \in Int /\ bar.close \in Int
      /\ bar.quality \in {"VALID", "SUSPECT"} /\ bar.utc \in Int
  BY DEF M1Bars
<1>4. b = [start |-> start, quality |-> bar.quality,
           ohlc |-> [open |-> bar.open, high |-> bar.high, low |-> bar.low, close |-> bar.close],
           last |-> bar.utc]
  BY <1>2 DEF Opened
<1>5. b \in LongBars
  BY <1>3, <1>4 DEF LongBars, Ohlcs
<1>6. WorstOf({bar.quality}) = bar.quality
  BY <1>3 DEF WorstOf
<1> HIDE DEF start, n, b
<1>7. b.start = start /\ b.quality = bar.quality /\ b.ohlc.open = bar.open
      /\ b.ohlc.high = bar.high /\ b.ohlc.low = bar.low /\ b.ohlc.close = bar.close
  BY <1>4
<1>9. {sequence'[m].quality : m \in {n}} = {bar.quality}
  BY <1>1
<1>10. ASSUME OfBucket(t, start) = {} PROVE Holds(b, t)'
  <2> DEFINE of == {n}
  <2>1. /\ \E m \in of : b.ohlc.open = sequence'[m].open /\ \A k \in of : m <= k
        /\ \E m \in of : b.ohlc.close = sequence'[m].close /\ \A k \in of : k <= m
        /\ \E m \in of : b.ohlc.high = sequence'[m].high
        /\ \E m \in of : b.ohlc.low = sequence'[m].low
        /\ \A m \in of : sequence'[m].high <= b.ohlc.high /\ b.ohlc.low <= sequence'[m].low
    <3>1. n \in of /\ \A k \in of : k = n
      OBVIOUS
    <3>2. n <= n /\ bar.high <= bar.high /\ bar.low <= bar.low
      BY <1>1, <1>3
    <3> HIDE DEF of
    <3> QED BY <1>1, <1>7, <3>1, <3>2
  <2>2. b.quality = WorstOf({sequence'[m].quality : m \in of})
    BY <1>6, <1>7, <1>9
  <2>3. OfBucket(t, b.start)' = of
    BY <1>1, <1>7, <1>10
  <2> HIDE DEF of
  <2> QED BY <2>1, <2>2, <2>3 DEF Holds
<1> QED BY <1>5, <1>7, <1>10 DEF b, start

\* A bucket that is given one more of its bars still says what they are.
LEMMA MergedHolds ==
  ASSUME sequence \in Seq(M1Bars), NEW bar \in M1Bars, sequence' = Append(sequence, bar), NEW t,
         NEW b \in LongBars, b.start = BucketStart(t, bar.utc)
  PROVE  /\ Merged(b, bar) \in LongBars /\ Merged(b, bar).start = b.start
         /\ Holds(b, t) => Holds(Merged(b, bar), t)'
<1> DEFINE start == b.start
           of == OfBucket(t, start)
           n == Len(sequence) + 1
           both == Ohlc(<<b.ohlc, bar>>)
           worst == WorstOf({b.quality, bar.quality})
           c == Merged(b, bar)
<1>1. /\ of \subseteq 1 .. Len(sequence) /\ OfBucket(t, start)' = of \cup {n}
      /\ sequence'[n] = bar /\ Len(sequence) \in Nat
      /\ \A m \in 1 .. Len(sequence) : sequence'[m] = sequence[m]
  BY BucketGrows
<1>2. b.ohlc \in Ohlcs /\ b.quality \in {"VALID", "SUSPECT"} /\ b.start \in Int
  BY DEF LongBars
<1>3. /\ both \in Ohlcs /\ both.open = b.ohlc.open /\ both.close = bar.close
      /\ both.high \in {b.ohlc.high, bar.high} /\ b.ohlc.high <= both.high /\ bar.high <= both.high
      /\ both.low \in {b.ohlc.low, bar.low} /\ both.low <= b.ohlc.low /\ both.low <= bar.low
  BY <1>2, OhlcOfTwo
<1>4. bar.quality \in {"VALID", "SUSPECT"} /\ bar.utc \in Int /\ bar.high \in Int /\ bar.low \in Int
  BY DEF M1Bars
<1>5. worst \in {"VALID", "SUSPECT"}
  BY DEF WorstOf
<1>6. c = [start |-> start, quality |-> worst, ohlc |-> both, last |-> bar.utc]
  <2>1. c = [b EXCEPT !.ohlc = both, !.last = bar.utc, !.quality = worst]
    BY DEF Merged
  <2> HIDE DEF both, worst, c
  <2> QED BY <2>1 DEF LongBars
<1> HIDE DEF both, worst, c
<1>7. c \in LongBars /\ c.start = start /\ c.quality = worst /\ c.ohlc = both
  BY <1>2, <1>3, <1>4, <1>5, <1>6 DEF LongBars
<1>8. ASSUME Holds(b, t) PROVE Holds(c, t)'
  <2> DEFINE all == of \cup {n}
  <2>1. /\ \E m \in of : b.ohlc.open = sequence[m].open /\ \A k \in of : m <= k
        /\ \E m \in of : b.ohlc.high = sequence[m].high
        /\ \E m \in of : b.ohlc.low = sequence[m].low
        /\ \A m \in of : sequence[m].high <= b.ohlc.high /\ b.ohlc.low <= sequence[m].low
        /\ b.quality = WorstOf({sequence[m].quality : m \in of})
    BY <1>8 DEF Holds
  <2>2. \A m \in of : sequence'[m] = sequence[m] /\ m < n /\ m \in Int /\ n \in Int
    BY <1>1
  <2>3. \A m \in of : sequence[m].high \in Int /\ sequence[m].low \in Int
    <3>1. \A m \in of : sequence[m] \in M1Bars
      BY <1>1
    <3> QED BY <3>1 DEF M1Bars
  <2>4. /\ b.ohlc.high \in Int /\ b.ohlc.low \in Int /\ both.high \in Int /\ both.low \in Int
    BY <1>2, <1>3 DEF Ohlcs
  <2> HIDE DEF of, n
  <2>5. OfBucket(t, c.start)' = all
    BY <1>1, <1>7
  <2>6. \E m \in all : both.open = sequence'[m].open /\ \A k \in all : m <= k
    <3>1. PICK m \in of : b.ohlc.open = sequence[m].open /\ \A k \in of : m <= k
      BY <2>1
    <3>2. \A k \in all : m <= k
      BY <2>2, <3>1
    <3> QED BY <1>3, <2>2, <3>1, <3>2
  <2>7. \E m \in all : both.close = sequence'[m].close /\ \A k \in all : k <= m
    <3>1. n \in all /\ \A k \in all : k <= n
      BY <2>1, <2>2
    <3> QED BY <1>1, <1>3, <3>1
  <2>8. \E m \in all : both.high = sequence'[m].high
    BY <1>1, <1>3, <2>1, <2>2
  <2>9. \E m \in all : both.low = sequence'[m].low
    BY <1>1, <1>3, <2>1, <2>2
  <2>10. \A m \in all : sequence'[m].high <= both.high /\ both.low <= sequence'[m].low
    <3>1. ASSUME NEW m \in of PROVE sequence'[m].high <= both.high /\ both.low <= sequence'[m].low
      <4>1. /\ sequence'[m] = sequence[m] /\ sequence[m].high \in Int /\ sequence[m].low \in Int
            /\ sequence[m].high <= b.ohlc.high /\ b.ohlc.low <= sequence[m].low
        BY <2>1, <2>2, <2>3
      <4> QED BY <4>1, <1>3, <2>4
    <3>2. sequence'[n].high <= both.high /\ both.low <= sequence'[n].low
      BY <1>1, <1>3
    <3> QED BY <3>1, <3>2
  <2>11. worst = WorstOf({sequence'[m].quality : m \in all})
    <3> DEFINE old == {sequence[m].quality : m \in of}
               new == {sequence'[m].quality : m \in all}
    <3>1. new = old \cup {bar.quality}
      BY <1>1, <2>2
    <3>2. b.quality = WorstOf(old)
      BY <2>1
    <3> HIDE DEF old, new
    <3>3. worst = WorstOf(new)
      BY <3>1, <3>2, <1>4 DEF worst, WorstOf
    <3> QED BY <3>3 DEF new
  <2> QED BY <1>7, <2>5, <2>6, <2>7, <2>8, <2>9, <2>10, <2>11 DEF Holds
<1> QED BY <1>7, <1>8 DEF c

LEMMA TargetTypes ==
  /\ \A t \in Targets : t \in Nat \ {0}
  /\ None \notin LongBars
BY TargetAssumption, BucketAssumption DEF LongBars

LEMMA MostTraded ==
  ASSUME sequence \in Seq(M1Bars), NEW bar \in M1Bars, sequence' = Append(sequence, bar), NEW t,
         t \in Nat, ~Excused(t)'
  PROVE  ~Excused(t) /\ (bar.utc \in SecondPass("US") => t >= Shift)
<1>1. /\ Len(sequence) \in Nat /\ DOMAIN sequence = 1 .. Len(sequence)
      /\ DOMAIN sequence' = 1 .. Len(sequence) + 1 /\ sequence'[Len(sequence) + 1] = bar
      /\ \A n \in 1 .. Len(sequence) : sequence'[n] = sequence[n]
  BY AppendedInTime
<1>2. SecondPass("US")' = SecondPass("US")
  BY DEF SecondPass
<1>3. TradedTwice => TradedTwice'
  <2>1. \A n \in DOMAIN sequence : n \in DOMAIN sequence' /\ sequence'[n] = sequence[n]
    BY <1>1
  <2> QED BY <1>2, <2>1 DEF TradedTwice
<1>4. bar.utc \in SecondPass("US") => TradedTwice'
  <2>1. Len(sequence) + 1 \in DOMAIN sequence'
    BY <1>1
  <2> QED BY <1>1, <1>2, <2>1 DEF TradedTwice
<1> QED BY <1>3, <1>4, ClockTypes DEF Excused

Increasing == \A n, m \in DOMAIN sequence : n < m => sequence[n].utc < sequence[m].utc

\* What one more bar does to the buckets of a target.
LEMMA BucketsGoOn ==
  ASSUME sequence \in Seq(M1Bars), NEW bar \in M1Bars, sequence' = Append(sequence, bar),
         \A n \in DOMAIN sequence : sequence[n].utc < bar.utc,
         Increasing,
         NEW t \in Targets, BucketInv(t),
         partial'[t] = Push(partial[t], t, bar),
         higher'[t] = higher[t] \o Completed(partial[t], t, bar)
  PROVE  BucketInv(t)'
<1> DEFINE start == BucketStart(t, bar.utc)
<1>1. /\ Len(sequence) \in Nat /\ DOMAIN sequence = 1 .. Len(sequence)
      /\ DOMAIN sequence' = 1 .. Len(sequence) + 1 /\ sequence'[Len(sequence) + 1] = bar
      /\ \A n \in 1 .. Len(sequence) : sequence'[n] = sequence[n]
      /\ sequence' \in Seq(M1Bars) /\ Len(sequence') = Len(sequence) + 1
  BY AppendedInTime
<1>2. t \in Nat \ {0} /\ None \notin LongBars
  BY TargetTypes
<1>3. bar.utc \in Int /\ \A n \in DOMAIN sequence : sequence[n].utc \in Int
  <2>1. \A n \in DOMAIN sequence : sequence[n] \in M1Bars
    OBVIOUS
  <2> QED BY <2>1 DEF M1Bars
<1>4. start \in Int
  <2>1. NyWall(bar.utc) \in Int
    BY <1>3, Readings
  <2>2. BucketOpens(t, NyWall(bar.utc)) \in Int
    BY <1>2, <2>1, BucketHasOpened
  <2> QED BY <2>2, Instant DEF BucketStart
<1>5. LastStart(t)' = start /\ sequence' # <<>>
  BY <1>1 DEF LastStart
<1>6. ASSUME ~Excused(t)', NEW s \in Starts(t) PROVE s <= start /\ s \in Int
  <2>1. PICK n \in DOMAIN sequence : s = BucketStart(t, sequence[n].utc)
    BY DEF Starts
  <2>2. bar.utc \in SecondPass("US") => t >= Shift
    BY <1>2, <1>6, MostTraded
  <2> QED BY <1>3, <2>1, <2>2, StartsInOrder
<1>7. Starts(t)' = Starts(t) \cup {start}
  BY BucketGrows
<1>8. /\ higher[t] \in Seq(LongBars)
      /\ sequence = <<>> => partial[t] = None /\ higher[t] = <<>>
      /\ sequence # <<>> => partial[t] \in LongBars /\ partial[t].start = LastStart(t)
      /\ Excused(t) \/ (OverAreRight(t) /\ (sequence # <<>> => Holds(partial[t], t)))
  BY DEF BucketInv
<1>9. sequence # <<>> => LastStart(t) \in Starts(t)
  <2>1. sequence # <<>> => Len(sequence) \in DOMAIN sequence
    BY <1>1
  <2> QED BY <2>1 DEF LastStart, Starts
<1>10. ~Excused(t)' => ~Excused(t)
  BY <1>2, MostTraded
<1> HIDE DEF start
\* The first bar.
<1>11. CASE sequence = <<>>
  <2>1. partial'[t] = Opened(start, bar) /\ higher'[t] = <<>>
    <3>1. partial[t] = None /\ higher[t] = <<>>
      BY <1>8, <1>11
    <3>2. Completed(partial[t], t, bar) = <<>>
      BY <3>1 DEF Completed, Closes
    <3>3. Push(partial[t], t, bar) = Opened(start, bar)
      BY <3>1 DEF Push, start
    <3> QED BY <3>1, <3>2, <3>3
  <2>2. OfBucket(t, start) = {} /\ Starts(t) = {}
    BY <1>11 DEF OfBucket, Starts
  <2>3. Holds(partial[t], t)' /\ partial'[t] \in LongBars /\ partial'[t].start = start
    <3>1. /\ Holds(Opened(start, bar), t)' /\ Opened(start, bar) \in LongBars
          /\ Opened(start, bar).start = start
      BY <1>4, <2>2, OpenedHolds DEF start
    <3> QED BY <2>1, <3>1 DEF Holds
  <2>4. {s \in Starts(t)' : s < start} = {}
    BY <1>4, <1>7, <2>2
  <2>5. DOMAIN higher'[t] = {} /\ higher'[t] \in Seq(LongBars)
    BY <2>1
  <2>6. {higher'[t][n].start : n \in DOMAIN higher'[t]} = {}
    BY <2>5
  <2>7. OverAreRight(t)'
    BY <1>5, <2>4, <2>5, <2>6 DEF OverAreRight
  <2> QED BY <1>5, <2>3, <2>5, <2>7 DEF BucketInv
\* One more of the bucket that is open.
<1>12. CASE sequence # <<>> /\ start = LastStart(t)
  <2>1. partial[t] \in LongBars /\ partial[t].start = start /\ partial[t] # None
    BY <1>2, <1>8, <1>12
  <2>2. partial'[t] = Merged(partial[t], bar) /\ higher'[t] = higher[t]
    <3>1. ~Closes(partial[t], start)
      BY <2>1 DEF Closes
    <3>2. Completed(partial[t], t, bar) = <<>>
      BY <3>1 DEF Completed, start
    <3>3. higher[t] \o <<>> = higher[t]
      BY <1>8
    <3> QED BY <2>1, <3>1, <3>2, <3>3 DEF Push, start
  <2> PICK b : b = partial[t]
    OBVIOUS
  <2> PICK c : c = Merged(b, bar)
    OBVIOUS
  <2>3. c \in LongBars /\ c.start = start /\ (Holds(b, t) => Holds(c, t)')
    BY <2>1, MergedHolds DEF start
  <2>4. partial'[t] \in LongBars /\ partial'[t].start = start
    BY <2>2, <2>3
  <2>5. ASSUME ~Excused(t)' PROVE OverAreRight(t)' /\ Holds(partial[t], t)'
    <3>1. OverAreRight(t) /\ Holds(partial[t], t)
      BY <1>8, <1>10, <1>12, <2>5
    <3>2. Holds(partial[t], t)'
      <4>1. Holds(b, t)
        BY <3>1
      <4>2. Holds(c, t)' /\ c = partial'[t]
        BY <2>2, <2>3, <4>1
      <4> QED BY <4>2 DEF Holds
    <3>3. Starts(t)' = Starts(t)
      BY <1>7, <1>9, <1>12
    <3>4. ASSUME NEW n \in DOMAIN higher[t], NEW longer, longer = higher[t][n] PROVE Holds(longer, t)'
      <4>1. longer.start < start /\ Holds(longer, t)
        BY <1>12, <3>1, <3>4 DEF OverAreRight
      <4>2. longer.start \in Int
        <5>1. longer \in LongBars
          BY <1>8, <3>4
        <5> QED BY <5>1 DEF LongBars
      <4>3. longer.start # BucketStart(t, bar.utc)
        BY <1>4, <4>1, <4>2 DEF start
      <4> QED BY <4>1, <4>3, StillHolds
    <3> QED BY <1>5, <1>12, <2>2, <3>1, <3>2, <3>3, <3>4 DEF OverAreRight
  <2> QED BY <1>5, <1>8, <2>2, <2>4, <2>5 DEF BucketInv
\* The first of the next.
<1>13. CASE sequence # <<>> /\ start # LastStart(t)
  <2> DEFINE over == partial[t]
  <2>1. over \in LongBars /\ over.start = LastStart(t) /\ over.start # start /\ over # None
    BY <1>2, <1>8, <1>13
  <2>2. partial'[t] = Opened(start, bar) /\ higher'[t] = Append(higher[t], over)
    <3>1. Closes(over, start)
      BY <2>1 DEF Closes
    <3>2. Completed(over, t, bar) = <<over>>
      BY <3>1 DEF Completed, start
    <3>3. higher[t] \o <<over>> = Append(higher[t], over)
      BY <1>8, <2>1
    <3> QED BY <2>1, <3>1, <3>2, <3>3 DEF Push, start
  <2>3. /\ higher'[t] \in Seq(LongBars) /\ Len(higher[t]) \in Nat
        /\ DOMAIN higher[t] = 1 .. Len(higher[t]) /\ DOMAIN higher'[t] = 1 .. Len(higher[t]) + 1
        /\ higher'[t][Len(higher[t]) + 1] = over
        /\ \A n \in 1 .. Len(higher[t]) : higher'[t][n] = higher[t][n]
    BY <1>8, <2>1, <2>2, AppendedInTime
  <2>4. Opened(start, bar) \in LongBars /\ Opened(start, bar).start = start
    BY <1>4, OpenedHolds DEF start
  <2> HIDE DEF over
  <2>5. ASSUME ~Excused(t)' PROVE OverAreRight(t)' /\ Holds(partial[t], t)'
    <3>1. OverAreRight(t) /\ Holds(over, t)
      BY <1>8, <1>10, <1>13, <2>5 DEF over
    <3>2. \A s \in Starts(t) : s <= start /\ s \in Int
      BY <1>6, <2>5
    <3>3. LastStart(t) < start /\ LastStart(t) \in Starts(t) /\ \A s \in Starts(t) : s <= LastStart(t)
      <4>1. LastStart(t) \in Starts(t)
        BY <1>9, <1>13
      <4>2. ASSUME NEW s \in Starts(t) PROVE s <= LastStart(t)
        <5>1. PICK n \in DOMAIN sequence : s = BucketStart(t, sequence[n].utc)
          BY DEF Starts
        <5>2. Len(sequence) \in DOMAIN sequence /\ n <= Len(sequence)
          BY <1>1, <1>13
        <5>3. CASE n = Len(sequence)
          BY <3>2, <5>1, <5>3 DEF LastStart
        <5>4. CASE n < Len(sequence)
          <6> DEFINE v == sequence[Len(sequence)].utc
          <6>1. v \in Int /\ sequence[n].utc \in Int /\ sequence[n].utc < v
            BY <1>3, <5>2, <5>4 DEF Increasing
          <6>2. v \in SecondPass("US") => t >= Shift
            BY <1>2, <1>10, <2>5, <5>2, ClockTypes DEF Excused, TradedTwice
          <6> HIDE DEF v
          <6>3. BucketStart(t, sequence[n].utc) <= BucketStart(t, v)
            BY <6>1, <6>2, StartsInOrder
          <6> QED BY <5>1, <6>3 DEF LastStart, v
        <5> QED BY <1>1, <5>2, <5>3, <5>4
      <4> QED BY <1>4, <1>13, <3>2, <4>1, <4>2
    <3>4. ASSUME NEW n \in DOMAIN higher'[t], NEW longer, longer = higher'[t][n]
          PROVE  /\ Holds(longer, t)' /\ longer.start \in Starts(t) /\ longer.start # start
                 /\ longer.start < LastStart(t) \/ longer = over
      <4>1. CASE n = Len(higher[t]) + 1
        <5>1. longer = over /\ longer.start = LastStart(t)
          BY <2>1, <2>3, <3>4, <4>1
        <5>2. longer.start # BucketStart(t, bar.utc) /\ Holds(longer, t)
          BY <2>1, <3>1, <5>1 DEF start
        <5> QED BY <3>3, <5>1, <5>2, <2>1, StillHolds
      <4>2. CASE n \in 1 .. Len(higher[t])
        <5>1. longer = higher[t][n] /\ n \in DOMAIN higher[t]
          BY <2>3, <3>4, <4>2
        <5>2. Holds(longer, t) /\ longer.start \in Starts(t) /\ longer.start < LastStart(t)
          BY <1>13, <3>1, <5>1 DEF OverAreRight
        <5>3. longer.start # start
          BY <1>4, <3>2, <3>3, <5>2
        <5> QED BY <5>2, <5>3, StillHolds DEF start
      <4> QED BY <2>3, <4>1, <4>2
    <3>5. ASSUME NEW n \in DOMAIN higher'[t], n > 1
          PROVE  higher'[t][n - 1].start < higher'[t][n].start
      <4>1. CASE n = Len(higher[t]) + 1
        <5>0. n - 1 \in 1 .. Len(higher[t])
          BY <2>3, <3>5, <4>1
        <5>1. n - 1 \in DOMAIN higher[t] /\ higher'[t][n - 1] = higher[t][n - 1] /\ higher'[t][n] = over
          BY <2>3, <4>1, <5>0
        <5> QED BY <1>13, <2>1, <3>1, <5>1 DEF OverAreRight
      <4>2. CASE n \in 1 .. Len(higher[t])
        <5>1. /\ n \in DOMAIN higher[t] /\ higher'[t][n - 1] = higher[t][n - 1]
              /\ higher'[t][n] = higher[t][n]
          <6>1. n - 1 \in 1 .. Len(higher[t])
            BY <2>3, <3>5, <4>2
          <6> QED BY <2>3, <4>2, <6>1
        <5> QED BY <3>1, <3>5, <5>1 DEF OverAreRight
      <4>3. n = Len(higher[t]) + 1 \/ n \in 1 .. Len(higher[t])
        BY <2>3
      <4> QED BY <4>1, <4>2, <4>3
    <3>6. {higher'[t][n].start : n \in DOMAIN higher'[t]} = {s \in Starts(t)' : s < start}
      <4>1. \A n \in DOMAIN higher'[t] : higher'[t][n].start \in Starts(t) /\ higher'[t][n].start < start
        <5> SUFFICES ASSUME NEW n \in DOMAIN higher'[t]
                     PROVE  higher'[t][n].start \in Starts(t) /\ higher'[t][n].start < start
          OBVIOUS
        <5>1. PICK b : b = higher'[t][n]
          OBVIOUS
        <5>2. b.start \in Starts(t) /\ b.start # start
          BY <3>4, <5>1
        <5> QED BY <1>4, <3>2, <5>1, <5>2
      <4>2. ASSUME NEW s \in Starts(t) PROVE \E n \in DOMAIN higher'[t] : s = higher'[t][n].start
        <5>1. CASE s = LastStart(t)
          <6>1. Len(higher[t]) + 1 \in DOMAIN higher'[t]
            BY <2>3
          <6> QED BY <2>1, <2>3, <5>1, <6>1
        <5>2. CASE s # LastStart(t)
          <6>1. s < LastStart(t)
            BY <3>2, <3>3, <5>2
          <6>2. PICK n \in DOMAIN higher[t] : s = higher[t][n].start
            BY <1>13, <3>1, <6>1 DEF OverAreRight
          <6>3. n \in DOMAIN higher'[t] /\ higher'[t][n] = higher[t][n]
            <7>1. n \in 1 .. Len(higher[t])
              BY <2>3
            <7>2. n \in 1 .. Len(higher[t]) + 1
              BY <2>3, <7>1
            <7> QED BY <2>3, <7>1, <7>2
          <6> QED BY <6>2, <6>3
        <5> QED BY <5>1, <5>2
      <4>3. {s \in Starts(t)' : s < start} = Starts(t)
        <5>1. \A s \in Starts(t) : s < start
          BY <1>4, <3>2, <3>3
        <5> QED BY <1>4, <1>7, <5>1
      <4> QED BY <4>1, <4>2, <4>3
    <3>7. OverAreRight(t)'
      BY <1>5, <3>4, <3>5, <3>6 DEF OverAreRight
    <3>8. Holds(partial[t], t)'
      <4>1. OfBucket(t, start) = {}
        <5>1. \A n \in DOMAIN sequence : BucketStart(t, sequence[n].utc) \in Starts(t)
          BY DEF Starts
        <5> QED BY <1>4, <3>2, <3>3, <5>1 DEF OfBucket
      <4>2. Holds(Opened(start, bar), t)'
        BY <1>4, <4>1, OpenedHolds DEF start
      <4> QED BY <2>2, <4>2 DEF Holds
    <3> QED BY <3>7, <3>8
  <2> QED BY <1>5, <2>2, <2>3, <2>4, <2>5 DEF BucketInv
<1> QED BY <1>11, <1>12, <1>13

LEMMA InitInBuckets == Init => LevelsInv
<1> SUFFICES ASSUME Init PROVE LevelsInv
  OBVIOUS
<1>1. TimelineInv
  BY InitInTime
<1>2. /\ partial = [t \in Targets |-> None] /\ higher = [t \in Targets |-> <<>>] /\ sequence = <<>>
  BY DEF Init
<1>3. ASSUME NEW t \in Targets PROVE BucketInv(t)
  <2>1. partial[t] = None /\ higher[t] = <<>> /\ <<>> \in Seq(LongBars) /\ DOMAIN higher[t] = {}
    BY <1>2
  <2> QED BY <1>2, <2>1 DEF BucketInv, OverAreRight
<1> QED BY <1>1, <1>2, <1>3 DEF LevelsInv

LEMMA BucketsStay ==
  ASSUME NEW t, BucketInv(t), UNCHANGED <<sequence, partial, higher>>
  PROVE  BucketInv(t)'
<1>1. sequence' = sequence /\ partial' = partial /\ higher' = higher
  OBVIOUS
<1>2. \A b : Holds(b, t)' = Holds(b, t)
  BY <1>1 DEF Holds, OfBucket
<1>3. Starts(t)' = Starts(t) /\ LastStart(t)' = LastStart(t)
  BY <1>1 DEF Starts, LastStart
<1>4. Excused(t)' <=> Excused(t)
  BY <1>1 DEF Excused, TradedTwice, SecondPass
<1>5. OverAreRight(t) => OverAreRight(t)'
  BY <1>1, <1>2, <1>3 DEF OverAreRight
<1>6. Holds(partial[t], t) => Holds(partial[t], t)'
  BY <1>1 DEF Holds, OfBucket
<1> QED BY <1>1, <1>3, <1>4, <1>5, <1>6 DEF BucketInv

LEMMA LevelsGoOn ==
  ASSUME LevelsInv, BarCloses
  PROVE  LevelsInv'
<1> DEFINE bar == Resolved(now)
<1>1. TimelineInv /\ TimelineInv'
  BY TimelineGoesOn DEF LevelsInv
<1>2. bar \in M1Bars /\ sequence \in Seq(M1Bars)
  <2>1. now \in Instants
    BY <1>1 DEF TimelineInv
  <2> QED BY <1>1, <2>1, ResolvedIsABar DEF TimelineInv
<1>3. DOMAIN partial = Targets /\ DOMAIN higher = Targets /\ \A t \in Targets : BucketInv(t)
  BY DEF LevelsInv
<1>4. Increasing /\ Increasing'
  BY <1>1 DEF TimelineInv, Increasing
<1>5. CASE Follows(bar)
  <2>1. /\ sequence' = Append(sequence, bar)
        /\ partial' = [t \in Targets |-> Push(partial[t], t, bar)]
        /\ higher' = [t \in Targets |-> higher[t] \o Completed(partial[t], t, bar)]
    BY <1>5 DEF BarCloses, Append1
  <2> HIDE DEF bar
  <2>2. /\ Len(sequence) \in Nat /\ DOMAIN sequence = 1 .. Len(sequence)
        /\ DOMAIN sequence' = 1 .. Len(sequence) + 1 /\ sequence'[Len(sequence) + 1] = bar
        /\ \A n \in 1 .. Len(sequence) : sequence'[n] = sequence[n]
    BY <1>2, <2>1, AppendedInTime
  <2>3. \A n \in DOMAIN sequence : sequence[n].utc < bar.utc
    <3> SUFFICES ASSUME NEW n \in DOMAIN sequence PROVE sequence[n].utc < bar.utc
      OBVIOUS
    <3> DEFINE last == Len(sequence) + 1
    <3>1. n \in DOMAIN sequence' /\ last \in DOMAIN sequence' /\ n < last
      BY <2>2
    <3>2. sequence'[n].utc < sequence'[last].utc
      BY <1>4, <3>1 DEF Increasing
    <3> QED BY <2>2, <3>2
  <2>4. ASSUME NEW t \in Targets PROVE BucketInv(t)'
    <3>1. /\ partial'[t] = Push(partial[t], t, bar)
          /\ higher'[t] = higher[t] \o Completed(partial[t], t, bar)
      BY <2>1
    <3> QED BY <1>2, <1>3, <1>4, <2>1, <2>3, <3>1, BucketsGoOn
  <2> QED BY <1>1, <2>1, <2>4 DEF LevelsInv
<1>6. CASE ~Follows(bar)
  <2>1. UNCHANGED <<sequence, partial, higher>>
    BY <1>6 DEF BarCloses
  <2>2. \A t \in Targets : BucketInv(t)'
    BY <1>3, <2>1, BucketsStay
  <2> QED BY <1>1, <1>3, <2>1, <2>2 DEF LevelsInv
<1> QED BY <1>5, <1>6

LEMMA LevelsStay ==
  ASSUME LevelsInv, UNCHANGED <<stream, python>>
  PROVE  LevelsInv'
<1>1. UNCHANGED <<sequence, partial, higher>>
  BY DEF python
<1>2. TimelineInv'
  BY TimelineStays DEF LevelsInv
<1> QED BY <1>1, <1>2, BucketsStay DEF LevelsInv

LEMMA LevelsAlways == Spec => []LevelsInv
<1>1. LevelsInv /\ [Next]_vars => LevelsInv'
  <2> SUFFICES ASSUME LevelsInv, [Next]_vars PROVE LevelsInv'
    OBVIOUS
  <2>1. CASE BarCloses
    BY <2>1, LevelsGoOn
  <2>2. CASE Scan
    BY <2>2, LevelsStay DEF Scan
  <2>3. CASE Reload
    BY <2>3, LevelsStay DEF Reload
  <2>4. CASE UNCHANGED vars
    BY <2>4, LevelsStay DEF vars
  <2> QED BY <2>1, <2>2, <2>3, <2>4 DEF Next
<1> QED BY <1>1, InitInBuckets, PTL DEF Spec

\* For every clock, stream and length, a bucket that is over has one longer bar, which
\* stands for all of its bars, but in a repeated hour longer than it (aggregate.py:13).
THEOREM BucketsAreWhole == Spec => []LongerBarsAreTheirBuckets
<1>1. LevelsInv => LongerBarsAreTheirBuckets
  <2> SUFFICES ASSUME LevelsInv, NEW t \in Targets, ~Excused(t)
               PROVE  /\ \A n \in DOMAIN higher[t] : n > 1 => higher[t][n - 1].start < higher[t][n].start
                      /\ \A n \in DOMAIN higher[t] : StandsFor(higher[t][n], t)
                      /\ sequence # <<>> =>
                           {higher[t][n].start : n \in DOMAIN higher[t]}
                           = {s \in Starts(t) : s < BucketStart(t, sequence[Len(sequence)].utc)}
    BY DEF LongerBarsAreTheirBuckets, Excused
  <2>1. OverAreRight(t) /\ higher[t] \in Seq(LongBars) /\ sequence \in Seq(M1Bars)
    BY DEF LevelsInv, BucketInv, TimelineInv
  <2>2. ASSUME NEW n \in DOMAIN higher[t] PROVE StandsFor(higher[t][n], t)
    BY <2>1, HoldingStands DEF OverAreRight
  <2> QED BY <2>1, <2>2 DEF OverAreRight, LastStart
<1> QED BY <1>1, LevelsAlways, PTL


-----------------------------------------------------------------------------
(* Sessions                                                                *)

LEMMA ReadingOf ==
  ASSUME NEW k \in Int, NEW s \in 0 .. DayLength - 1
  PROVE  /\ k * DayLength + s \in Int
         /\ TimeOfDay(k * DayLength + s) = s /\ DateOf(k * DayLength + s) = k
<1> DEFINE d == DayLength
           x == k * d + s
<1>1. d \in Int /\ d > 0 /\ s \in Int /\ 0 <= s /\ s < d
  BY ClockTypes
<1> HIDE DEF d
<1>2. k * d = d * k /\ k * d \in Int
  BY <1>1
<1>3. x \in Int /\ x = d * k + s
  BY <1>1, <1>2
<1> HIDE DEF x
<1>4. k = x \div d /\ s = x % d
  BY <1>1, <1>3, SMT
<1>5. TimeOfDay(x) = s /\ DateOf(x) = k
  BY <1>4 DEF TimeOfDay, DateOf, d
<1> QED BY <1>3, <1>5 DEF x, d

LEMMA DateAndTime ==
  ASSUME NEW w \in Int
  PROVE  DateOf(w) \in Int /\ TimeOfDay(w) \in 0 .. DayLength - 1 /\ w = DateOf(w) * DayLength + TimeOfDay(w)
BY ClockTypes, Divided DEF DateOf, TimeOfDay

LEMMA WindowTypes ==
  ASSUME NEW i \in DOMAIN Windows
  PROVE  /\ DOMAIN Windows \subseteq Nat
         /\ Windows[i].start \in 0 .. DayLength - 1 /\ Windows[i].end \in 0 .. DayLength - 1
         /\ Windows[i] # None /\ Windows[i].name # None
BY WindowAssumption

FirstReading(window, wall) == StartDate(window, wall) * DayLength + window.start

LastDate(window, wall) ==
  IF window.start > window.end THEN StartDate(window, wall) + 1 ELSE StartDate(window, wall)

EndReading(window, wall) == LastDate(window, wall) * DayLength + window.end

\* A session that is open began at or before the reading, ends after it, and is open at
\* every reading between the two.
LEMMA SessionAround ==
  ASSUME NEW i \in DOMAIN Windows, NEW w \in Int, NEW window, window = Windows[i],
         NEW from, from = FirstReading(window, w), NEW to, to = EndReading(window, w),
         Covers(window, TimeOfDay(w))
  PROVE  /\ from \in Int /\ to \in Int /\ from <= w /\ w < to
         /\ TimeOfDay(from) = window.start /\ TimeOfDay(to) = window.end
         /\ \A x \in Int : from <= x /\ x < to => Covers(window, TimeOfDay(x))
<1> DEFINE start == window.start
           end == window.end
           date == StartDate(window, w)
           d == DayLength
<1>1. start \in 0 .. DayLength - 1 /\ end \in 0 .. DayLength - 1
  BY WindowTypes
<1>2. DateOf(w) \in Int /\ TimeOfDay(w) \in 0 .. DayLength - 1 /\ w = DateOf(w) * DayLength + TimeOfDay(w)
  BY DateAndTime
<1>3. date \in Int
  BY <1>2 DEF StartDate
<1>4. from = date * DayLength + start
  BY DEF FirstReading
<1>5. from \in Int /\ TimeOfDay(from) = start
  BY <1>1, <1>3, <1>4, ReadingOf
<1>6. d \in Nat \ {0} /\ d \in Int
  BY ClockTypes
<1>7. DateOf(w) * d \in Int /\ (DateOf(w) - 1) * d = DateOf(w) * d - d
  BY <1>2, <1>6
<1>8. date * d \in Int /\ (date + 1) * d = date * d + d
  BY <1>3, <1>6
<1>9. CASE start <= end
  <2>1. date = DateOf(w) /\ ~(start > end)
    BY <1>1, <1>9 DEF StartDate
  <2>2. to = date * DayLength + end
    BY <2>1 DEF EndReading, LastDate
  <2>3. to \in Int /\ TimeOfDay(to) = end
    BY <1>1, <1>3, <2>2, ReadingOf
  <2>4. start <= TimeOfDay(w) /\ TimeOfDay(w) < end
    BY <1>9 DEF Covers
  <2>5. from <= w /\ w < to
    BY <1>1, <1>2, <1>4, <1>7, <2>1, <2>2, <2>4
  <2>6. ASSUME NEW x \in Int, from <= x, x < to PROVE Covers(window, TimeOfDay(x))
    <3> DEFINE s == x - date * d
    <3>1. s \in 0 .. DayLength - 1 /\ x = date * DayLength + s /\ start <= s /\ s < end
      BY <1>1, <1>4, <1>6, <1>8, <2>2, <2>6
    <3> HIDE DEF s
    <3>2. TimeOfDay(x) = s
      BY <1>3, <3>1, ReadingOf
    <3> QED BY <1>9, <3>1, <3>2 DEF Covers
  <2> QED BY <1>5, <2>3, <2>5, <2>6
<1>10. CASE start > end
  <2>1. to = (date + 1) * DayLength + end
    BY <1>10 DEF EndReading, LastDate
  <2>2. to \in Int /\ TimeOfDay(to) = end
    <3>1. date + 1 \in Int
      BY <1>3
    <3> QED BY <1>1, <3>1, <2>1, ReadingOf
  <2>3. from <= w /\ w < to
    <3>1. CASE TimeOfDay(w) < start
      <4>1. date = DateOf(w) - 1 /\ TimeOfDay(w) < end
        BY <1>1, <1>2, <1>10, <3>1 DEF StartDate, Covers
      <4>2. date + 1 = DateOf(w)
        BY <4>1, <1>2
      <4> QED BY <1>1, <1>2, <1>4, <1>6, <1>7, <2>1, <4>1, <4>2
    <3>2. CASE ~(TimeOfDay(w) < start)
      <4>1. date = DateOf(w)
        BY <1>10, <3>2 DEF StartDate
      <4> QED BY <1>1, <1>2, <1>4, <1>6, <1>8, <2>1, <3>2, <4>1
    <3> QED BY <3>1, <3>2
  <2>4. ASSUME NEW x \in Int, from <= x, x < to PROVE Covers(window, TimeOfDay(x))
    <3>1. CASE x < date * d + d
      <4> DEFINE s == x - date * d
      <4>1. s \in 0 .. DayLength - 1 /\ x = date * DayLength + s /\ start <= s
        BY <1>1, <1>4, <1>6, <1>8, <2>4, <3>1
      <4> HIDE DEF s
      <4>2. TimeOfDay(x) = s
        BY <1>3, <4>1, ReadingOf
      <4> QED BY <1>1, <1>10, <4>1, <4>2 DEF Covers
    <3>2. CASE date * d + d <= x
      <4> DEFINE s == x - (date + 1) * d
      <4>1. s \in 0 .. DayLength - 1 /\ x = (date + 1) * DayLength + s /\ s < end
        BY <1>1, <1>4, <1>6, <1>8, <2>1, <2>4, <3>2
      <4> HIDE DEF s
      <4>2. TimeOfDay(x) = s
        <5>1. date + 1 \in Int
          BY <1>3
        <5> QED BY <4>1, <5>1, ReadingOf
      <4> QED BY <1>1, <1>10, <4>1, <4>2 DEF Covers
    <3> QED BY <1>8, <1>6, <3>1, <3>2
  <2> QED BY <1>5, <2>2, <2>3, <2>4
<1> QED BY <1>1, <1>9, <1>10

IsOpen(i, w) == Covers(Windows[i], TimeOfDay(w))

LEMMA OneSession ==
  ASSUME NEW w \in Int, NEW i \in DOMAIN Windows, IsOpen(i, w)
  PROVE  SessionAt(w) = Windows[i] /\ SessionAt(w) # None /\ NameOf(SessionAt(w)) = Windows[i].name
<1> DEFINE open == {j \in DOMAIN Windows : Covers(Windows[j], TimeOfDay(w))}
<1>1. TimeOfDay(w) \in 0 .. DayLength - 1
  BY DateAndTime
<1>2. ASSUME NEW j \in open PROVE j = i
  <2>1. j \in DOMAIN Windows /\ Covers(Windows[j], TimeOfDay(w)) /\ Covers(Windows[i], TimeOfDay(w))
    BY DEF IsOpen
  <2>2. \A k \in DOMAIN Windows \ {i} :
          \A time \in 0 .. DayLength - 1 : ~(Covers(Windows[i], time) /\ Covers(Windows[k], time))
    BY WindowAssumption
  <2> QED BY <1>1, <2>1, <2>2
<1>3. i \in open
  BY DEF IsOpen
<1>4. open = {i}
  BY <1>2, <1>3
<1>5. i \in Int
  BY WindowTypes
<1> HIDE DEF open
<1>6. Min(open) = i
  BY <1>4, <1>5, MinIs
<1>7. SessionAt(w) = Windows[i]
  BY <1>4, <1>6 DEF SessionAt, open
<1> QED BY <1>7, WindowTypes DEF NameOf

LEMMA NoSession ==
  ASSUME NEW w \in Int, \A i \in DOMAIN Windows : ~IsOpen(i, w)
  PROVE  SessionAt(w) = None
BY DEF IsOpen, SessionAt

LEMMA SameSession ==
  ASSUME NEW v \in Int, NEW w \in Int, \A i \in DOMAIN Windows : IsOpen(i, v) <=> IsOpen(i, w)
  PROVE  SessionAt(v) = SessionAt(w)
<1>1. CASE \E i \in DOMAIN Windows : IsOpen(i, v)
  BY <1>1, OneSession
<1>2. CASE \A i \in DOMAIN Windows : ~IsOpen(i, v)
  BY <1>2, NoSession
<1> QED BY <1>1, <1>2

\* A reading at which no session begins or ends.
Within(w) == \A i \in DOMAIN Windows : TimeOfDay(w) \notin {Windows[i].start, Windows[i].end}

\* A reading New York's clock shows exactly once, or for the first time.
Plain(w) == w \notin (Skipped .. Skipped + Shift - 1) \cup (Repeats + 1 .. Repeats + Shift - 1)

LEMMA EdgesArePlain ==
  ASSUME NEW w \in Int, ~Plain(w)
  PROVE  Within(w)
BY WindowAssumption DEF Plain, Within

\* What is open stays open until an edge.
LEMMA NothingOpens ==
  ASSUME NEW v \in Int, NEW w \in Int, v <= w, \A x \in v + 1 .. w : Within(x)
  PROVE  SessionAt(v) = SessionAt(w)
<1>1. ASSUME NEW i \in DOMAIN Windows, IsOpen(i, v)
      PROVE  IsOpen(i, w)
  <2>1. PICK to \in Int : /\ v < to /\ TimeOfDay(to) = Windows[i].end
                          /\ \A x \in Int : v <= x /\ x < to => Covers(Windows[i], TimeOfDay(x))
    <3> DEFINE from == FirstReading(Windows[i], v)
               end == EndReading(Windows[i], v)
    <3>1. /\ from \in Int /\ end \in Int /\ from <= v /\ v < end
          /\ TimeOfDay(end) = Windows[i].end
          /\ \A x \in Int : from <= x /\ x < end => Covers(Windows[i], TimeOfDay(x))
      BY <1>1, SessionAround DEF IsOpen
    <3> HIDE DEF from, end
    <3>2. \A x \in Int : v <= x => from <= x
      BY <3>1
    <3> QED BY <3>1, <3>2
  <2>2. to \notin v + 1 .. w
    BY <2>1 DEF Within
  <2>3. w < to
    BY <2>1, <2>2
  <2> QED BY <2>1, <2>3 DEF IsOpen
<1>2. ASSUME NEW i \in DOMAIN Windows, IsOpen(i, w)
      PROVE  IsOpen(i, v)
  <2>1. PICK from \in Int : /\ from <= w /\ TimeOfDay(from) = Windows[i].start
                            /\ \A x \in Int : from <= x /\ x <= w => Covers(Windows[i], TimeOfDay(x))
    <3> DEFINE first == FirstReading(Windows[i], w)
               end == EndReading(Windows[i], w)
    <3>1. /\ first \in Int /\ end \in Int /\ first <= w /\ w < end
          /\ TimeOfDay(first) = Windows[i].start
          /\ \A x \in Int : first <= x /\ x < end => Covers(Windows[i], TimeOfDay(x))
      BY <1>2, SessionAround DEF IsOpen
    <3> HIDE DEF first, end
    <3>2. \A x \in Int : x <= w => x < end
      BY <3>1
    <3> QED BY <3>1, <3>2
  <2>2. from \notin v + 1 .. w
    BY <2>1 DEF Within
  <2>3. from <= v
    BY <2>1, <2>2
  <2> QED BY <2>1, <2>3 DEF IsOpen
<1> QED BY <1>1, <1>2, SameSession

\* A window is not open before the reading it begins at.
LEMMA ShutBefore ==
  ASSUME NEW i \in DOMAIN Windows, NEW w \in Int, TimeOfDay(w) = Windows[i].start
  PROVE  ~IsOpen(i, w - 1)
<1> DEFINE start == Windows[i].start
           end == Windows[i].end
           d == DayLength
           k == DateOf(w)
<1>1. start \in 0 .. d - 1 /\ end \in 0 .. d - 1
  BY WindowTypes
<1>2. d \in Nat \ {0} /\ d \in Int
  BY ClockTypes
<1>3. k \in Int /\ w = k * d + start
  BY DateAndTime
<1>4. CASE start > 0
  <2>1. start - 1 \in 0 .. DayLength - 1 /\ k * d \in Int /\ w - 1 = k * d + (start - 1)
    <3> DEFINE p == k * d
    <3>1. p \in Int /\ w = p + start
      BY <1>2, <1>3
    <3> HIDE DEF p
    <3>2. start - 1 \in 0 .. DayLength - 1 /\ w - 1 = p + (start - 1)
      BY <1>1, <1>2, <1>4, <3>1
    <3> QED BY <3>1, <3>2 DEF p
  <2>2. TimeOfDay(w - 1) = start - 1
    <3> HIDE DEF k
    <3> QED BY <1>3, <2>1, ReadingOf
  <2> QED BY <1>1, <1>2, <1>4, <2>2 DEF IsOpen, Covers
<1>5. CASE start = 0
  <2>1. (k - 1) * d = k * d - d /\ k * d \in Int /\ k - 1 \in Int
    BY <1>2, <1>3
  <2>2. w - 1 = (k - 1) * d + (d - 1) /\ d - 1 \in 0 .. DayLength - 1
    BY <1>2, <1>3, <1>5, <2>1
  <2>3. TimeOfDay(w - 1) = d - 1
    <3> HIDE DEF k
    <3> QED BY <2>1, <2>2, ReadingOf
  <2> QED BY <1>1, <1>2, <1>5, <2>3 DEF IsOpen, Covers
<1> QED BY <1>1, <1>4, <1>5

\* An instant is past a reading the clock shows once exactly when its own reading is.
LEMMA PlainFits ==
  ASSUME NEW r \in Int, Plain(r), NEW u \in Int
  PROVE  NyUtc(r) <= u <=> r <= NyWall(u)
<1> DEFINE w == NyWall(u)
           x == NyUtc(r)
           spring == Spring["US"]
           fall == Fall["US"]
<1>1. /\ w \in Int /\ Skipped \in Int /\ Repeats \in Int /\ Skipped + Shift < Repeats
      /\ u < spring => w = u - NyBehind /\ w < Skipped
      /\ spring <= u /\ u < fall =>
           w = u - NyBehind + Shift /\ Skipped + Shift <= w /\ w < Repeats + Shift
      /\ fall <= u => w = u - NyBehind /\ Repeats <= w
      /\ Skipped = spring - NyBehind /\ Repeats = fall - NyBehind
  BY Readings
<1>2. /\ x \in Int
      /\ r < Skipped + Shift => x = r + NyBehind
      /\ Skipped + Shift <= r /\ r < Repeats + Shift => x = r + NyBehind - Shift
      /\ Repeats + Shift <= r => x = r + NyBehind
  BY Instant
<1>3. Shift \in Nat \ {0} /\ NyBehind \in Int /\ spring \in Int /\ fall \in Int
  BY ClockTypes
<1> HIDE DEF w, x, spring, fall
<1>4. x <= u <=> r <= w
  <2>1. CASE r < Skipped
    BY <1>1, <1>2, <1>3, <2>1
  <2>2. CASE Skipped + Shift <= r /\ r <= Repeats
    BY <1>1, <1>2, <1>3, <2>2
  <2>3. CASE Repeats + Shift <= r
    BY <1>1, <1>2, <1>3, <2>3
  <2>4. \/ r < Skipped
        \/ Skipped + Shift <= r /\ r <= Repeats
        \/ Repeats + Shift <= r
    BY <1>1, <1>3 DEF Plain
  <2> QED BY <2>1, <2>2, <2>3, <2>4
<1> QED BY <1>4 DEF w, x

\* The bounds of an open session, as readings and as instants.
LEMMA BoundsFit ==
  ASSUME NEW u \in Int, NEW w, w = NyWall(u), NEW i \in DOMAIN Windows, IsOpen(i, w),
         NEW from, from = FirstReading(Windows[i], w), NEW to, to = EndReading(Windows[i], w)
  PROVE  /\ w \in Int /\ from \in Int /\ to \in Int /\ from <= w /\ w < to
         /\ TimeOfDay(from) = Windows[i].start
         /\ \A x \in Int : from <= x /\ x < to => IsOpen(i, x)
         /\ SessionBounds(Windows[i], w) = [from |-> NyUtc(from), to |-> NyUtc(to)]
         /\ Plain(from) /\ Plain(to)
         /\ NyUtc(from) <= u /\ u < NyUtc(to)
<1>1. w \in Int
  BY Readings
<1>2. /\ from \in Int /\ to \in Int /\ from <= w /\ w < to
      /\ TimeOfDay(from) = Windows[i].start /\ TimeOfDay(to) = Windows[i].end
      /\ \A x \in Int : from <= x /\ x < to => Covers(Windows[i], TimeOfDay(x))
  BY <1>1, SessionAround DEF IsOpen
<1>3. Plain(from) /\ Plain(to)
  <2>1. ~Within(from) /\ ~Within(to)
    BY <1>2 DEF Within
  <2> QED BY <1>2, <2>1, EdgesArePlain
<1>4. NyUtc(from) \in Int /\ NyUtc(to) \in Int
  BY <1>2, Instant
<1>5. NyUtc(from) <= u /\ ~(NyUtc(to) <= u)
  <2>1. NyUtc(from) <= u <=> from <= w
    BY <1>2, <1>3, PlainFits
  <2>2. NyUtc(to) <= u <=> to <= w
    BY <1>2, <1>3, PlainFits
  <2> QED BY <1>1, <1>2, <2>1, <2>2
<1>6. SessionBounds(Windows[i], w) = [from |-> NyUtc(from), to |-> NyUtc(to)]
  BY DEF SessionBounds, FirstReading, EndReading, LastDate
<1> QED BY <1>1, <1>2, <1>3, <1>4, <1>5, <1>6 DEF IsOpen

\* From one instant to the next New York's clock goes on by one, but where an hour is skipped
\* or shown again.
LEMMA ClockSteps ==
  ASSUME NEW u \in Int, NEW w, w = NyWall(u), NEW v, v = NyWall(u - 1)
  PROVE  /\ w \in Int /\ v \in Int
         /\ \/ v = w - 1
            \/ v = Skipped - 1 /\ w = Skipped + Shift
            \/ v = Repeats + Shift - 1 /\ w = Repeats
<1> DEFINE spring == Spring["US"]
           fall == Fall["US"]
<1>1. /\ w \in Int /\ Skipped \in Int /\ Repeats \in Int
      /\ u < spring => w = u - NyBehind
      /\ spring <= u /\ u < fall => w = u - NyBehind + Shift
      /\ fall <= u => w = u - NyBehind
      /\ Skipped = spring - NyBehind /\ Repeats = fall - NyBehind
  BY Readings
<1>2. u - 1 \in Int
  OBVIOUS
<1>3. /\ v \in Int
      /\ u - 1 < spring => v = u - 1 - NyBehind
      /\ spring <= u - 1 /\ u - 1 < fall => v = u - 1 - NyBehind + Shift
      /\ fall <= u - 1 => v = u - 1 - NyBehind
  BY <1>2, Readings
<1>4. /\ spring \in Int /\ fall \in Int /\ NyBehind \in Int /\ Shift \in Nat \ {0}
      /\ spring + Shift < fall
  BY ClockTypes
<1> HIDE DEF spring, fall
<1>5. CASE u = spring
  BY <1>1, <1>3, <1>4, <1>5
<1>6. CASE u = fall
  BY <1>1, <1>3, <1>4, <1>6
<1>7. CASE u # spring /\ u # fall
  BY <1>1, <1>3, <1>4, <1>7
<1> QED BY <1>1, <1>3, <1>5, <1>6, <1>7

Changes(u) == Context(u).session # Context(u - 1).session /\ Context(u).session # None

\* A session is said to begin at an instant exactly if the one before it has another, and
\* it is the one said to end.
LEMMA BeginsWhenItChanges ==
  ASSUME NEW u \in Int
  PROVE  /\ Context(u).transition <=> Changes(u)
         /\ Context(u).transition => Context(u).previous = Context(u - 1).session
<1> DEFINE w == NyWall(u)
           v == NyWall(u - 1)
<1>0. Skipped \in Int /\ Repeats \in Int /\ Shift \in Nat \ {0} /\ Skipped + Shift < Repeats
  BY Readings, ClockTypes
<1>1. w \in Int /\ v \in Int
  BY ClockSteps
<1>2. /\ Context(u).session = NameOf(SessionAt(w)) /\ Context(u - 1).session = NameOf(SessionAt(v))
      /\ SessionAt(w) # None => Context(u).previous = NameOf(SessionAt(w - 1))
      /\ Context(u).transition <=> (SessionAt(w) # None /\ SessionBounds(SessionAt(w), w).from = u)
  BY DEF Context
<1> HIDE DEF w, v
<1>3. CASE \A i \in DOMAIN Windows : ~IsOpen(i, w)
  <2>1. SessionAt(w) = None
    BY <1>1, <1>3, NoSession
  <2>2. Context(u).session = None
    BY <1>2, <2>1 DEF NameOf
  <2> QED BY <1>2, <2>1, <2>2 DEF Changes
<1>4. CASE \E i \in DOMAIN Windows : IsOpen(i, w)
  <2>1. PICK i \in DOMAIN Windows : IsOpen(i, w)
    BY <1>4
  <2> DEFINE from == FirstReading(Windows[i], w)
             to == EndReading(Windows[i], w)
  <2>2. /\ from \in Int /\ to \in Int /\ from <= w /\ w < to
        /\ TimeOfDay(from) = Windows[i].start
        /\ \A x \in Int : from <= x /\ x < to => IsOpen(i, x)
        /\ SessionBounds(Windows[i], w).from = NyUtc(from)
        /\ Plain(from) /\ NyUtc(from) <= u
    BY <2>1, BoundsFit DEF w
  <2> HIDE DEF from, to
  <2>3. /\ SessionAt(w) = Windows[i] /\ SessionAt(w) # None /\ Context(u).session = Windows[i].name
        /\ Context(u).session # None
    BY <1>1, <1>2, <2>1, OneSession, WindowTypes
  <2>4. Context(u).transition <=> v < from
    <3>1. NyUtc(from) \in Int
      BY <2>2, Instant
    <3>2. NyUtc(from) <= u - 1 <=> from <= v
      BY <2>2, PlainFits DEF v
    <3>3. NyUtc(from) = u <=> ~(NyUtc(from) <= u - 1)
      BY <2>2, <3>1
    <3>4. Context(u).transition <=> NyUtc(from) = u
      BY <1>2, <2>2, <2>3
    <3>5. v < from <=> ~(from <= v)
      BY <1>1, <2>2
    <3> QED BY <3>2, <3>3, <3>4, <3>5
  <2>5. ASSUME from <= v
        PROVE  SessionAt(v) = SessionAt(w)
    <3>1. CASE v < to
      <4>1. IsOpen(i, v)
        BY <1>1, <2>2, <2>5, <3>1
      <4> QED BY <1>1, <2>3, <4>1, OneSession
    <3>2. CASE to <= v
      <4>1. w < v
        BY <1>1, <2>2, <3>2
      <4>2. w = Repeats /\ v = Repeats + Shift - 1
        <5>1. \/ v = w - 1
              \/ v = Skipped - 1 /\ w = Skipped + Shift
              \/ v = Repeats + Shift - 1 /\ w = Repeats
          BY ClockSteps DEF w, v
        <5> QED BY <1>0, <1>1, <4>1, <5>1
      <4>3. \A x \in w + 1 .. v : Within(x)
        BY <1>0, <1>1, <4>2, EdgesArePlain DEF Plain
      <4> QED BY <1>1, <4>1, <4>3, NothingOpens
    <3> QED BY <1>1, <2>2, <3>1, <3>2
  <2>6. ASSUME v < from
        PROVE  SessionAt(v) = SessionAt(w - 1) /\ ~IsOpen(i, w - 1)
    <3>1. v < w
      BY <1>1, <2>2, <2>6
    <3>2. \/ v = w - 1
          \/ v = Skipped - 1 /\ w = Skipped + Shift
      <4>1. \/ v = w - 1
            \/ v = Skipped - 1 /\ w = Skipped + Shift
            \/ v = Repeats + Shift - 1 /\ w = Repeats
        BY ClockSteps DEF w, v
      <4> QED BY <1>0, <1>1, <3>1, <4>1
    <3>3. from = w /\ SessionAt(v) = SessionAt(w - 1)
      <4>1. CASE v = w - 1
        BY <1>1, <2>2, <2>6, <4>1
      <4>2. CASE v = Skipped - 1 /\ w = Skipped + Shift
        <5>1. from = w
          BY <1>0, <1>1, <2>2, <2>6, <4>2 DEF Plain
        <5>2. \A x \in v + 1 .. w - 1 : Within(x)
          BY <1>0, <1>1, <4>2, EdgesArePlain DEF Plain
        <5>3. v <= w - 1 /\ w - 1 \in Int
          BY <1>1, <3>1
        <5> QED BY <1>1, <5>1, <5>2, <5>3, NothingOpens
      <4> QED BY <3>2, <4>1, <4>2
    <3> QED BY <1>1, <2>2, <3>3, ShutBefore
  <2>7. CASE from <= v
    BY <1>1, <1>2, <2>2, <2>4, <2>5, <2>7 DEF Changes
  <2>8. CASE v < from
    <3>1. SessionAt(v) # Windows[i] /\ NameOf(SessionAt(v)) # Windows[i].name
      <4>1. w - 1 \in Int
        BY <1>1
      <4>2. CASE \A j \in DOMAIN Windows : ~IsOpen(j, w - 1)
        <5>1. SessionAt(v) = None
          BY <2>6, <2>8, <4>1, <4>2, NoSession
        <5> QED BY <5>1, WindowTypes DEF NameOf
      <4>3. CASE \E j \in DOMAIN Windows : IsOpen(j, w - 1)
        <5>1. PICK j \in DOMAIN Windows : IsOpen(j, w - 1)
          BY <4>3
        <5>2. j # i
          BY <2>6, <2>8, <5>1
        <5>3. SessionAt(v) = Windows[j] /\ NameOf(SessionAt(v)) = Windows[j].name
          BY <2>6, <2>8, <4>1, <5>1, OneSession
        <5>4. Windows[i].name # Windows[j].name
          BY <5>2, WindowAssumption
        <5> QED BY <5>3, <5>4
      <4> QED BY <4>2, <4>3
    <3> QED BY <1>2, <2>3, <2>4, <2>6, <2>8, <3>1 DEF Changes
  <2> QED BY <1>1, <2>2, <2>7, <2>8
<1> QED BY <1>3, <1>4

LEMMA SessionsHold == TimelineInv => SessionsFitTheStream
<1> SUFFICES ASSUME TimelineInv
             PROVE  \A n \in DOMAIN sequence :
                      /\ Context(sequence[n].utc).session # None =>
                           /\ Context(sequence[n].utc).bounds.from <= sequence[n].utc
                           /\ sequence[n].utc < Context(sequence[n].utc).bounds.to
                      /\ (n > 1 /\ sequence[n].utc = sequence[n - 1].utc + 1) =>
                           /\ Context(sequence[n].utc).transition <=>
                                (n \in BoundaryPairs(sequence) /\ Context(sequence[n].utc).session # None)
                           /\ Context(sequence[n].utc).transition =>
                                Context(sequence[n].utc).previous = Context(sequence[n - 1].utc).session
  <2> DEFINE context == [n \in DOMAIN sequence |-> Context(sequence[n].utc)]
  <2>1. DOMAIN sequence = 1 .. Len(sequence) /\ Len(sequence) \in Nat
    BY DEF TimelineInv
  <2>2. \A n \in DOMAIN sequence : context[n] = Context(sequence[n].utc)
    OBVIOUS
  <2>3. \A n \in DOMAIN sequence : n > 1 => n - 1 \in DOMAIN sequence
    BY <2>1
  <2> QED BY <2>2, <2>3 DEF SessionsFitTheStream
<1> TAKE n \in DOMAIN sequence
<1> DEFINE u == sequence[n].utc
<1>0. sequence \in Seq(M1Bars)
  BY DEF TimelineInv
<1>1. u \in Int /\ DOMAIN sequence = 1 .. Len(sequence) /\ Len(sequence) \in Nat
  <2>1. DOMAIN sequence = 1 .. Len(sequence) /\ Len(sequence) \in Nat /\ sequence[n] \in M1Bars
    BY <1>0
  <2> QED BY <2>1 DEF M1Bars
<1>2. Context(u).session # None => Context(u).bounds.from <= u /\ u < Context(u).bounds.to
  <2> HAVE Context(u).session # None
  <2> DEFINE w == NyWall(u)
  <2>1. w \in Int
    BY <1>1, Readings
  <2>2. Context(u).session = NameOf(SessionAt(w))
        /\ (SessionAt(w) # None => Context(u).bounds = SessionBounds(SessionAt(w), w))
    BY DEF Context
  <2>3. SessionAt(w) # None
    BY <2>2 DEF NameOf
  <2>4. PICK i \in DOMAIN Windows : IsOpen(i, w)
    BY <2>1, <2>3, NoSession
  <2>5. SessionAt(w) = Windows[i]
    BY <2>1, <2>4, OneSession
  <2>6. SessionBounds(Windows[i], w).from <= u /\ u < SessionBounds(Windows[i], w).to
    BY <1>1, <2>4, BoundsFit
  <2> QED BY <2>2, <2>3, <2>5, <2>6
<1>3. ASSUME n > 1, u = sequence[n - 1].utc + 1
      PROVE  /\ Context(u).transition <=> (n \in BoundaryPairs(sequence) /\ Context(u).session # None)
             /\ Context(u).transition => Context(u).previous = Context(sequence[n - 1].utc).session
  <2>1. n - 1 \in DOMAIN sequence /\ n \in 2 .. Len(sequence)
    BY <1>1, <1>3
  <2>2. sequence[n - 1].utc = u - 1
    <3>1. sequence[n - 1].utc \in Int
      <4>1. sequence[n - 1] \in M1Bars
        BY <1>0, <2>1
      <4> QED BY <4>1 DEF M1Bars
    <3> QED BY <1>1, <1>3, <3>1
  <2>3. n \in BoundaryPairs(sequence) <=> Context(u).session # Context(u - 1).session
    BY <2>1, <2>2 DEF BoundaryPairs
  <2> HIDE DEF u
  <2> QED BY <1>1, <2>2, <2>3, BeginsWhenItChanges DEF Changes
<1> QED BY <1>2, <1>3

LEMMA TimelineIsInTime == TimelineInv => TimelineIsTrue /\ ClocksAgree /\ SessionsFitTheStream
BY TimelineHolds, SessionsHold

\* For every clock, every profile that was made of a measurement of it, every list of sessions
\* and every stream: a bar that counts as valid stands at the instant it traded if the profile
\* names the broker's calendar, and no more than an hour from it if it names another
\* (probe.py:353); none is missing but one the broker's clock had shown before or a wrong
\* profile says it skipped;
\* both programs read the clock alike (brokers.py:215, VO_ReferenceLevelsMath.mqh:177); and a
\* bar lies within the bounds of its session, which begins exactly where the bars change
\* session (sessions.py:133, engine.py:105).
THEOREM TimeIsKept == Spec => [](TimelineIsTrue /\ ClocksAgree /\ SessionsFitTheStream)
BY TimelineAlways, TimelineIsInTime, PTL
=============================================================================
