------------------------- MODULE MCReferenceLevels --------------------------
EXTENDS ReferenceLevels

MCSpring == [c \in {"US", "EU"} |-> IF c = "US" THEN 16 ELSE 26]
MCFall == [c \in {"US", "EU"} |-> IF c = "US" THEN 52 ELSE 38]

MCWindows == << [name |-> "ASIA", start |-> 9, end |-> 5],
                [name |-> "LONDON", start |-> 5, end |-> 6],
                [name |-> "NY", start |-> 6, end |-> 8] >>
MCRth == [name |-> "RTH", start |-> 6, end |-> 8]

\* Prices that move every bar, with extremes inside and outside the bodies.
MCPrices ==
  [i \in 0 .. 77 |->
     LET open == 10 + ((i * 5) % 7)
         close == 10 + ((i * 3) % 11)
     IN [open |-> open, close |-> close,
         high |-> Max({open, close}) + (i % 3), low |-> Min({open, close}) - (i % 2)]]

\* Always open; shut over both changes of New York's clock; shut over a settlement, and
\* for more than a day; shut in the first pass of either clock's repeated hour.
MCClosures == {{}, (14 .. 22) \cup (50 .. 57), (19 .. 23) \cup (54 .. 69), (34 .. 37) \cup (48 .. 51)}

-----------------------------------------------------------------------------
(* The profiles come from the probe, run on the real scale: minutes, weeks of  *)
(* trading from Sunday 18:00 to Friday 17:00 in New York, 14 months back.      *)

ProbeSpring == [c \in {"US", "EU"} |-> IF c = "US" THEN 10 ELSE 13]
ProbeFall == [c \in {"US", "EU"} |-> IF c = "US" THEN 44 ELSE 43]

Over(months) == INSTANCE BrokerProbe WITH
  SpringWeek <- ProbeSpring, FallWeek <- ProbeFall, NyBehind <- 300, OpensNy <- 1080,
  WeekLength <- 7140, Months <- months, MinOpens <- 30

\* InpMonthsBack
Months == 14

\* A week that opens at midnight in winter or summer, and one that never does.
ProbedBrokers == [calendar : {calendar}, standard : {60, 120}]

\* Every third week of a year.
ProbedIn == {100 + 3 * i : i \in 0 .. 17}

\* Whenever the probe ran on the broker of this history, before its first bar.
ProfilesAreTrue ==
  now = 0 /\ seen = None /\ closed = {} =>
    /\ Over(Months)!ProbeNamesTheBroker(ProbedBrokers, ProbedIn, {0, 2, 5, 7})
    /\ Over(Months)!OffsetsAreRecovered(ProbedBrokers, ProbedIn)

\* An instant of this stream in the same season as a week of the probe's.
SeasonOf(week) ==
  IF Over(Months)!Saving("EU", week) THEN Spring["EU"] + 1
  ELSE IF Over(Months)!Saving("US", week) THEN Spring["US"] + 1
  ELSE 0

\* A broker whose profile was seeded in a week, by a probe of so many months of which the
\* oldest chunks are missing.
Seeded(kept, week, months, missing) ==
  LET scan == Over(months)!Probed([calendar |-> kept, standard |-> 120], week, missing)
  IN [calendar |-> kept, named |-> Over(months)!Classify(scan).calendar,
      measured |-> SeasonOf(week)]

\* A broker with a history to judge it by, and one without.
Judged == {Seeded(c, 110, Months, 0) : c \in {"US", "EU", "NONE"}} \cup {Seeded("US", 110, Months, 10)}

\* Brokers whose history is a summer of theirs or New York's, long enough for a verdict.
Misjudged == {Seeded("NONE", 147, Months, 7), Seeded("EU", 146, 7, 0)}

MCBrokers == Judged \cup Misjudged
-----------------------------------------------------------------------------
(* The lines of the wire about both changes of a clock.                        *)

Wire == INSTANCE WireRecords

Measured == {"US", "EU", "NONE"}

BarLine(server, utc, seq) ==
  [type |-> "bar", version |-> 2, at |-> BrokerWall(server, utc), named |-> TRUE, frame |-> "M1",
   sound |-> TRUE, server |-> server, seq |-> seq]

InOrder(utcs) ==
  LET Among(utc) == utc \in utcs
  IN SelectSeq([i \in 1 .. (1 + Max(utcs) - Min(utcs)) |-> Min(utcs) + i - 1], Among)

\* What one run of the bridge writes: its bars in order, counted from 1.
RunOf(server, utcs) == [i \in 1 .. Cardinality(utcs) |-> BarLine(server, InOrder(utcs)[i], i)]

AsVersion1(server, utcs) ==
  [i \in 1 .. Cardinality(utcs) |->
     [BarLine(server, InOrder(utcs)[i], i) EXCEPT !.version = 1, !.at = InOrder(utcs)[i]]]

\* Traded through the change, not before it, not at the first pass of a repeated hour,
\* and every other bar.
TradedAbout(change) ==
  LET all == (change - Shift - 2) .. (change + Shift + 2)
  IN {all, {t \in all : t >= change}, all \ ((change - Shift) .. (change - 1)),
      {t \in all : t % 2 = 0}}

Traded == UNION {TradedAbout(c) : c \in {Spring["US"], Spring["EU"], Fall["US"], Fall["EU"]}}

\* A reading of this instant is one that occurs twice.
Repeated(server, utc) ==
  server \in DOMAIN Fall /\ Fall[server] - Shift <= utc /\ utc < Fall[server] + Shift

\* Lines that are no bar of this instrument's chart, and one that can be.
Useless(line) ==
  {None, [line EXCEPT !.sound = FALSE], [line EXCEPT !.named = FALSE],
   [line EXCEPT !.frame = "PERIOD_CURRENT"], [line EXCEPT !.server = "UNKNOWN"],
   [line EXCEPT !.type = "source_capabilities"], [line EXCEPT !.type = "tick"],
   [line EXCEPT !.type = "symbol"]}

Utcs(bars) == [i \in DOMAIN bars |-> bars[i].utc]

\* What schema.py accepts the reader takes, whatever is changed in a sample or left out of
\* it, and nothing that lacks a field; a sample is a line of its schema.
SchemaIsReadable ==
  \A version \in {1, 2} :
    \A type \in DOMAIN (IF version = 1 THEN Wire!SchemaV1 ELSE Wire!SchemaV2) :
      LET sample == Wire!Sample(type, version)
          Without(name) == [sample EXCEPT !.fields = Restrict(@, DOMAIN @ \ {name})]
          Changed(name, value) == [sample EXCEPT !.fields[name] = value]
      IN /\ Wire!Conforms(sample) /\ Wire!Deserializes(sample)
         /\ \A name \in DOMAIN sample.fields :
              /\ ~Wire!Conforms(Without(name)) /\ ~Wire!Deserializes(Without(name))
              /\ \A value \in Wire!Values :
                   Wire!Conforms(Changed(name, value)) => Wire!Deserializes(Changed(name, value))

\* A bar the run trusts is where it was traded, and every bar outside a repeated hour is
\* among them; version 1 is never in doubt.
LinesAreTimedRight(server) ==
  \A utcs \in Traded :
    LET bars == Wire!Live(RunOf(server, utcs), Measured).bars
    IN /\ {b.utc : b \in {c \in ToSet(bars) : c.quality = "VALID"}}
          = {t \in utcs : ~Repeated(server, t)}
       /\ Utcs(Wire!Live(AsVersion1(server, utcs), {}).bars) = InOrder(utcs)

\* A line that yields no bar leaves those around it as they are, wherever it is, and is
\* counted once.
BadLinesAreAlone(server) ==
  \A utcs \in Traded :
    LET run == RunOf(server, utcs)
        good == Wire!Live(run, Measured)
    IN \A i \in DOMAIN run : \A line \in Useless(run[i]) :
         LET lines == InsertAt(run, i, line)
             all == Wire!Live(lines, Measured)
             counted == Wire!Diagnosed(lines, Measured)
         IN /\ all.bars = good.bars
            /\ counted.seen - counted.unparsed - counted.bars - counted.quarantined
               = IF line # None /\ line.type # "bar" THEN 1 + Len(run) - Len(good.bars) - good.quarantined
                 ELSE 0

\* The scripts have the bars of the run.  Of a file that several runs of the bridge wrote,
\* publish_regime has some of them, to the last.
ScriptsHaveTheBars(server) ==
  \A utcs \in Traded :
    LET run == RunOf(server, utcs)
        live == Utcs(Wire!Live(run, Measured).bars)
        Unlabelled == [i \in DOMAIN run |-> [run[i] EXCEPT !.frame = "PERIOD_CURRENT"]]
        reference == Wire!Referenced(Unlabelled, server)
    IN /\ Utcs(Wire!Published(run, Measured).bars) = live
       /\ Utcs(Wire!Calibrated(run, server).bars) = live
       /\ reference = Wire!Raised <=> Len(live) < Len(run)
       /\ reference # Wire!Raised => Utcs(reference.bars) = live
       /\ \A from \in utcs : \A until \in {t \in utcs : t >= from} :
            LET lines == RunOf(server, {t \in utcs : t <= until})
                         \o RunOf(server, {t \in utcs : t >= from})
                both == Utcs(Wire!Live(lines, Measured).bars)
                published == Utcs(Wire!Published(lines, Measured).bars)
            IN /\ both = live
               /\ ToSet(published) \subseteq ToSet(live) /\ Last(published) = Last(live)

\* Once for each broker, before the first bar of its chart.
WireIsReadRight ==
  now = 0 /\ seen = None /\ closed = {} =>
    /\ SchemaIsReadable /\ LinesAreTimedRight(calendar)
    /\ BadLinesAreAlone(calendar) /\ ScriptsHaveTheBars(calendar)

-----------------------------------------------------------------------------

\* The terminal may stay shut for as long as most of a day.
MCAway == {24, 25} \cup (48 .. 57)
-----------------------------------------------------------------------------
\* The probe names the broker's calendar where it says it observed it (after a year of
\* history, of a broker without daylight saving), broker time is read by
\* a right profile as what it was and by a wrong one as no more than an hour off, by both
\* programs alike, and the sessions follow it.
TimeIsReadRight == WireIsReadRight /\ ProfilesAreTrue /\ TimelineIsTrue /\ ClocksAgree /\ SessionsFitTheStream

=============================================================================
