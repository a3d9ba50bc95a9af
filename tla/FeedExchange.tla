---------------------------- MODULE FeedExchange ----------------------------
(***************************************************************************)
(* One regime feed file between publish_regime.py --watch, which rebuilds   *)
(* it from the bars on the wire, and the two indicators that draw it on a   *)
(* chart: VO_Regime (bands, markers, panel) and VO_ReferenceLevels (session *)
(* lines).  A file that is open can not be renamed over: Windows refuses.   *)
(*                                                                         *)
(* What the engine makes of the bars is a script here (Observation runs the *)
(* engine).  A build is [stamp, covers]: what tells its header from those   *)
(* still in use, and how many bars it was made from.  A file is two halves, *)
(* each of the build that wrote it.                                        *)
(***************************************************************************)
EXTENDS RegimeFeed

CONSTANTS
  Prices,      \* the bars
  States,      \* the engine's records over them
  SessionOf,   \* each bar's session
  TrimFrom,    \* the first bar after the warm-up
  ChartFrame,  \* bars of the wire in one bar of the chart
  Attempts,    \* renames tried before a publish is given up: 40
  MaxCrashes   \* bound on crashes of the watch and the terminal, hangs and reloads

ASSUME FeedAssumption ==
  /\ DOMAIN SessionOf = DOMAIN Prices
  /\ {ChartFrame, Attempts, TrimFrom} \subseteq Nat \ {0}
  /\ MaxCrashes \in Nat
  /\ Len(Prices) \in Nat

\* None is no build, no file and no bar.
ASSUME NoneAssumption ==
  LET all == [stamp : Nat, covers : Nat]
  IN None \notin all \cup (all \X all) /\ None \notin Nat

\* The engine appends to its log as the bars close.
ASSUME LogAssumption ==
  /\ Len(States) \in Nat /\ DOMAIN States = 1..Len(States)
  /\ \A i \in DOMAIN States : States[i].at \in Nat
  /\ \A i, j \in DOMAIN States : i <= j => States[i].at <= States[j].at

VARIABLES
  closed,   \* bars on the wire
  feed,     \* the feed file, or None before the first publish
  tmp,      \* the file a publish writes before it renames it
  watch,    \* publish_regime --watch: [pc, build, tried]
  chart,    \* VO_Regime: [pc, got, header, seen, drawn]
  lines,    \* VO_ReferenceLevels: [pc, got, drawn]
  hung,     \* the terminal does not answer
  crashes

vars == <<closed, feed, tmp, watch, chart, lines, hung, crashes>>

Whole(build) == <<build, build>>

\* The header of a file with no bars is an empty line: none.
Header(build) == IF build.covers = 0 THEN None ELSE build

\* Open time of the bar the chart is on.
ChartEdge == (closed \div ChartFrame) * ChartFrame + 1

\* The indicators on the charts of one symbol share a thread of the terminal: one of
\* them at a time has the feed open.
Opened == "reading" \in {chart.pc, lines.pc}

-----------------------------------------------------------------------------
(* A feed's lines.  A time is a bar's position; 0 is the end of an open band *)

\* The log as it stood after the first so many bars.
LogOf(covers) == Restrict(States, {i \in DOMAIN States : States[i].at <= covers})

FeedOf ==
  [covers \in 0..Len(Prices) |-> Feed(LogOf(covers), SubSeq(Prices, 1, covers), TrimFrom)]

BandLine(s) ==
  [tag |-> "BAND", regime |-> s.regime, direction |-> s.direction, anticipated |-> s.lean,
   start |-> s.start, end |-> IF s.end = None THEN 0 ELSE s.end, high |-> s.high, low |-> s.low]

MarkLine(m) ==
  [tag |-> "MARK", regime |-> m.regime, direction |-> m.direction, at |-> m.at, price |-> m.price]

SessionLine(boundary) ==
  [tag |-> "SESN", at |-> boundary.at, from |-> boundary.from, to |-> boundary.to]

StatLine(row) ==
  [tag |-> "SSTAT", session |-> row.session,
   regime |-> IF row.regime = None THEN "UNCLASSIFIED" ELSE row.regime,
   bars |-> row.bars, of |-> row.of, begun |-> row.begun]

\* render_feed_lines, of the first so many bars.
LinesOf ==
  [covers \in 0..Len(Prices) |->
     {BandLine(s) : s \in FeedOf[covers].segments}
       \cup {MarkLine(m) : m \in FeedOf[covers].markers}
       \cup {SessionLine(x) : x \in SessionBoundaries(SessionOf, covers)}
       \cup {StatLine(r) : r \in Breakdown(FeedOf[covers].segments, SessionOf, covers)}]

\* The lines of a file: the first half is the bands.
LinesIn(file) ==
  {l \in LinesOf[file[1].covers] : l.tag = "BAND"}
    \cup {l \in LinesOf[file[2].covers] : l.tag # "BAND"}

Tagged(some, tag) == {l \in some : l.tag = tag}

-----------------------------------------------------------------------------
(* What an indicator draws of them                                         *)

\* A mutant: the open band reaches the bar the chart is on.
EdgeOfChart(covers, edge) == edge

\* The open band ends at the last bar of the feed, the chart permitting.
LiveEdge(covers, edge) == Smaller(covers, edge)

\* A rectangle, its label at its first bar with the lean of a pullback.
DrawBand(line, covers, edge) ==
  [regime |-> line.regime, start |-> line.start,
   end |-> IF line.end = 0 THEN LiveEdge(covers, edge) ELSE line.end,
   high |-> line.high, low |-> line.low,
   label |-> <<line.regime, line.direction, line.anticipated>>]

\* An arrow; a reversal's is larger, and its label above the price.
DrawMarker(line) ==
  [at |-> line.at, price |-> line.price, large |-> line.regime = "REVERSAL",
   label |-> <<line.regime, line.direction>>]

\* A row of the panel: the share is of the session's bars.
StatRow(line) ==
  [session |-> line.session, regime |-> line.regime, bars |-> line.bars,
   share |-> <<line.bars, line.of>>, begun |-> line.begun]

DrawSessionLine(line) == [at |-> line.at, label |-> line.to]

Drawing(file, edge) ==
  LET read == LinesIn(file)
  IN [bands |-> {DrawBand(l, file[1].covers, edge) : l \in Tagged(read, "BAND")},
      markers |-> {DrawMarker(l) : l \in Tagged(read, "MARK")},
      panel |-> {StatRow(l) : l \in Tagged(read, "SSTAT")}]

SessionLines(file) == {DrawSessionLine(l) : l \in Tagged(LinesIn(file), "SESN")}

Nothing == [bands |-> {}, markers |-> {}, panel |-> {}]

-----------------------------------------------------------------------------
NewChart(drawn) == [pc |-> "idle", got |-> None, header |-> None, seen |-> 0, drawn |-> drawn]

Init ==
  /\ closed = 0
  /\ feed = None
  /\ tmp = None
  /\ watch = [pc |-> "idle", build |-> None, tried |-> 0]
  /\ chart = NewChart(Nothing)
  /\ lines = [pc |-> "idle", got |-> None, drawn |-> {}]
  /\ hung = FALSE
  /\ crashes = 0

BarOnWire ==
  /\ closed < Len(Prices)
  /\ closed' = closed + 1
  /\ UNCHANGED <<feed, tmp, watch, chart, lines, hung, crashes>>

-----------------------------------------------------------------------------
(* publish_regime.py                                                       *)

HalvesOf(file) == IF file = None THEN {} ELSE {file[1], file[2]}

StampsInUse ==
  {b.stamp : b \in HalvesOf(feed) \cup ({chart.header, chart.got, lines.got} \ {None})}

NewStamp == Min((0..Cardinality(StampsInUse)) \ StampsInUse)

\* A mutant: the feed itself is written, a half at a time.
PublishInPlace ==
  /\ watch.pc = "idle"
  /\ LET build == [stamp |-> NewStamp, covers |-> closed]
         old == IF feed = None THEN Whole([stamp |-> 0, covers |-> 0]) ELSE feed
     IN /\ watch' = [pc |-> "writing", build |-> build, tried |-> 0]
        /\ feed' = <<build, old[2]>>
  /\ tmp' = Whole(watch'.build)
  /\ UNCHANGED <<closed, chart, lines, hung, crashes>>

\* publish_once: every bar on the wire is run through a new engine, and the first half
\* of its feed is written to the file beside it.
Publish ==
  /\ watch.pc = "idle"
  /\ LET build == [stamp |-> NewStamp, covers |-> closed]
     IN /\ watch' = [pc |-> "writing", build |-> build, tried |-> 0]
        /\ tmp' = <<build, None>>
  /\ UNCHANGED <<closed, feed, chart, lines, hung, crashes>>

WriteRest ==
  /\ watch.pc = "writing"
  /\ tmp' = Whole(watch.build)
  /\ watch' = [watch EXCEPT !.pc = "renaming"]
  /\ UNCHANGED <<closed, feed, chart, lines, hung, crashes>>

Rename ==
  /\ watch.pc = "renaming"
  /\ ~Opened
  /\ feed' = tmp
  /\ tmp' = None
  /\ watch' = [pc |-> "idle", build |-> None, tried |-> 0]
  /\ UNCHANGED <<closed, chart, lines, hung, crashes>>

\* A mutant: a rename is tried until it is done.
TriedForEver(w) == w

\* A mutant: a feed that stays busy ends the watch.
BusyEndsWatch(w) ==
  IF w.tried + 1 = Attempts THEN [pc |-> "ended", build |-> None, tried |-> 0]
  ELSE [w EXCEPT !.tried = @ + 1]

\* A mutant: one try too many.
TriedOnceMore(w) ==
  IF w.tried = Attempts THEN [pc |-> "idle", build |-> None, tried |-> 0]
  ELSE [w EXCEPT !.tried = @ + 1]

\* A feed that stays busy is left for the next cycle.
AfterRefusal(w) ==
  IF w.tried + 1 = Attempts THEN [pc |-> "idle", build |-> None, tried |-> 0]
  ELSE [w EXCEPT !.tried = @ + 1]

\* All the tries of a publish take ten seconds, so only a terminal that does not answer
\* can have the feed open at every one of them.
Refused ==
  /\ watch.pc = "renaming"
  /\ Opened
  /\ watch.tried + 1 = Attempts => hung
  /\ watch' = AfterRefusal(watch)
  /\ UNCHANGED <<closed, feed, tmp, chart, lines, hung, crashes>>

WatchDies ==
  /\ watch.pc # "dead"
  /\ crashes < MaxCrashes
  /\ crashes' = crashes + 1
  /\ watch' = [pc |-> "dead", build |-> None, tried |-> 0]
  /\ UNCHANGED <<closed, feed, tmp, chart, lines, hung>>

WatchAgain ==
  /\ watch.pc = "dead"
  /\ watch' = [watch EXCEPT !.pc = "idle"]
  /\ UNCHANGED <<closed, feed, tmp, chart, lines, hung, crashes>>

-----------------------------------------------------------------------------
(* VO_Regime.mq5                                                           *)

\* A mutant: on a new bar the feed is read again and drawn only if it is a new one.
OnNewBarKept(c) == [c EXCEPT !.seen = ChartEdge]

\* On a new bar the feed is drawn again whatever its header.
OnNewBar(c) == [c EXCEPT !.seen = ChartEdge, !.header = None]

\* OnTimer, or OnCalculate on a new bar: the feed is opened, and read to the half.
ChartOpens ==
  /\ ~hung /\ ~Opened
  /\ LET c == IF chart.seen # ChartEdge THEN OnNewBar(chart) ELSE chart
     IN chart' = IF feed = None THEN c ELSE [c EXCEPT !.pc = "reading", !.got = feed[1]]
  /\ UNCHANGED <<closed, feed, tmp, watch, lines, hung, crashes>>

\* The rest is read, the file closed, and what was drawn replaced, unless its header is
\* the one drawn.
ChartDraws ==
  /\ ~hung /\ chart.pc = "reading"
  /\ LET header == Header(chart.got)
         read == [chart EXCEPT !.pc = "idle", !.got = None]
     IN chart' = IF header # None /\ header = chart.header THEN read
                 ELSE [read EXCEPT !.header = header,
                                   !.drawn = Drawing(<<chart.got, feed[2]>>, ChartEdge)]
  /\ UNCHANGED <<closed, feed, tmp, watch, lines, hung, crashes>>

\* OnDeinit leaves the objects on the chart unless it is removed from it.
ChartReloads(removed) ==
  /\ ~hung /\ ~Opened
  /\ crashes < MaxCrashes
  /\ crashes' = crashes + 1
  /\ chart' = NewChart(IF removed THEN Nothing ELSE chart.drawn)
  /\ UNCHANGED <<closed, feed, tmp, watch, lines, hung>>

-----------------------------------------------------------------------------
(* VO_ReferenceLevels.mq5, its session lines                               *)

LinesOpen ==
  /\ ~hung /\ ~Opened
  /\ feed # None
  /\ lines' = [lines EXCEPT !.pc = "reading", !.got = feed[1]]
  /\ UNCHANGED <<closed, feed, tmp, watch, chart, hung, crashes>>

LinesDraw ==
  /\ ~hung /\ lines.pc = "reading"
  /\ lines' = [pc |-> "idle", got |-> None, drawn |-> SessionLines(<<lines.got, feed[2]>>)]
  /\ UNCHANGED <<closed, feed, tmp, watch, chart, hung, crashes>>

-----------------------------------------------------------------------------
(* The terminal                                                            *)

TerminalHangs ==
  /\ ~hung
  /\ crashes < MaxCrashes
  /\ crashes' = crashes + 1
  /\ hung' = TRUE
  /\ UNCHANGED <<closed, feed, tmp, watch, chart, lines>>

TerminalAnswers ==
  /\ hung
  /\ hung' = FALSE
  /\ UNCHANGED <<closed, feed, tmp, watch, chart, lines, crashes>>

\* Its handles are closed; the charts come back with their objects.
TerminalRestarts ==
  /\ crashes < MaxCrashes
  /\ crashes' = crashes + 1
  /\ chart' = NewChart(chart.drawn)
  /\ lines' = [lines EXCEPT !.pc = "idle", !.got = None]
  /\ hung' = FALSE
  /\ UNCHANGED <<closed, feed, tmp, watch>>

Next ==
  \/ BarOnWire
  \/ Publish \/ WriteRest \/ Rename \/ Refused \/ WatchDies \/ WatchAgain
  \/ ChartOpens \/ ChartDraws \/ \E removed \in BOOLEAN : ChartReloads(removed)
  \/ LinesOpen \/ LinesDraw
  \/ TerminalHangs \/ TerminalAnswers \/ TerminalRestarts

\* The watch loops.  A rename is tried again and again while the feed is opened and
\* closed: one of the tries meets it closed.  A timer that fires waits for the thread.
Fairness ==
  /\ WF_vars(Publish) /\ WF_vars(WriteRest) /\ WF_vars(Refused) /\ SF_vars(Rename)
  /\ SF_vars(ChartOpens) /\ WF_vars(ChartDraws)
  /\ SF_vars(LinesOpen) /\ WF_vars(LinesDraw)

Spec == Init /\ [][Next]_vars /\ Fairness

-----------------------------------------------------------------------------
Builds == [stamp : 0..4, covers : 0..Len(Prices)]

TypeOK ==
  /\ closed \in 0..Len(Prices)
  /\ feed = None \/ feed \in Builds \X Builds
  /\ tmp = None \/ tmp \in Builds \X (Builds \cup {None})
  /\ watch.pc \in {"idle", "writing", "renaming", "dead"}
  /\ watch.tried \in 0..(Attempts - 1)
  /\ \A r \in {chart, lines} : /\ r.pc \in {"idle", "reading"}
                               /\ r.got \in Builds \cup {None}
                               /\ r.got = None <=> r.pc = "idle"
  /\ chart.header \in Builds \cup {None}
  /\ chart.seen \in 0..(Len(Prices) + 1)
  /\ crashes \in 0..MaxCrashes

\* The feed is of one build, and a reader that has read half of it finds the other half
\* of the same build (publish_regime.py:270).
WholeFeedsOnly ==
  /\ feed # None => feed[1] = feed[2]
  /\ \A r \in {chart, lines} : r.pc = "reading" => Whole(r.got) = feed

\* Since the chart was redrawn for the bar it is on, it shows what drawing the feed of
\* its header on that bar would give, though unchanged feeds are not drawn and revised
\* ones replace what was there (VO_Regime.mq5:245, :354).
ChartIsOneFeed ==
  chart.pc = "idle" /\ chart.header # None /\ chart.seen = ChartEdge =>
    chart.drawn = Drawing(Whole(chart.header), ChartEdge)

\* No band reaches beyond the bars its feed was made from, however long nobody has
\* published (VO_Regime.mq5:364).
NothingBeyondTheFeed ==
  chart.header # None /\ chart.pc = "idle" =>
    \A b \in chart.drawn.bands : b.end <= chart.header.covers

\* A publish that has begun to rename comes to an end, though a reader may never close
\* the feed (publish_regime.py:284, :361).
TheWatchGoesOn == watch.pc = "renaming" ~> watch.pc \in {"idle", "dead"}

ShowsEveryBar ==
  LET newest == Whole([stamp |-> 0, covers |-> closed])
  IN chart.drawn = Drawing(newest, ChartEdge) /\ lines.drawn = SessionLines(newest)

\* With a watch that is not stopped and a terminal that answers, both indicators come to
\* show every bar on the wire and keep showing it (VO_Regime.mq5:229).
ChartCatchesUp ==
  <>[](watch.pc # "dead" /\ ~hung) => <>[]ShowsEveryBar

\* Whatever is renamed, refused, killed or reloaded when, a chart shows one whole feed and
\* claims nothing that feed does not (VO_Regime.mq5:315).
FeedIsTakenWhole == TypeOK /\ WholeFeedsOnly /\ ChartIsOneFeed /\ NothingBeyondTheFeed

=============================================================================
