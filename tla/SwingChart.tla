----------------------------- MODULE SwingChart -----------------------------
(***************************************************************************)
(* Swings decided and swings drawn.  The EA's engines (swings.py, one per   *)
(* tier) are given every closed bar; the chart's indicators run in the      *)
(* terminal on the same bars and the one still forming: VO_Swings.mq5 scans *)
(* the last bars once per new bar and redraws every box, VO_EntryTiming.mq5 *)
(* computes its buffers from the last bar it had already seen.             *)
(*                                                                         *)
(* A bar opens, then takes its final shape, then the next one opens.  The   *)
(* terminal may be away when it does either.                               *)
(***************************************************************************)
EXTENDS Swings

CONSTANTS
  ShapesAt,        \* the bars that may occur, one after the other
  History,         \* the bars that are there when EA and chart start
  Tiers,           \* [tier name -> [k, num, den]]
  AtrPeriod,       \* atr_period and InpAtrPeriod
  ScanBars,        \* InpMaxBarsToScan
  ErPeriod,        \* InpErPeriod, er_period
  ScalePeriod,     \* InpAtrScalePeriod; percentile_lookback is one less
  AwayDuring,      \* the bars during which the terminal is away
  MaxBars          \* bound of the model

ASSUME ChartAssumption ==
  /\ {AtrPeriod, ScanBars, ErPeriod, ScalePeriod, MaxBars} \subseteq Nat \ {0}
  /\ History \in Seq(ToSet(History)) /\ ToSet(History) \subseteq Bars(Int)
  /\ Len(History) < MaxBars /\ MaxBars <= Len(ShapesAt)
  /\ \A i \in 1..MaxBars : ShapesAt[i] \subseteq Bars(Int)
  /\ IsFiniteSet(DOMAIN Tiers)
  /\ \A t \in DOMAIN Tiers : {Tiers[t].k, Tiers[t].num, Tiers[t].den} \subseteq Nat \ {0}

VARIABLES
  bars,      \* the bars so far; the last one is still forming
  shaped,    \* whether the forming bar has its final shape
  engines,   \* the EA's SwingEngine of each tier
  drawn,     \* the chart's boxes of each tier, and the bar of the scan: [boxes, scanned]
  pane       \* the indicator's buffers: [er, atr, scaled]

vars == <<bars, shaped, engines, drawn, pane>>

Opening(p) == [open |-> p, high |-> p, low |-> p, close |-> p]

Closed == SubSeq(bars, 1, Len(bars) - 1)

-----------------------------------------------------------------------------
(* VO_Swings.mq5                                                           *)

MinBarsNeeded == AtrPeriod + 2 * Max({Tiers[t].k : t \in DOMAIN Tiers}) + 2

ScanStart(n) == Larger(0, n - ScanBars)

\* A box of the scan, at its bar's place among all bars.
Placed(box, start) == [box EXCEPT !.pivot = @ + start, !.right = @ + start]

Scan(t, all) ==
  LET start == ScanStart(Len(all))
      window == SubSeq(all, start + 1, Len(all))
  IN {Placed(b, start) : b \in Boxes(DetectSwings(Tiers[t], AtrPeriod, window))}

\* A chart that a new bar finds with too little history keeps what it shows.
RescanAndDraw(all) ==
  IF Smaller(Len(all), ScanBars) < MinBarsNeeded
  THEN [drawn EXCEPT !.scanned = Len(all)]
  ELSE [boxes |-> [t \in DOMAIN Tiers |-> Scan(t, all)], scanned |-> Len(all)]

Redraw(all) == IF drawn.scanned = Len(all) THEN drawn ELSE RescanAndDraw(all)

-----------------------------------------------------------------------------
(* VO_EntryTiming.mq5                                                      *)

\* A mutant: the bar that was still forming is taken as computed.
StartAfter(seen) == seen + 1

Warmup == Larger(ErPeriod, AtrPeriod) + 1

\* The first position to compute: the last bar that was seen was still forming.
StartFrom(seen) == seen

\* VO_AtrSma, in units of one tick per period: it is not rounded.
AtrSma(all, i) == IF i <= AtrPeriod THEN None ELSE TrueRangeSum(all, i, AtrPeriod)

\* The place of the latest value between the lowest and the highest of the scale.
Scaled(atr, i) ==
  LET scale == {atr[j] : j \in Larger(Warmup + 1, i - ScalePeriod + 1)..i}
  IN IF Max(scale) > Min(scale)
     THEN <<atr[i] - Min(scale), Max(scale) - Min(scale)>>
     ELSE <<1, 2>>

\* A mutant: a history that is too short counts as calculated.
RecalculatedShort(all, seen) ==
  LET n == Len(all)
      start == Larger(StartFrom(seen), Warmup + 1)
      Kept(buffer, i) == IF i <= Len(buffer) THEN buffer[i] ELSE None
      atr == [i \in 1..n |-> IF i < start THEN Kept(pane.atr, i) ELSE AtrSma(all, i)]
  IN IF n <= Warmup THEN [pane EXCEPT !.seen = n]
     ELSE [er |-> [i \in 1..n |-> IF i < start THEN Kept(pane.er, i)
                                  ELSE EfficiencyRatio(all, i, ErPeriod)],
           atr |-> atr,
           scaled |-> [i \in 1..n |-> IF i < start THEN Kept(pane.scaled, i)
                                      ELSE Scaled(atr, i)],
           seen |-> n]

\* OnCalculate of the pane: what was computed stays, but for the last bar.
Recalculated(all, seen) ==
  LET n == Len(all)
      start == Larger(StartFrom(seen), Warmup + 1)
      Kept(buffer, i) == IF i <= Len(buffer) THEN buffer[i] ELSE None
      atr == [i \in 1..n |-> IF i < start THEN Kept(pane.atr, i) ELSE AtrSma(all, i)]
  IN IF n <= Warmup THEN pane
     ELSE [er |-> [i \in 1..n |-> IF i < start THEN Kept(pane.er, i)
                                  ELSE EfficiencyRatio(all, i, ErPeriod)],
           atr |-> atr,
           scaled |-> [i \in 1..n |-> IF i < start THEN Kept(pane.scaled, i)
                                      ELSE Scaled(atr, i)],
           seen |-> n]

\* What the chart does with a price, while the terminal is there.
OnCalculate(all) ==
  IF Len(all) \in AwayDuring THEN UNCHANGED <<drawn, pane>>
  ELSE /\ drawn' = Redraw(all)
       /\ pane' = Recalculated(all, pane.seen)

-----------------------------------------------------------------------------
Decide(t, engine, closed) == OnBar(Tiers[t], AtrPeriod, engine, closed)

\* The engine of a tier that has been given the history.
Warmed(t) ==
  LET After[i \in 0..Len(History)] ==
        IF i = 0 THEN NewEngine ELSE Decide(t, After[i - 1], SubSeq(History, 1, i))
  IN After[Len(History)]

Init ==
  /\ \E b \in ShapesAt[Len(History) + 1] : bars = Append(History, Opening(b.open))
  /\ shaped = FALSE
  /\ engines = [t \in DOMAIN Tiers |-> Warmed(t)]
  /\ drawn = [boxes |-> [t \in DOMAIN Tiers |-> {}], scanned |-> 0]
  /\ pane = [er |-> <<>>, atr |-> <<>>, scaled |-> <<>>, seen |-> 0]

\* The forming bar takes its shape.
Shape ==
  /\ ~shaped
  /\ \E b \in ShapesAt[Len(bars)] :
       /\ b.open = Last(bars).open
       /\ bars' = Front(bars) \o <<b>>
  /\ shaped' = TRUE
  /\ OnCalculate(bars')
  /\ UNCHANGED engines

\* The bar closes: the EA gets it, and the next one opens on the chart.
NextBar ==
  /\ shaped
  /\ Len(bars) < MaxBars
  /\ engines' = [t \in DOMAIN Tiers |-> Decide(t, engines[t], bars)]
  /\ \E b \in ShapesAt[Len(bars) + 1] : bars' = Append(bars, Opening(b.open))
  /\ shaped' = FALSE
  /\ OnCalculate(bars')

Next == Shape \/ NextBar

Spec == Init /\ [][Next]_vars

-----------------------------------------------------------------------------
\* What is held of closed bars changes when one closes, and not while the next takes shape.
BarClosed == ~shaped

TypeOK ==
  /\ \A i \in (Len(History) + 1)..Len(bars) :
       bars[i] \in ShapesAt[i] \cup {Opening(b.open) : b \in ShapesAt[i]}
  /\ drawn.scanned <= Len(bars)
  /\ pane.seen <= Len(bars)
  /\ {Len(pane.er), Len(pane.atr), Len(pane.scaled)} = {pane.seen}
  /\ \A t \in DOMAIN Tiers : \A b \in drawn.boxes[t] : b.right > b.pivot

\* The active swing of a type has not been traded beyond since its pivot, whatever was
\* broken, replaced and confirmed in between (swings.py:340, :374).
ActiveIsUntouched ==
  BarClosed =>
    \A t \in DOMAIN Tiers, type \in Types :
    LET active == engines[t].active[type]
    IN active # <<>> =>
         \A j \in (active[1].pivot + 1)..Len(Closed) :
           ~Beyond(type, Tip(type, bars[j]), active[1].price)

\* No ATR of these bars lies halfway, where Python and MQL5 round differently.
HalvesFree(all) ==
  \A i \in AtrPeriod..Len(all) : RoundsAlike(TrueRangeSum(all, i, AtrPeriod), AtrPeriod)

NoHalves == HalvesFree(bars)

\* On the same closed bars the chart's one pass finds the events of the EA's log, one by
\* one, as VO_SwingMath.mqh:21 claims, unless an average lies halfway between two ticks.
SameEventsAsEngine ==
  BarClosed /\ NoHalves =>
    \A t \in DOMAIN Tiers : DetectSwings(Tiers[t], AtrPeriod, Closed).events = engines[t].log

\* What the EA decided, as a box: one per confirmed swing.
Decided(t) ==
  LET log == engines[t].log
      Ends(e) == {b \in ToSet(log) : b.status = "BROKEN" /\ b.pivot = e.pivot /\ b.type = e.type}
  IN {[type |-> e.type, pivot |-> e.pivot, broken |-> Ends(e) # {},
       right |-> Max({e.opposite} \cup {b.at : b \in Ends(e)})] :
        e \in {e \in ToSet(log) : e.status = "CONFIRMED"}}

\* A scan of a window of bars that includes the one forming draws, of every pivot whose
\* ATR lies within the window, the swing the EA decided, its break included; only
\* the forming bar's own confirmations and breaks are the chart's alone (VO_Swings.mq5:150).
DrawnAsDecided ==
  NoHalves /\ drawn.scanned = Len(bars) /\ Smaller(Len(bars), ScanBars) >= MinBarsNeeded =>
    \A t \in DOMAIN Tiers :
      LET first == ScanStart(Len(bars)) + Larger(AtrPeriod, Tiers[t].k) + 1
          decided == {b \in Decided(t) : b.pivot >= first}
          shown == {b \in drawn.boxes[t] : b.pivot >= first /\ b.pivot + Tiers[t].k < Len(bars)}
          settled == {b \in shown : b.right < Len(bars)}
      IN /\ settled \subseteq decided
         /\ \A d \in decided : \E b \in shown : b.pivot = d.pivot /\ b.type = d.type

\* However the calls fall, the buffers hold what one calculation over all bars gives,
\* and where the chart calls the ATR the highest of its scale, so does the EA's rank
\* (VO_EntryTiming.mq5:140-178, entry_timing.py:92).
PaneShowsReadings ==
  BarClosed /\ pane.seen = Len(bars) =>
    \A i \in (Warmup + 1)..Len(Closed) :
      LET reading == Reading(bars, i, ErPeriod, AtrPeriod, ScalePeriod - 1)
      IN /\ pane.er[i] = reading.er
         /\ pane.atr[i] = AtrSma(bars, i)
         /\ /\ i - ScalePeriod > Warmup
            /\ pane.scaled[i][1] = pane.scaled[i][2]
            => reading.atrRank[1] = reading.atrRank[2]

=============================================================================
