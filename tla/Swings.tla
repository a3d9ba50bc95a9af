------------------------------- MODULE Swings -------------------------------
(***************************************************************************)
(* One tier of swing detection, twice: SwingEngine of swings.py, which sees *)
(* one closed bar at a time, and VO_DetectSwings of VO_SwingMath.mqh, which *)
(* makes one pass over an array of bars for the chart.                     *)
(*                                                                         *)
(* A tier is [k, num, den]: the bars on either side of a pivot, and the     *)
(* least reversal as a multiple num / den of the ATR at the pivot.          *)
(***************************************************************************)
EXTENDS Measures, SequencesExt

Types == {"HIGH", "LOW"}

Tip(type, b) == IF type = "HIGH" THEN b.high ELSE b.low
Foot(type, b) == IF type = "HIGH" THEN b.low ELSE b.high
BodyTip(type, b) == IF type = "HIGH" THEN BodyHigh(b) ELSE BodyLow(b)
Beyond(type, p, q) == IF type = "HIGH" THEN p > q ELSE p < q

\* A pivot stands out from every bar of its window: a tie fails it.
IsPivot(bars, p, k, type) ==
  \A j \in (p - k)..(p + k) : j # p => Beyond(type, Tip(type, bars[p]), Tip(type, bars[j]))

\* The bar of the window after the pivot that runs furthest against it; the first, if several do.
Opposite(bars, p, k, type) ==
  Min({j \in (p + 1)..(p + k) :
         \A m \in (p + 1)..(p + k) : ~Beyond(type, Foot(type, bars[j]), Foot(type, bars[m]))})

ReversalTicks(bars, p, k, type) ==
  Distance(Tip(type, bars[p]), Foot(type, bars[Opposite(bars, p, k, type)]))

\* The filter compares with the multiple itself, which is never rounded.
FarEnough(tier, reversal, atr) == reversal * tier.den >= tier.num * atr

\* One event of the log.  A broken event carries the confirmed one it supersedes.
Confirmed(tier, bars, i, type, atr) ==
  LET p == i - tier.k
  IN [status |-> "CONFIRMED", type |-> type, pivot |-> p, at |-> i,
      price |-> Tip(type, bars[p]), body |-> BodyTip(type, bars[p]),
      reversal |-> ReversalTicks(bars, p, tier.k, type), atr |-> atr,
      opposite |-> Opposite(bars, p, tier.k, type)]

Broken(swing, i) ==
  [status |-> "BROKEN", type |-> swing.type, pivot |-> swing.pivot, at |-> i,
   price |-> swing.price, body |-> swing.body, reversal |-> 0, atr |-> 0, opposite |-> 0]

-----------------------------------------------------------------------------
(* SwingEngine: [log, active], the active swing of each type, if any.       *)

NewEngine == [log |-> <<>>, active |-> [t \in Types |-> <<>>]]

Breaks(engine, bars, type) ==
  LET swing == engine.active[type]
      i == Len(bars)
  IN IF swing # <<>> /\ Beyond(type, Tip(type, bars[i]), swing[1].price)
     THEN <<Broken(swing[1], i)>> ELSE <<>>

NewPivot(tier, atrPeriod, bars, type) ==
  LET i == Len(bars)
      p == i - tier.k
      atr == Atr(bars, p, atrPeriod)
  IN IF /\ p > tier.k
        /\ IsPivot(bars, p, tier.k, type)
        /\ atr # None
        /\ FarEnough(tier, ReversalTicks(bars, p, tier.k, type), atr)
     THEN <<Confirmed(tier, bars, i, type, atr)>> ELSE <<>>

\* What the latest bar does: breaks before new pivots, highs before lows.
NewEvents(tier, atrPeriod, engine, bars) ==
  Breaks(engine, bars, "HIGH") \o Breaks(engine, bars, "LOW")
    \o NewPivot(tier, atrPeriod, bars, "HIGH") \o NewPivot(tier, atrPeriod, bars, "LOW")

\* A mutant: a break does not end what is active.
ActiveUntilReplaced(engine, events, type) ==
  LET own == {n \in DOMAIN events : events[n].type = type /\ events[n].status = "CONFIRMED"}
  IN IF own = {} THEN engine.active[type] ELSE <<events[Max(own)]>>

ActiveAfter(engine, events, type) ==
  LET own == {n \in DOMAIN events : events[n].type = type}
      latest == events[Max(own)]
  IN IF own = {} THEN engine.active[type]
     ELSE IF latest.status = "BROKEN" THEN <<>> ELSE <<latest>>

\* on_bar, for the last of the bars.
OnBar(tier, atrPeriod, engine, bars) ==
  LET events == NewEvents(tier, atrPeriod, engine, bars)
  IN [log |-> engine.log \o events,
      active |-> [t \in Types |-> ActiveAfter(engine, events, t)]]

-----------------------------------------------------------------------------
(* VO_DetectSwings: [events, active], the active event's index or 0.        *)

\* VO_AtrTicks on the true ranges of the array.
ChartAtr(bars, i, period) ==
  IF i < period THEN None ELSE RoundHalfAway(TrueRangeSum(bars, i, period), period)

ChartBreak(bars, pass, type, i) ==
  LET a == pass.active[type]
  IN IF a # 0 /\ Beyond(type, Tip(type, bars[i]), pass.events[a].price)
     THEN [events |-> Append(pass.events, Broken(pass.events[a], i)),
           sources |-> Append(pass.sources, a),
           active |-> [pass.active EXCEPT ![type] = 0]]
     ELSE pass

ChartPivot(tier, atrPeriod, bars, pass, type, i) ==
  LET p == i - tier.k
      atr == ChartAtr(bars, p, atrPeriod)
  IN IF /\ p > tier.k
        /\ IsPivot(bars, p, tier.k, type)
        /\ atr # None
        /\ FarEnough(tier, ReversalTicks(bars, p, tier.k, type), atr)
     THEN [events |-> Append(pass.events, Confirmed(tier, bars, i, type, atr)),
           sources |-> Append(pass.sources, 0),
           active |-> [pass.active EXCEPT ![type] = Len(pass.events) + 1]]
     ELSE pass

\* A mutant: new pivots before breaks.
ChartBarPivotsFirst(tier, atrPeriod, bars, pass, i) ==
  LET found == ChartPivot(tier, atrPeriod, bars,
                 ChartPivot(tier, atrPeriod, bars, pass, "HIGH", i), "LOW", i)
  IN ChartBreak(bars, ChartBreak(bars, found, "HIGH", i), "LOW", i)

ChartBar(tier, atrPeriod, bars, pass, i) ==
  LET broken == ChartBreak(bars, ChartBreak(bars, pass, "HIGH", i), "LOW", i)
  IN ChartPivot(tier, atrPeriod, bars,
       ChartPivot(tier, atrPeriod, bars, broken, "HIGH", i), "LOW", i)

DetectSwings(tier, atrPeriod, bars) ==
  LET Pass[i \in 0..Len(bars)] ==
        IF i = 0 THEN [events |-> <<>>, sources |-> <<>>, active |-> [t \in Types |-> 0]]
        ELSE ChartBar(tier, atrPeriod, bars, Pass[i - 1], i)
  IN Pass[Len(bars)]

\* A mutant: the box of a broken swing ends where its reversal did.
BoxesToReversal(pass) ==
  {[type |-> pass.events[n].type, pivot |-> pass.events[n].pivot,
    broken |-> \E m \in DOMAIN pass.events : pass.sources[m] = n,
    right |-> pass.events[n].opposite] :
     n \in {m \in DOMAIN pass.events : pass.events[m].status = "CONFIRMED"}}

\* VO_DrawEvents: a confirmed event is drawn unless a broken one stands for it;
\* the box of a broken one has the shape of its source and reaches to the break.
Boxes(pass) ==
  LET Superseded(n) == \E m \in DOMAIN pass.events : pass.sources[m] = n
      Box(n) ==
        LET e == pass.events[n]
            geometry == IF pass.sources[n] = 0 THEN e ELSE pass.events[pass.sources[n]]
        IN [type |-> e.type, pivot |-> geometry.pivot, broken |-> e.status = "BROKEN",
            right |-> IF e.status = "BROKEN" THEN Larger(geometry.opposite, e.at)
                      ELSE geometry.opposite]
  IN {Box(n) : n \in {m \in DOMAIN pass.events :
                        pass.events[m].status = "BROKEN" \/ ~Superseded(m)}}

=============================================================================
