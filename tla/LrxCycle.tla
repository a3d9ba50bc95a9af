------------------------------ MODULE LrxCycle ------------------------------
(***************************************************************************)
(* The CERR cycle of vo.valco, fed by a replay: replay_events walks the    *)
(* bars and finds raids, the legs that follow them and the structure       *)
(* shifts that follow the legs; observe_cycles walks the same bars and     *)
(* hands each bar, or what it confirmed, to the one cycle that is open.    *)
(* Both only look back, so they are one pass here: a bar is one step, and  *)
(* each shift that breaks on it is a step before the next bar.             *)
(*                                                                         *)
(* Prices are numbers of ticks; the ATR is one tick, so the limits in ATRs *)
(* and in points are the same.  A raid returns on the bar after its        *)
(* penetration (return_max_bars is 1), off any level between the two, and  *)
(* a shift may break any earlier swing.                                    *)
(***************************************************************************)
EXTENDS Integers, FiniteSets

CONSTANTS
  None,            \* no leg, retracement or reversal yet
  MaxRange,        \* ConsolidationConfig.max_range_atr; window_bars is 2
  MinLeg,          \* DisplacementConfig.min_atr_range, in mode ATR_RANGE
  MinRetracement,  \* CerrConfig.minimum_retracement_points
  MaxBarsInPhase,  \* CerrConfig.max_bars_in_phase
  Horizon,         \* ReplayConfig.displacement_search_bars
  MaxPrice,        \* bound: prices
  LastBar          \* bound: bars replayed

ASSUME CycleAssumption ==
  /\ {MaxRange, MinLeg, MinRetracement, MaxBarsInPhase, MaxPrice, LastBar} \subseteq Nat
  /\ Horizon \in Nat \ {0}

VARIABLES
  now,       \* index of the latest bar
  last,      \* its high and low
  raids,     \* raids that returned on it (acc.pending)
  awaiting,  \* qualified legs still waiting for a shift (acc.awaiting_shift)
  shifts,    \* legs whose shift broke on it and was not offered yet
  cycle      \* the open cycle, or the last one that ended

replayVars == <<now, last, raids, awaiting>>
vars == <<replayVars, shifts, cycle>>

Prices == 0..MaxPrice
Directions == {"UP", "DOWN"}
Bars == {b \in [high : Prices, low : Prices, close : Prices] :
           b.low <= b.close /\ b.close <= b.high}
Ranges == {r \in [high : Prices, low : Prices] : r.low <= r.high}

(* SweepEvent, DisplacementEvent and RetracementState, less their reports. *)
Raid == [direction : Directions, origin : Prices]
Legs == [direction : Directions, origin : Prices, end : 0..LastBar, reach : Prices]
Retracements == [start : 0..LastBar, depth : Prices]

ASSUME NoneAssumption == None \notin Legs \cup Retracements

---------------------------------------------------------------------------
(* The replay.                                                             *)

Higher(a, b) == IF a >= b THEN a ELSE b
Lower(a, b) == IF a <= b THEN a ELSE b

(* detect_sweep: the previous bar traded beyond a level, this one closes   *)
(* back inside.  direction is the way the raid's reversal goes, origin the *)
(* furthest price of the penetration.                                      *)
Raids(b) ==
  {r \in {[direction |-> "UP", origin |-> last.low],
          [direction |-> "DOWN", origin |-> last.high]} :
     IF r.direction = "UP" THEN r.origin < b.close ELSE r.origin > b.close}

(* The high and low of the last two bars.                                  *)
Window(b) == [high |-> Higher(last.high, b.high), low |-> Lower(last.low, b.low)]
Size(w) == w.high - w.low

LegOfAdverseReach(r, b) ==
  [direction |-> r.direction, origin |-> r.origin, end |-> now + 1,
   reach |-> IF r.direction = "UP" THEN Window(b).low ELSE Window(b).high]

(* measure_displacement: the leg from the raid's return bar to this one.   *)
Leg(r, b) ==
  [direction |-> r.direction, origin |-> r.origin, end |-> now + 1,
   reach |-> IF r.direction = "UP" THEN Window(b).high ELSE Window(b).low]

(* _qualify: every raid gets one measured leg, and only those that pass    *)
(* wait for a shift or reach observe_cycles.                               *)
Qualified(b) == {Leg(r, b) : r \in {q \in raids : Size(Window(b)) >= MinLeg}}

(* replay_events at the next bar b: which raids return on it and which of  *)
(* the waiting legs break a swing depends on levels and swings, so either  *)
(* may be any subset.                                                      *)
Replay(b, returned, broken) ==
  /\ now' = now + 1 /\ last' = [high |-> b.high, low |-> b.low]
  /\ returned \subseteq Raids(b) /\ raids' = returned
  /\ broken \subseteq awaiting
  /\ awaiting' = {l \in awaiting \ broken : now + 1 - l.end < Horizon} \cup Qualified(b)

---------------------------------------------------------------------------
(* The cycle.                                                              *)

Terminal == {"REVERSAL_CONFIRMED", "INVALIDATED", "EXPIRED"}
Reasons == {"BREAKOUT_FAILED", "EXPANSION_ORIGIN_VIOLATED",
            "CONTRADICTORY_DIRECTION", "PHASE_EXPIRED"}

NoCycle == [phase |-> "IDLE", rangeHigh |-> 0, rangeLow |-> 0, began |-> 0, leg |-> None,
            extreme |-> 0, retracement |-> None, reversal |-> None, bars |-> 0, reason |-> None]

Open == cycle.phase \notin Terminal \cup {"IDLE"}
Direction == IF cycle.leg = None THEN None ELSE cycle.leg.direction
Up == Direction = "UP"

(* _advance: the next phase starts counting its bars.                      *)
Advance(phase) == [cycle EXCEPT !.phase = phase, !.bars = 0]
End(phase, reason) == [Advance(phase) EXCEPT !.reason = reason]
Stay == [cycle EXCEPT !.bars = @ + 1]

Init ==
  /\ now = 0 /\ last \in Ranges
  /\ raids = {} /\ awaiting = {} /\ shifts = {}
  /\ cycle = NoCycle

(* No cycle is open: detect_consolidation on the window that ends here.    *)
Consolidates(b) == Size(Window(b)) <= MaxRange

Search(b) ==
  /\ ~Open
  /\ IF Consolidates(b)
     THEN cycle' = [NoCycle EXCEPT !.phase = "CONSOLIDATION", !.began = now + 1,
                      !.rangeHigh = Window(b).high, !.rangeLow = Window(b).low]
     ELSE UNCHANGED cycle

(* observe_displacement on every leg this bar confirms.  The first one     *)
(* that breaks out of a consolidation is its expansion; the bar itself is  *)
(* not observed, nor are the shifts that broke on it.                      *)
BreaksOut(l) ==
  IF l.direction = "UP" THEN l.reach > cycle.rangeHigh ELSE l.reach < cycle.rangeLow

ConfirmLegsAndObserve(b) ==
  /\ Open /\ Qualified(b) # {}
  /\ IF cycle.phase = "CONSOLIDATION"
     THEN \E l \in Qualified(b) :
            cycle' = [Advance("RETRACEMENT") EXCEPT !.leg = l, !.extreme = l.reach,
                        !.retracement = [start |-> now + 1, depth |-> MinRetracement]]
     ELSE UNCHANGED cycle

ConfirmLegs(b) ==
  /\ Open /\ Qualified(b) # {}
  /\ \/ /\ cycle.phase = "CONSOLIDATION"
        /\ \E l \in Qualified(b) :
             /\ BreaksOut(l)
             /\ cycle' = [Advance("EXPANSION") EXCEPT !.leg = l, !.extreme = l.reach]
     \/ /\ \/ cycle.phase # "CONSOLIDATION"
           \/ \A l \in Qualified(b) : ~BreaksOut(l)
        /\ UNCHANGED cycle

(* observe_bar, in the order of its tests.                                 *)
Overdue == cycle.bars + 1 > MaxBarsInPhase
FallsBack(b) ==
  cycle.phase = "EXPANSION" /\ cycle.rangeLow <= b.close /\ b.close <= cycle.rangeHigh
PastOrigin(price) ==
  IF Up THEN price < cycle.leg.origin ELSE price > cycle.leg.origin
Extends(b) ==
  cycle.phase = "EXPANSION" /\ (IF Up THEN b.high > cycle.extreme ELSE b.low < cycle.extreme)
Depth(b) ==
  Higher(0, IF Up THEN cycle.extreme - b.low ELSE b.high - cycle.extreme)

Holds(b) == cycle.leg # None /\ ~FallsBack(b) /\ ~PastOrigin(b.close)

Expire(b) == Overdue /\ cycle' = End("EXPIRED", "PHASE_EXPIRED")

Idle(b) == ~Overdue /\ cycle.leg = None /\ cycle' = Stay

Invalidate(b) ==
  /\ ~Overdue /\ cycle.leg # None /\ ~Holds(b)
  /\ cycle' = End("INVALIDATED",
                  IF FallsBack(b) THEN "BREAKOUT_FAILED" ELSE "EXPANSION_ORIGIN_VIOLATED")

Extend(b) ==
  /\ ~Overdue /\ Holds(b) /\ Extends(b)
  /\ cycle' = [Stay EXCEPT !.extreme = IF Up THEN b.high ELSE b.low]

OpenRetracement(b) ==
  /\ ~Overdue /\ Holds(b) /\ ~Extends(b)
  /\ cycle.phase = "EXPANSION" /\ Depth(b) >= MinRetracement
  /\ cycle' = [Advance("RETRACEMENT") EXCEPT
                 !.retracement = [start |-> now + 1, depth |-> Depth(b)]]

Shallow(b) ==
  /\ ~Overdue /\ Holds(b) /\ ~Extends(b)
  /\ cycle.phase = "EXPANSION" /\ Depth(b) < MinRetracement
  /\ cycle' = Stay

Deepen(b) ==
  /\ ~Overdue /\ Holds(b) /\ cycle.phase = "RETRACEMENT"
  /\ cycle' = [Stay EXCEPT !.retracement.depth = Higher(@, Depth(b))]

Observe(b) ==
  /\ Open /\ Qualified(b) = {}
  /\ \/ Expire(b) \/ Idle(b) \/ Invalidate(b) \/ Extend(b)
     \/ OpenRetracement(b) \/ Shallow(b) \/ Deepen(b)

(* The shifts of a bar are offered only to a cycle that was fed that bar   *)
(* and is still open.                                                      *)
Offered(b, broken) ==
  IF Open /\ Qualified(b) = {} /\ cycle'.phase \notin Terminal THEN broken ELSE {}

OfferEitherWay ==
  /\ \E l \in shifts :
       /\ \A m \in shifts : l.end <= m.end
       /\ IF cycle.phase = "RETRACEMENT" /\ cycle.retracement.start <= now
          THEN /\ shifts' = {}
               /\ cycle' = [Advance("REVERSAL_CONFIRMED") EXCEPT !.reversal = l]
          ELSE /\ shifts' = shifts \ {l}
               /\ UNCHANGED cycle
  /\ UNCHANGED replayVars

(* observe_reversal, for the shifts of this bar, the oldest leg first.     *)
Offer ==
  /\ \E l \in shifts :
       /\ \A m \in shifts : l.end <= m.end
       /\ IF cycle.phase = "RETRACEMENT" /\ cycle.retracement.start <= now
          THEN /\ shifts' = {}
               /\ cycle' = IF l.direction = Direction
                           THEN [Advance("REVERSAL_CONFIRMED") EXCEPT !.reversal = l]
                           ELSE End("INVALIDATED", "CONTRADICTORY_DIRECTION")
          ELSE /\ shifts' = shifts \ {l}
               /\ UNCHANGED cycle
  /\ UNCHANGED replayVars

NextBar ==
  /\ now < LastBar /\ shifts = {}
  /\ \E b \in Bars :
       /\ Search(b) \/ ConfirmLegs(b) \/ Observe(b)
       /\ \E returned \in SUBSET Raids(b), broken \in SUBSET awaiting :
            /\ Replay(b, returned, broken)
            /\ shifts' = Offered(b, broken)

Next == NextBar \/ Offer

Spec == Init /\ [][Next]_vars

---------------------------------------------------------------------------
(* A cycle has the parts its phase promises and no others.                 *)
TypeOK ==
  /\ now \in 0..LastBar /\ last \in Ranges
  /\ raids \subseteq Raid /\ awaiting \subseteq Legs /\ shifts \subseteq Legs
  /\ cycle \in [phase : Terminal \cup {"IDLE", "CONSOLIDATION", "EXPANSION", "RETRACEMENT"},
                rangeHigh : Prices, rangeLow : Prices, began : 0..LastBar,
                leg : Legs \cup {None}, extreme : Prices,
                retracement : Retracements \cup {None},
                reversal : Legs \cup {None}, bars : 0..MaxBarsInPhase,
                reason : Reasons \cup {None}]
  /\ cycle.phase \in {"EXPANSION", "RETRACEMENT", "REVERSAL_CONFIRMED"} => cycle.leg # None
  /\ cycle.phase \in {"RETRACEMENT", "REVERSAL_CONFIRMED"} => cycle.retracement # None
  /\ (cycle.phase = "REVERSAL_CONFIRMED") <=> (cycle.reversal # None)

(* Where the cycle points: at its end, where its reversal does.            *)
Heading == IF cycle.reversal = None THEN Direction ELSE cycle.reversal.direction

Phases == INSTANCE CerrPhases WITH phase <- cycle.phase, direction <- Heading

(* The cycle goes through the phases of the docstring's diagram and no     *)
(* others, and the reversal that ends it resumes the expansion.            *)
ImplementsPhases == Phases!PhaseSpec

(* The retracement is price action after the leg: no bar of the leg itself *)
(* is read as a pullback from the extreme that the leg has only just made  *)
(* (the comment on _index_by_confirmation), and the shift comes last.      *)
PhasesInOrderOfBars ==
  /\ cycle.leg # None => cycle.began < cycle.leg.end
  /\ cycle.retracement # None => cycle.leg.end < cycle.retracement.start
  /\ cycle.reversal # None => cycle.reversal.end < now

(* A cycle has the parts its phase promises, on bars in that order, and no *)
(* phase lasts longer than it may (lrx_calibration.py:388).                *)
CycleIsInOrder == TypeOK /\ PhasesInOrderOfBars

(* There is an expansion to resume: as long as the cycle is open, the      *)
(* extreme of its expansion lies beyond the origin.                        *)
ExpansionHasLength ==
  Open /\ cycle.leg # None =>
    IF Up THEN cycle.leg.origin < cycle.extreme ELSE cycle.leg.origin > cycle.extreme
=============================================================================
