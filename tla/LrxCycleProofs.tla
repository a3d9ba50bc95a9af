--------------------------- MODULE LrxCycleProofs ---------------------------
(***************************************************************************)
(* Theorems about the CERR cycle, for every price range, length of history *)
(* and setting of its thresholds.  The argument: a raid's origin lies      *)
(* behind the bar it returned on, so a leg's reach lies beyond its origin  *)
(* (RaidsInv, QualifiedLegs); every event is dated no later than the bar   *)
(* that reveals it (EventsInv); and a cycle keeps the parts and the dates  *)
(* of the phases it went through (CycleInv), one lemma for each way a bar  *)
(* or a shift may move it.                                                 *)
(***************************************************************************)
EXTENDS LrxCycle, TLAPS

PhaseNames == Terminal \cup {"IDLE", "CONSOLIDATION", "EXPANSION", "RETRACEMENT"}

Cycles ==
  [phase : PhaseNames,
   rangeHigh : Prices, rangeLow : Prices, began : 0..LastBar,
   leg : Legs \cup {None}, extreme : Prices, retracement : Retracements \cup {None},
   reversal : Legs \cup {None}, bars : 0..MaxBarsInPhase, reason : Reasons \cup {None}]

Beyond(direction, origin, price) ==
  IF direction = "UP" THEN origin < price ELSE origin > price

RaidsInv ==
  /\ raids \subseteq Raid
  /\ \A r \in raids :
       Beyond(r.direction, r.origin, IF r.direction = "UP" THEN last.high ELSE last.low)

EventsInv ==
  /\ awaiting \subseteq Legs /\ shifts \subseteq Legs
  /\ \A l \in awaiting : l.end <= now
  /\ \A l \in shifts : l.end < now

CycleInv(c, n) ==
  /\ c \in Cycles
  /\ c.began <= n
  /\ c.phase \in {"IDLE", "CONSOLIDATION"} => c.leg = None
  /\ c.phase \in {"IDLE", "CONSOLIDATION", "EXPANSION"} => c.retracement = None
  /\ c.phase \in {"EXPANSION", "RETRACEMENT", "REVERSAL_CONFIRMED"} => c.leg # None
  /\ c.phase \in {"RETRACEMENT", "REVERSAL_CONFIRMED"} => c.retracement # None
  /\ (c.phase = "REVERSAL_CONFIRMED") <=> (c.reversal # None)
  /\ c.leg # None =>
       /\ c.began < c.leg.end /\ c.leg.end <= n
       /\ Beyond(c.leg.direction, c.leg.origin, c.extreme)
  /\ c.retracement # None =>
       /\ c.leg # None
       /\ c.leg.end < c.retracement.start /\ c.retracement.start <= n
  /\ c.reversal # None => c.reversal.end < n

Inv ==
  /\ now \in 0..LastBar /\ last \in Ranges
  /\ RaidsInv /\ EventsInv /\ CycleInv(cycle, now)

-----------------------------------------------------------------------------
(* What a bar reveals.                                                     *)

LEMMA Constants ==
  /\ MaxPrice \in Nat /\ LastBar \in Nat /\ MaxBarsInPhase \in Nat
  /\ MinRetracement \in Nat /\ MinLeg \in Nat /\ MaxRange \in Nat
  BY CycleAssumption

LEMMA WindowType ==
  ASSUME Inv, NEW b \in Bars
  PROVE  /\ Window(b).high \in Prices /\ Window(b).low \in Prices
         /\ Window(b).high >= last.high /\ Window(b).low <= last.low
  BY Constants DEF Inv, Window, Higher, Lower, Bars, Ranges, Prices

(* A raid that returns on b was penetrated on the other side of b's close. *)
LEMMA RaidsReturn ==
  ASSUME Inv, NEW b \in Bars, NEW r \in Raids(b)
  PROVE  /\ r \in Raid
         /\ Beyond(r.direction, r.origin, IF r.direction = "UP" THEN b.high ELSE b.low)
  BY Constants DEF Inv, Raids, Raid, Beyond, Bars, Ranges, Prices, Directions

LEMMA QualifiedLegs ==
  ASSUME Inv, NEW b \in Bars, now < LastBar, NEW l \in Qualified(b)
  PROVE  /\ l \in Legs /\ l.end = now + 1
         /\ Beyond(l.direction, l.origin, l.reach)
<1>1. PICK r \in raids : l = Leg(r, b)
  BY DEF Qualified
<1>2. r \in Raid /\ Beyond(r.direction, r.origin, IF r.direction = "UP" THEN last.high ELSE last.low)
  BY <1>1 DEF Inv, RaidsInv
<1>3. l.direction = r.direction /\ l.origin = r.origin /\ l.end = now + 1
  BY <1>1 DEF Leg
<1>4. l.reach = IF r.direction = "UP" THEN Window(b).high ELSE Window(b).low
  BY <1>1 DEF Leg
<1>5. l \in Legs
  BY <1>1, <1>2, WindowType, Constants DEF Leg, Legs, Raid, Inv
<1>6. Beyond(l.direction, l.origin, l.reach)
  BY <1>2, <1>3, <1>4, WindowType, Constants DEF Beyond, Raid, Inv, Ranges, Prices
<1>7. QED
  BY <1>3, <1>5, <1>6

LEMMA ReplayKeepsEvents ==
  ASSUME Inv, NEW b \in Bars, now < LastBar, shifts = {},
         NEW returned \in SUBSET Raids(b), NEW broken \in SUBSET awaiting,
         Replay(b, returned, broken), shifts' = Offered(b, broken)
  PROVE  now' \in 0..LastBar /\ last' \in Ranges /\ RaidsInv' /\ EventsInv'
<1>1. now' = now + 1 /\ last' = [high |-> b.high, low |-> b.low]
  BY DEF Replay
<1>2. now' \in 0..LastBar
  BY <1>1, Constants DEF Inv
<1>3. last' \in Ranges
  BY <1>1, Constants DEF Bars, Ranges, Prices
<1>4. RaidsInv'
  <2>1. raids' \subseteq Raids(b)
    BY DEF Replay
  <2>2. \A r \in raids' : /\ r \in Raid
                          /\ Beyond(r.direction, r.origin,
                                    IF r.direction = "UP" THEN b.high ELSE b.low)
    BY <2>1, RaidsReturn
  <2>3. last'.high = b.high /\ last'.low = b.low
    BY <1>1
  <2>4. QED
    BY <2>2, <2>3 DEF RaidsInv, Beyond
<1>5. EventsInv'
  <2>1. \A l \in awaiting' : l \in awaiting \/ l \in Qualified(b)
    BY DEF Replay
  <2>2. \A l \in awaiting' : l \in Legs /\ l.end <= now + 1
    BY <2>1, QualifiedLegs, Constants DEF Inv, EventsInv, Legs
  <2>3. shifts' \subseteq awaiting
    BY DEF Offered
  <2>4. \A l \in shifts' : l \in Legs /\ l.end < now + 1
    BY <2>3, Constants DEF Inv, EventsInv, Legs
  <2>5. QED
    BY <1>1, <2>2, <2>4 DEF EventsInv
<1>6. QED
  BY <1>2, <1>3, <1>4, <1>5

-----------------------------------------------------------------------------
(* What a bar and a shift do to the cycle.                                 *)

LEMMA LaterBar ==
  ASSUME NEW n \in Nat, NEW c, CycleInv(c, n)
  PROVE  CycleInv(c, n + 1)
<1>1. c.began <= n + 1
  BY Constants DEF CycleInv, Cycles
<1>2. c.leg # None => c.leg.end <= n + 1
  BY Constants DEF CycleInv, Cycles, Legs
<1>3. c.retracement # None => c.retracement.start <= n + 1
  BY Constants DEF CycleInv, Cycles, Retracements
<1>4. c.reversal # None => c.reversal.end < n + 1
  BY Constants DEF CycleInv, Cycles, Legs
<1>5. QED
  BY <1>1, <1>2, <1>3, <1>4 DEF CycleInv

LEMMA NoCycleType ==
  /\ NoCycle \in Cycles
  /\ NoCycle.phase = "IDLE" /\ NoCycle.began = 0 /\ NoCycle.leg = None
  /\ NoCycle.retracement = None /\ NoCycle.reversal = None
<1>1. 0 \in Prices /\ 0 \in 0..LastBar /\ 0 \in 0..MaxBarsInPhase /\ "IDLE" \in PhaseNames
  BY Constants DEF Prices, PhaseNames
<1>2. QED
  BY <1>1 DEF NoCycle, Cycles

LEMMA AdvanceType ==
  ASSUME cycle \in Cycles, NEW p \in PhaseNames
  PROVE  /\ Advance(p) \in Cycles
         /\ Advance(p).phase = p /\ Advance(p).began = cycle.began
         /\ Advance(p).leg = cycle.leg /\ Advance(p).extreme = cycle.extreme
         /\ Advance(p).retracement = cycle.retracement
         /\ Advance(p).reversal = cycle.reversal
<1>1. 0 \in 0..MaxBarsInPhase
  BY Constants
<1>2. QED
  BY <1>1 DEF Advance, Cycles

LEMMA StayType ==
  ASSUME cycle \in Cycles, ~Overdue
  PROVE  Stay \in Cycles
<1>1. cycle.bars + 1 \in 0..MaxBarsInPhase
  BY Constants DEF Cycles, Overdue
<1>2. QED
  BY <1>1 DEF Stay, Cycles

LEMMA SearchStep ==
  ASSUME Inv, NEW b \in Bars, now < LastBar, Search(b)
  PROVE  CycleInv(cycle', now + 1)
<1>1. now \in Nat /\ now + 1 \in 0..LastBar
  BY Constants DEF Inv
<1>2. CASE Consolidates(b)
  <2>1. cycle' = [NoCycle EXCEPT !.phase = "CONSOLIDATION", !.began = now + 1,
                    !.rangeHigh = Window(b).high, !.rangeLow = Window(b).low]
    BY <1>2 DEF Search
  <2>2. "CONSOLIDATION" \in PhaseNames
    BY DEF PhaseNames
  <2>3. cycle' \in Cycles
    BY <1>1, <2>1, <2>2, WindowType, NoCycleType DEF Cycles
  <2>4. /\ cycle'.phase = "CONSOLIDATION" /\ cycle'.began = now + 1 /\ cycle'.leg = None
        /\ cycle'.retracement = None /\ cycle'.reversal = None
    BY <2>1, NoCycleType DEF Cycles
  <2>5. QED
    BY <1>1, <2>3, <2>4 DEF CycleInv
<1>3. CASE ~Consolidates(b)
  BY <1>1, <1>3, LaterBar DEF Search, Inv
<1>4. QED
  BY <1>2, <1>3

LEMMA ConfirmLegsStep ==
  ASSUME Inv, NEW b \in Bars, now < LastBar, ConfirmLegs(b)
  PROVE  CycleInv(cycle', now + 1)
<1>1. now \in Nat /\ now + 1 \in 0..LastBar
  BY Constants DEF Inv
<1>2. CASE UNCHANGED cycle
  BY <1>1, <1>2, LaterBar DEF Inv
<1>3. CASE cycle' # cycle
  <2>1. cycle.phase = "CONSOLIDATION"
    BY <1>3 DEF ConfirmLegs
  <2>2. PICK l \in Qualified(b) :
          cycle' = [Advance("EXPANSION") EXCEPT !.leg = l, !.extreme = l.reach]
    BY <1>3 DEF ConfirmLegs
  <2>3. l \in Legs /\ l.end = now + 1 /\ Beyond(l.direction, l.origin, l.reach)
    BY QualifiedLegs
  <2>4. l # None
    BY <2>3, NoneAssumption
  <2>5. cycle \in Cycles /\ cycle.began <= now
    BY DEF Inv, CycleInv
  <2>6. cycle' \in Cycles
    <3>1. "EXPANSION" \in PhaseNames
      BY DEF PhaseNames
    <3>2. l.reach \in Prices
      BY <2>3 DEF Legs
    <3>3. Advance("EXPANSION") \in Cycles
      BY <2>5, <3>1, AdvanceType
    <3>4. QED
      BY <2>2, <2>3, <3>2, <3>3 DEF Cycles
  <2>7. /\ cycle'.phase = "EXPANSION" /\ cycle'.leg = l /\ cycle'.extreme = l.reach
        /\ cycle'.began = cycle.began
        /\ cycle'.retracement = cycle.retracement /\ cycle'.reversal = cycle.reversal
    BY <2>2, <2>5 DEF Cycles, Advance
  <2>8. cycle.retracement = None /\ cycle.reversal = None
    BY <2>1 DEF Inv, CycleInv
  <2>9. cycle.began < now + 1 /\ cycle.began <= now + 1 /\ now + 1 <= now + 1
    BY <2>5, <1>1, Constants DEF Cycles
  <2>10. QED
    BY <2>3, <2>4, <2>6, <2>7, <2>8, <2>9 DEF CycleInv
<1>4. QED
  BY <1>2, <1>3

(* The parts of an open cycle that a bar which moves no phase keeps.       *)
LEMMA StayStep ==
  ASSUME Inv, now < LastBar, Open, ~Overdue, cycle' = Stay
  PROVE  CycleInv(cycle', now + 1)
<1>1. now \in Nat /\ cycle \in Cycles /\ CycleInv(cycle, now + 1)
  BY LaterBar, Constants DEF Inv, CycleInv
<1>2. cycle' \in Cycles
  BY <1>1, StayType
<1>3. /\ cycle'.phase = cycle.phase /\ cycle'.began = cycle.began /\ cycle'.leg = cycle.leg
      /\ cycle'.extreme = cycle.extreme /\ cycle'.retracement = cycle.retracement
      /\ cycle'.reversal = cycle.reversal
  BY <1>1 DEF Cycles, Stay
<1>4. QED
  BY <1>1, <1>2, <1>3 DEF CycleInv

LEMMA EndStep ==
  ASSUME NEW n \in Nat, CycleInv(cycle, n), Open,
         NEW phase \in {"EXPIRED", "INVALIDATED"}, NEW reason \in Reasons,
         cycle' = End(phase, reason)
  PROVE  CycleInv(cycle', n)
<1>1. cycle \in Cycles
  BY DEF CycleInv
<1>2. cycle' \in Cycles
  <2>1. phase \in PhaseNames
    BY DEF PhaseNames, Terminal
  <2>2. QED
    BY <1>1, <2>1, AdvanceType DEF Cycles, End
<1>3. /\ cycle'.phase = phase /\ cycle'.began = cycle.began /\ cycle'.leg = cycle.leg
      /\ cycle'.extreme = cycle.extreme /\ cycle'.retracement = cycle.retracement
      /\ cycle'.reversal = cycle.reversal
  BY <1>1 DEF Cycles, End, Advance
<1>4. cycle.reversal = None
  BY DEF CycleInv, Open, Terminal
<1>5. QED
  BY <1>2, <1>3, <1>4 DEF CycleInv

LEMMA ExtendStep ==
  ASSUME Inv, NEW b \in Bars, now < LastBar, Open, Extend(b)
  PROVE  CycleInv(cycle', now + 1)
<1>1. now \in Nat /\ cycle \in Cycles /\ CycleInv(cycle, now + 1)
  BY LaterBar, Constants DEF Inv, CycleInv
<1>2. cycle' = [Stay EXCEPT !.extreme = IF Up THEN b.high ELSE b.low]
  BY DEF Extend
<1>3. cycle' \in Cycles
  <2>1. b.high \in Prices /\ b.low \in Prices /\ ~Overdue
    BY DEF Bars, Extend
  <2>2. QED
    BY <1>1, <1>2, <2>1, StayType DEF Cycles
<1>4. /\ cycle'.phase = cycle.phase /\ cycle'.began = cycle.began /\ cycle'.leg = cycle.leg
      /\ cycle'.extreme = (IF Up THEN b.high ELSE b.low)
      /\ cycle'.retracement = cycle.retracement /\ cycle'.reversal = cycle.reversal
  BY <1>1, <1>2 DEF Cycles, Stay
<1>5. cycle.leg \in Legs
  BY <1>1 DEF Extend, Holds, Cycles
<1>6. Beyond(cycle.leg.direction, cycle.leg.origin, cycle'.extreme)
  <2>1. Beyond(cycle.leg.direction, cycle.leg.origin, cycle.extreme)
    BY DEF Inv, CycleInv, Extend, Holds
  <2>2. cycle.extreme \in Int /\ cycle.leg.origin \in Int /\ b.high \in Int /\ b.low \in Int
    BY <1>1, <1>5, Constants DEF Cycles, Legs, Bars, Prices
  <2>3. (cycle.leg.direction = "UP") <=> Up
    BY DEF Up, Direction, Extend, Holds
  <2>4. IF Up THEN b.high > cycle.extreme ELSE b.low < cycle.extreme
    BY DEF Extend, Extends
  <2>5. QED
    BY <1>4, <2>1, <2>2, <2>3, <2>4 DEF Beyond
<1>7. QED
  BY <1>1, <1>3, <1>4, <1>6 DEF CycleInv

LEMMA DepthType ==
  ASSUME Inv, NEW b \in Bars
  PROVE  Depth(b) \in Prices
<1>1. cycle.extreme \in Prices /\ b.low \in Prices /\ b.high \in Prices
  BY DEF Inv, CycleInv, Cycles, Bars
<1>2. QED
  BY <1>1, Constants DEF Depth, Higher, Prices

LEMMA OpenRetracementStep ==
  ASSUME Inv, NEW b \in Bars, now < LastBar, Open, OpenRetracement(b)
  PROVE  CycleInv(cycle', now + 1)
<1>1. now \in Nat /\ now + 1 \in 0..LastBar /\ cycle \in Cycles /\ CycleInv(cycle, now)
  BY Constants DEF Inv, CycleInv
<1> DEFINE ret == [start |-> now + 1, depth |-> Depth(b)]
<1>2. ret \in Retracements /\ ret.start = now + 1
  BY <1>1, DepthType DEF Retracements
<1>3. ret # None
  BY <1>2, NoneAssumption
<1>4. cycle' = [Advance("RETRACEMENT") EXCEPT !.retracement = ret]
  BY DEF OpenRetracement
<1>5. /\ cycle'.phase = "RETRACEMENT" /\ cycle'.began = cycle.began /\ cycle'.leg = cycle.leg
      /\ cycle'.extreme = cycle.extreme /\ cycle'.retracement = ret
      /\ cycle'.reversal = cycle.reversal
  BY <1>1, <1>4 DEF Cycles, Advance
<1>6. cycle' \in Cycles
  <2>1. "RETRACEMENT" \in PhaseNames
    BY DEF PhaseNames
  <2>2. QED
    BY <1>1, <1>2, <1>4, <2>1, AdvanceType DEF Cycles
<1>7. cycle.leg # None /\ cycle.reversal = None
  BY <1>1 DEF OpenRetracement, Holds, CycleInv
<1>8. cycle.leg.end < now + 1 /\ cycle.began <= now + 1
  BY <1>1, <1>7, Constants DEF CycleInv, Cycles, Legs
<1>9. cycle.began < cycle.leg.end /\ Beyond(cycle.leg.direction, cycle.leg.origin, cycle.extreme)
  BY <1>1, <1>7 DEF CycleInv
<1>10. cycle.leg.end <= now + 1 /\ ret.start <= now + 1
  BY <1>1, <1>2, <1>7, <1>8, Constants DEF Cycles, Legs
<1>11. QED
  BY <1>2, <1>3, <1>5, <1>6, <1>7, <1>8, <1>9, <1>10 DEF CycleInv

LEMMA DeepenStep ==
  ASSUME Inv, NEW b \in Bars, now < LastBar, Open, Deepen(b)
  PROVE  CycleInv(cycle', now + 1)
<1>1. now \in Nat /\ cycle \in Cycles /\ CycleInv(cycle, now + 1)
  BY LaterBar, Constants DEF Inv, CycleInv
<1>2. cycle.retracement \in Retracements /\ cycle.retracement # None
  BY <1>1 DEF Deepen, CycleInv, Cycles
<1> DEFINE ret == [cycle.retracement EXCEPT !.depth = Higher(@, Depth(b))]
<1>3. ret \in Retracements /\ ret.start = cycle.retracement.start
  BY <1>2, DepthType, Constants DEF Retracements, Higher, Prices
<1>4. ret # None
  BY <1>3, NoneAssumption
<1>5. cycle' = [Stay EXCEPT !.retracement = ret]
  BY <1>1 DEF Deepen, Stay, Cycles
<1>6. /\ cycle'.phase = cycle.phase /\ cycle'.began = cycle.began /\ cycle'.leg = cycle.leg
      /\ cycle'.extreme = cycle.extreme /\ cycle'.retracement = ret
      /\ cycle'.reversal = cycle.reversal
  BY <1>1, <1>5 DEF Cycles, Stay
<1>7. cycle' \in Cycles
  <2>1. ~Overdue
    BY DEF Deepen
  <2>2. QED
    BY <1>1, <1>3, <1>5, <2>1, StayType DEF Cycles
<1>8. QED
  BY <1>1, <1>2, <1>3, <1>4, <1>6, <1>7 DEF CycleInv

LEMMA ObserveStep ==
  ASSUME Inv, NEW b \in Bars, now < LastBar, Observe(b)
  PROVE  CycleInv(cycle', now + 1)
<1>1. Open /\ now \in Nat /\ CycleInv(cycle, now + 1)
  BY LaterBar, Constants DEF Observe, Inv
<1>2. CASE Expire(b)
  BY <1>1, <1>2, EndStep DEF Expire, Reasons
<1>3. CASE Idle(b)
  BY <1>1, <1>3, StayStep DEF Idle
<1>4. CASE Invalidate(b)
  BY <1>1, <1>4, EndStep DEF Invalidate, Reasons
<1>5. CASE Extend(b)
  BY <1>1, <1>5, ExtendStep
<1>6. CASE OpenRetracement(b)
  BY <1>1, <1>6, OpenRetracementStep
<1>7. CASE Shallow(b)
  BY <1>1, <1>7, StayStep DEF Shallow
<1>8. CASE Deepen(b)
  BY <1>1, <1>8, DeepenStep
<1>9. QED
  BY <1>2, <1>3, <1>4, <1>5, <1>6, <1>7, <1>8 DEF Observe

LEMMA OfferStep ==
  ASSUME Inv, Offer
  PROVE  Inv'
<1>1. UNCHANGED replayVars /\ shifts' \subseteq shifts
  BY DEF Offer
<1>2. now \in Nat /\ CycleInv(cycle, now) /\ cycle \in Cycles
  BY Constants DEF Inv, CycleInv
<1>3. PICK l \in shifts :
        IF cycle.phase = "RETRACEMENT" /\ cycle.retracement.start <= now
        THEN cycle' = IF l.direction = Direction
                      THEN [Advance("REVERSAL_CONFIRMED") EXCEPT !.reversal = l]
                      ELSE End("INVALIDATED", "CONTRADICTORY_DIRECTION")
        ELSE UNCHANGED cycle
  BY DEF Offer
<1>4. CycleInv(cycle', now)
  <2>1. CASE UNCHANGED cycle
    BY <1>2, <2>1
  <2>2. CASE cycle.phase = "RETRACEMENT" /\ cycle' = End("INVALIDATED", "CONTRADICTORY_DIRECTION")
    BY <1>2, <2>2, EndStep DEF Open, Terminal, Reasons
  <2>3. CASE /\ cycle.phase = "RETRACEMENT"
             /\ cycle' = [Advance("REVERSAL_CONFIRMED") EXCEPT !.reversal = l]
    <3>1. l \in Legs /\ l.end < now /\ l # None
      BY NoneAssumption DEF Inv, EventsInv
    <3>2. /\ cycle'.phase = "REVERSAL_CONFIRMED" /\ cycle'.began = cycle.began
          /\ cycle'.leg = cycle.leg /\ cycle'.extreme = cycle.extreme
          /\ cycle'.retracement = cycle.retracement /\ cycle'.reversal = l
      BY <1>2, <2>3 DEF Cycles, Advance
    <3>3. cycle' \in Cycles
      <4>1. "REVERSAL_CONFIRMED" \in PhaseNames
        BY DEF PhaseNames, Terminal
      <4>2. QED
        BY <1>2, <2>3, <3>1, <4>1, AdvanceType DEF Cycles
    <3>4. QED
      BY <1>2, <2>3, <3>1, <3>2, <3>3 DEF CycleInv
  <2>4. QED
    BY <1>3, <2>1, <2>2, <2>3
<1>5. RaidsInv' /\ EventsInv' /\ now' = now /\ last' = last
  BY <1>1 DEF Inv, RaidsInv, EventsInv, replayVars
<1>6. QED
  BY <1>4, <1>5 DEF Inv

-----------------------------------------------------------------------------
(* The theorems.                                                           *)

LEMMA InvInit == Init => Inv
<1>1. SUFFICES ASSUME Init PROVE Inv
  OBVIOUS
<1>2. CycleInv(cycle, now)
  BY <1>1, NoCycleType DEF Init, CycleInv
<1>3. RaidsInv /\ EventsInv
  BY <1>1 DEF Init, RaidsInv, EventsInv
<1>4. now \in 0..LastBar /\ last \in Ranges
  BY <1>1, Constants DEF Init
<1>5. QED
  BY <1>2, <1>3, <1>4 DEF Inv

LEMMA InvNext == Inv /\ [Next]_vars => Inv'
<1>1. ASSUME Inv, NextBar PROVE Inv'
  <2>1. PICK b \in Bars :
          /\ Search(b) \/ ConfirmLegs(b) \/ Observe(b)
          /\ \E returned \in SUBSET Raids(b), broken \in SUBSET awaiting :
               Replay(b, returned, broken) /\ shifts' = Offered(b, broken)
    BY <1>1 DEF NextBar
  <2>2. now < LastBar /\ shifts = {}
    BY <1>1 DEF NextBar
  <2>3. now' = now + 1
    BY <2>1 DEF Replay
  <2>4. now' \in 0..LastBar /\ last' \in Ranges /\ RaidsInv' /\ EventsInv'
    BY <1>1, <2>1, <2>2, ReplayKeepsEvents
  <2>5. CycleInv(cycle', now + 1)
    BY <1>1, <2>1, <2>2, SearchStep, ConfirmLegsStep, ObserveStep
  <2>6. QED
    BY <2>3, <2>4, <2>5 DEF Inv
<1>2. ASSUME Inv, UNCHANGED vars PROVE Inv'
  BY <1>2 DEF Inv, RaidsInv, EventsInv, CycleInv, vars, replayVars
<1>3. QED
  BY <1>1, <1>2, OfferStep DEF Next

LEMMA InvHolds == Spec => []Inv
  BY InvInit, InvNext, PTL DEF Spec

(* The state always has its types, and a cycle has the parts that its      *)
(* phase promises and no others: what detect, observe and advance build    *)
(* of CerrCycle, for every threshold.                                      *)
THEOREM Typed == Spec => []TypeOK
<1>1. Inv => TypeOK
  BY DEF Inv, RaidsInv, EventsInv, CycleInv, Cycles, PhaseNames, TypeOK
<1>2. QED
  BY <1>1, InvHolds, PTL

(* The bars of a cycle come in the order of its phases, however raids,     *)
(* legs and shifts fall: range before leg, leg before retracement, and the *)
(* shift last.  observe_bar skips the bars that confirm a leg, and this is *)
(* what it skips them for.                                                 *)
THEOREM InOrderOfBars == Spec => []CycleIsInOrder
<1>1. Inv => PhasesInOrderOfBars
  BY DEF Inv, CycleInv, PhasesInOrderOfBars
<1>2. TypeOK /\ PhasesInOrderOfBars => CycleIsInOrder
  BY DEF CycleIsInOrder
<1>3. QED
  BY <1>1, <1>2, InvHolds, Typed, PTL

(* An open cycle's expansion has a length, since a raid returns on the far *)
(* side of its own penetration and the extreme only moves away from it.    *)
THEOREM HasLength == Spec => []ExpansionHasLength
<1>1. Inv => ExpansionHasLength
  <2>1. SUFFICES ASSUME Inv, cycle.leg # None
                 PROVE  IF Up THEN cycle.leg.origin < cycle.extreme
                              ELSE cycle.leg.origin > cycle.extreme
    BY DEF ExpansionHasLength
  <2>2. Beyond(cycle.leg.direction, cycle.leg.origin, cycle.extreme)
    BY <2>1 DEF Inv, CycleInv
  <2>3. Up <=> cycle.leg.direction = "UP"
    BY <2>1 DEF Up, Direction
  <2>4. QED
    BY <2>2, <2>3 DEF Beyond
<1>2. QED
  BY <1>1, InvHolds, PTL

-----------------------------------------------------------------------------
(* The cycle implements the diagram of its phases.                         *)

PhaseStep == [Phases!PhaseNext]_(Phases!phaseVars)

LEMMA SearchPhase ==
  ASSUME Inv, NEW b \in Bars, Search(b)
  PROVE  PhaseStep
<1>1. CASE Consolidates(b)
  <2>1. cycle' = [NoCycle EXCEPT !.phase = "CONSOLIDATION", !.began = now + 1,
                    !.rangeHigh = Window(b).high, !.rangeLow = Window(b).low]
    BY <1>1 DEF Search
  <2>2. cycle'.phase = "CONSOLIDATION" /\ cycle'.leg = None /\ cycle'.reversal = None
    BY <2>1, NoCycleType DEF Cycles
  <2>3. Heading' = None
    BY <2>2 DEF Heading, Direction
  <2>4. cycle.phase \in Terminal \cup {"IDLE"}
    BY DEF Search, Open
  <2>5. Phases!Begin
    BY <2>2, <2>3, <2>4 DEF Phases!Begin, Phases!Terminal, Terminal
  <2>6. QED
    BY <2>5 DEF PhaseStep, Phases!PhaseNext
<1>2. CASE ~Consolidates(b)
  BY <1>2 DEF Search, PhaseStep, Phases!phaseVars, Heading, Direction
<1>3. QED
  BY <1>1, <1>2

LEMMA ConfirmLegsPhase ==
  ASSUME Inv, NEW b \in Bars, now < LastBar, ConfirmLegs(b)
  PROVE  PhaseStep
<1>1. CASE UNCHANGED cycle
  BY <1>1 DEF PhaseStep, Phases!phaseVars, Heading, Direction
<1>2. CASE cycle' # cycle
  <2>1. cycle.phase = "CONSOLIDATION" /\ cycle \in Cycles /\ cycle.reversal = None
    BY <1>2 DEF ConfirmLegs, Inv, CycleInv
  <2>2. PICK l \in Qualified(b) :
          cycle' = [Advance("EXPANSION") EXCEPT !.leg = l, !.extreme = l.reach]
    BY <1>2 DEF ConfirmLegs
  <2>3. cycle'.phase = "EXPANSION" /\ cycle'.leg = l /\ cycle'.reversal = None
    BY <2>1, <2>2 DEF Cycles, Advance
  <2>4. l \in Legs
    BY QualifiedLegs
  <2>5. l # None
    BY <2>4, NoneAssumption
  <2>6. Heading' = l.direction
    BY <2>3, <2>5 DEF Heading, Direction
  <2>7. Phases!Expand
    BY <2>1, <2>3, <2>4, <2>6 DEF Phases!Expand, Phases!Directions, Legs, Directions
  <2>8. QED
    BY <2>7 DEF PhaseStep, Phases!PhaseNext
<1>3. QED
  BY <1>1, <1>2

(* A bar that keeps the leg and the reversal keeps the heading.            *)
LEMMA SameHeading ==
  ASSUME cycle'.leg = cycle.leg, cycle'.reversal = cycle.reversal
  PROVE  Heading' = Heading
  BY DEF Heading, Direction

LEMMA ObservePhase ==
  ASSUME Inv, NEW b \in Bars, Observe(b)
  PROVE  PhaseStep
<1>1. Open /\ cycle \in Cycles /\ CycleInv(cycle, now)
  BY DEF Observe, Inv, CycleInv
<1>2. cycle.phase \in {"CONSOLIDATION", "EXPANSION", "RETRACEMENT"}
  BY <1>1 DEF Open, Cycles, PhaseNames
<1>3. CASE Expire(b)
  <2>1. cycle'.phase = "EXPIRED" /\ cycle'.leg = cycle.leg /\ cycle'.reversal = cycle.reversal
    BY <1>1, <1>3 DEF Expire, End, Advance, Cycles
  <2>2. Phases!Expire
    BY <1>2, <2>1, SameHeading DEF Phases!Expire
  <2>3. QED
    BY <2>2 DEF PhaseStep, Phases!PhaseNext
<1>4. CASE Invalidate(b)
  <2>1. /\ cycle'.phase = "INVALIDATED"
        /\ cycle'.leg = cycle.leg /\ cycle'.reversal = cycle.reversal
    BY <1>1, <1>4 DEF Invalidate, End, Advance, Cycles
  <2>2. cycle.phase \in {"EXPANSION", "RETRACEMENT"}
    BY <1>1, <1>2, <1>4 DEF Invalidate, CycleInv
  <2>3. Phases!Invalidate
    BY <2>1, <2>2, SameHeading DEF Phases!Invalidate
  <2>4. QED
    BY <2>3 DEF PhaseStep, Phases!PhaseNext
<1>5. CASE OpenRetracement(b)
  <2>1. /\ cycle.phase = "EXPANSION" /\ cycle'.phase = "RETRACEMENT"
        /\ cycle'.leg = cycle.leg /\ cycle'.reversal = cycle.reversal
    BY <1>1, <1>5 DEF OpenRetracement, Advance, Cycles
  <2>2. Phases!Retrace
    BY <2>1, SameHeading DEF Phases!Retrace
  <2>3. QED
    BY <2>2 DEF PhaseStep, Phases!PhaseNext
<1>6. CASE Idle(b) \/ Extend(b) \/ Shallow(b) \/ Deepen(b)
  <2>1. /\ cycle'.phase = cycle.phase
        /\ cycle'.leg = cycle.leg /\ cycle'.reversal = cycle.reversal
    <3>1. CASE cycle' = Stay
      BY <1>1, <3>1 DEF Stay, Cycles
    <3>2. CASE Extend(b)
      BY <1>1, <3>2 DEF Extend, Stay, Cycles
    <3>3. CASE Deepen(b)
      BY <1>1, <3>3 DEF Deepen, Stay, Cycles
    <3>4. QED
      BY <1>6, <3>1, <3>2, <3>3 DEF Idle, Shallow
  <2>2. QED
    BY <2>1, SameHeading DEF PhaseStep, Phases!phaseVars
<1>7. QED
  BY <1>3, <1>4, <1>5, <1>6 DEF Observe

LEMMA OfferPhase ==
  ASSUME Inv, Offer
  PROVE  PhaseStep
<1>1. cycle \in Cycles /\ CycleInv(cycle, now)
  BY DEF Inv, CycleInv
<1>2. PICK l \in shifts :
        IF cycle.phase = "RETRACEMENT" /\ cycle.retracement.start <= now
        THEN cycle' = IF l.direction = Direction
                      THEN [Advance("REVERSAL_CONFIRMED") EXCEPT !.reversal = l]
                      ELSE End("INVALIDATED", "CONTRADICTORY_DIRECTION")
        ELSE UNCHANGED cycle
  BY DEF Offer
<1>3. CASE UNCHANGED cycle
  BY <1>3, SameHeading DEF PhaseStep, Phases!phaseVars
<1>4. CASE cycle.phase = "RETRACEMENT" /\ cycle' = End("INVALIDATED", "CONTRADICTORY_DIRECTION")
  <2>1. /\ cycle'.phase = "INVALIDATED"
        /\ cycle'.leg = cycle.leg /\ cycle'.reversal = cycle.reversal
    BY <1>1, <1>4 DEF End, Advance, Cycles
  <2>2. Phases!Invalidate
    BY <1>4, <2>1, SameHeading DEF Phases!Invalidate
  <2>3. QED
    BY <2>2 DEF PhaseStep, Phases!PhaseNext
<1>5. CASE /\ cycle.phase = "RETRACEMENT" /\ l.direction = Direction
           /\ cycle' = [Advance("REVERSAL_CONFIRMED") EXCEPT !.reversal = l]
  <2>1. cycle'.phase = "REVERSAL_CONFIRMED" /\ cycle'.reversal = l
    BY <1>1, <1>5 DEF Advance, Cycles
  <2>2. l # None
    BY NoneAssumption DEF Inv, EventsInv
  <2>3. Heading' = l.direction
    BY <2>1, <2>2 DEF Heading
  <2>4. cycle.reversal = None
    BY <1>1, <1>5 DEF CycleInv
  <2>5. Heading = l.direction
    BY <1>5, <2>4 DEF Heading
  <2>6. Phases!Confirm
    BY <1>5, <2>1, <2>3, <2>5 DEF Phases!Confirm
  <2>7. QED
    BY <2>6 DEF PhaseStep, Phases!PhaseNext
<1>6. QED
  BY <1>2, <1>3, <1>4, <1>5

(* The replay's cycle implements the diagram in lrx_cerr's docstring: no   *)
(* bar, leg or shift, in any order, moves a cycle between phases the       *)
(* diagram does not join, turns it, or moves one that has ended.           *)
THEOREM ImplementsDiagram == Spec => ImplementsPhases
<1>1. Init => Phases!PhaseInit
  BY NoCycleType DEF Init, Phases!PhaseInit, Heading, Direction
<1>2. Inv /\ [Next]_vars => PhaseStep
  <2>1. ASSUME Inv, NextBar PROVE PhaseStep
    <3>1. PICK b \in Bars : Search(b) \/ ConfirmLegs(b) \/ Observe(b)
      BY <2>1 DEF NextBar
    <3>2. now < LastBar
      BY <2>1 DEF NextBar
    <3>3. QED
      BY <2>1, <3>1, <3>2, SearchPhase, ConfirmLegsPhase, ObservePhase
  <2>2. ASSUME UNCHANGED vars PROVE PhaseStep
    BY <2>2 DEF vars, PhaseStep, Phases!phaseVars, Heading, Direction
  <2>3. QED
    BY <2>1, <2>2, OfferPhase DEF Next
<1>3. QED
  BY <1>1, <1>2, InvHolds, PTL DEF Spec, ImplementsPhases, Phases!PhaseSpec, PhaseStep
=============================================================================
