------------------------------ MODULE LrxChain ------------------------------
(***************************************************************************)
(* The detectors of vo.valco on real bars and real swings, chained as       *)
(* replay_events chains them: a raid of a level, the leg that follows it,   *)
(* the swing the leg's shift breaks; then, from the shift on, the breaks    *)
(* that continue it, and the three-bar gaps the leg left behind.  (LrxCycle *)
(* has the cycle these events feed, with the detectors left open.)         *)
(*                                                                         *)
(* A setup s is one choice of the detectors' options; ratios are pairs.    *)
(* Swings are the points of both tiers as the engines emitted them, with    *)
(* their tier; a broken swing is a second point.  Structure labels and      *)
(* equal peers feed no detector and are left out.                          *)
(***************************************************************************)
EXTENDS Swings

-----------------------------------------------------------------------------
(* lrx_levels.py                                                           *)

SideOf ==
  [PREV_DAY_HIGH |-> "BUY", PREV_WEEK_HIGH |-> "BUY", ORG_HIGH |-> "BUY",
   PREV_DAY_LOW |-> "SELL", PREV_WEEK_LOW |-> "SELL", ORG_LOW |-> "SELL"]

IsLiquidity(level) == level.kind \in DOMAIN SideOf
Side(level) == SideOf[level.kind]

LevelsOf(prices, kinds) ==
  IF prices = None THEN {} ELSE {[kind |-> kinds[f], price |-> prices[f]] : f \in DOMAIN kinds}

OfDay == [high |-> "PREV_DAY_HIGH", low |-> "PREV_DAY_LOW", close |-> "PREV_DAY_CLOSE"]
OfWeek == [high |-> "PREV_WEEK_HIGH", low |-> "PREV_WEEK_LOW"]
OfGap == [high |-> "ORG_HIGH", low |-> "ORG_LOW"]

\* collect_levels without a session start, from what the reference engine says of a day.
\* The day's own settlement is no liquidity and is left out.
CollectLevels(ref) ==
  LevelsOf(ref.day, OfDay) \cup LevelsOf(ref.week, OfWeek) \cup LevelsOf(ref.gap, OfGap)

-----------------------------------------------------------------------------
(* lrx_sweep.py: a raid completes on the bar that closes back inside        *)

\* The swing type on the side a level is raided from: HIGH for buy-side.
RaidedTip(level) == IF Side(level) = "BUY" THEN "HIGH" ELSE "LOW"

PastLevel(level, bar) == Beyond(RaidedTip(level), Tip(RaidedTip(level), bar), level.price)

\* How many bars in a row before bar i were beyond the level, counted to one more than allowed.
BarsBeyond(bars, i, level, s) ==
  Max({n \in 0..Smaller(s.returnMax + 1, i - 1) :
         \A o \in 1..n : PastLevel(level, bars[i - o])})

\* The latest of the bars beyond the level that went furthest.
Penetration(bars, i, level, s) ==
  LET type == RaidedTip(level)
      beyond == (i - BarsBeyond(bars, i, level, s))..(i - 1)
  IN Max({j \in beyond : \A m \in beyond : ~Beyond(type, Tip(type, bars[m]), Tip(type, bars[j]))})

Raid(bars, i, level, s) ==
  LET p == Penetration(bars, i, level, s)
  IN [level |-> level, at |-> i, penetration |-> p, extreme |-> Tip(RaidedTip(level), bars[p])]

\* A longer stay beyond the level is a failed breakout.
IsRaid(bars, i, level, s) ==
  LET atr == Atr(bars, i, s.atrPeriod)
  IN /\ i > 1 /\ IsLiquidity(level)
     /\ Beyond(RaidedTip(level), level.price, bars[i].close)
     /\ atr # None /\ atr > 0
     /\ BarsBeyond(bars, i, level, s) \in 1..s.returnMax
     /\ LET distance == Distance(Raid(bars, i, level, s).extreme, level.price)
        IN distance * s.minPenetration[2] >= s.minPenetration[1] * atr

Raids(bars, i, levels, s) ==
  {Raid(bars, i, level, s) : level \in {l \in levels : IsRaid(bars, i, l, s)}}

-----------------------------------------------------------------------------
(* lrx_displacement.py, lrx_inefficiency.py                                *)

\* Where the reversal of a raid goes.
Reversal(raid) == IF Side(raid.level) = "BUY" THEN "DOWN" ELSE "UP"

\* A gap is [first, third, lower, upper]: the bars that made it and the void between them.
GapAt(bars, i, direction) ==
  LET one == bars[i - 2]
      three == bars[i]
  IN CASE direction = "UP" /\ three.low > one.high ->
            [first |-> i - 2, third |-> i, lower |-> one.high, upper |-> three.low]
       [] direction = "DOWN" /\ three.high < one.low ->
            [first |-> i - 2, third |-> i, lower |-> three.high, upper |-> one.low]
       [] OTHER -> None

\* detect_inefficiencies_in_leg: every gap whose three bars are the leg's.
GapsIn(bars, leg) ==
  {GapAt(bars, i, leg.direction) : i \in (leg.start + 2)..leg.end} \ {None}

FirstGap(bars, leg) ==
  LET gaps == GapsIn(bars, leg)
  IN IF gaps = {} THEN None ELSE CHOOSE g \in gaps : \A h \in gaps : g.third <= h.third

Directional(bar, direction) ==
  IF direction = "UP" THEN bar.close > bar.open ELSE bar.close < bar.open

\* The longest run of the leg's bars that close its way.
Consecutive(bars, leg) ==
  Max({n \in 0..(leg.end - leg.start + 1) :
         \E a \in leg.start..(leg.end - n + 1) :
           \A j \in a..(a + n - 1) : Directional(bars[j], leg.direction)})

\* _qualify: the clauses of the mode that is in force; a body ratio of no range cannot be
\* measured.  A bar lasts a minute.
Qualification(bars, leg, s) ==
  LET atr == Atr(bars, leg.end, s.atrPeriod)
      spread == [j \in leg.start..leg.end |-> bars[j].high - bars[j].low]
      bodies == [j \in leg.start..leg.end |-> Distance(bars[j].open, bars[j].close)]
      total == SumOver(spread, leg.start, leg.end)
      body == SumOver(bodies, leg.start, leg.end)
      move == bars[leg.end].close - bars[leg.start].open
      net == IF leg.direction = "UP" THEN move ELSE -move
      AtLeast(x, y, r) == x * r[2] >= r[1] * y
      clause == [ATR_RANGE |-> AtLeast(leg.high - leg.low, atr, s.minRange),
                 ATR_BODY |-> AtLeast(body, atr, s.minBody),
                 BODY_RATIO |-> AtLeast(body, total, s.minRatio),
                 NET |-> AtLeast(net, atr, s.minNet),
                 CONSECUTIVE_BARS |-> Consecutive(bars, leg) >= s.minBars,
                 VELOCITY |-> AtLeast(net, atr * (leg.end - leg.start + 1), s.minVelocity)]
      needed == IF s.mode = "COMBINED" THEN {"ATR_RANGE", "BODY_RATIO", "NET"} ELSE {s.mode}
  IN CASE total = 0 /\ "BODY_RATIO" \in needed -> "UNMEASURABLE"
       [] (total # 0 \/ "BODY_RATIO" \notin needed) /\ \A c \in needed : clause[c] -> "PASS"
       [] OTHER -> "FAIL"

\* The leg from the bar a raid returned on to bar i.
Span(bars, i, raid) ==
  [raid |-> raid, direction |-> Reversal(raid), start |-> raid.at, end |-> i,
   high |-> Max({bars[j].high : j \in raid.at..i}), low |-> Min({bars[j].low : j \in raid.at..i})]

Origin(bars, leg, s) ==
  CASE s.origin = "SWEEP_EXTREME" -> leg.raid.extreme
    [] s.origin = "LEG_START_OPEN" -> bars[leg.start].open
    [] s.origin = "LAST_OPPOSING_EXTREME" -> IF leg.direction = "DOWN" THEN leg.high ELSE leg.low

Measurable(bars, i, raid, s) ==
  LET atr == Atr(bars, i, s.atrPeriod)
  IN raid.at < i /\ i - raid.at <= s.maxBars /\ atr # None /\ atr > 0

\* measure_displacement: a leg that does not qualify is measured like one that does.
Measured(bars, i, raid, s) ==
  LET leg == Span(bars, i, raid)
  IN [raid |-> raid, direction |-> leg.direction, start |-> leg.start, end |-> leg.end,
      high |-> leg.high, low |-> leg.low, origin |-> Origin(bars, leg, s),
      gap |-> FirstGap(bars, leg), qualification |-> Qualification(bars, leg, s)]

-----------------------------------------------------------------------------
(* lrx_swings.py, lrx_mss.py                                               *)

\* The swing type a move in a direction breaks.
Opposing(direction) == IF direction = "DOWN" THEN "LOW" ELSE "HIGH"

\* A mutant: what is known of the swings is what is known of them now.
VisibleNow(swings, at) == {n \in DOMAIN swings : swings[n].status = "CONFIRMED"}

\* The points known at a bar that say they are confirmed.
Visible(swings, at) ==
  {n \in DOMAIN swings : swings[n].at <= at /\ swings[n].status = "CONFIRMED"}

\* adapt_swings sorts by the bar a swing is known on, then by its pivot's.
Precedes(swings, m, n) ==
  \/ swings[m].at < swings[n].at
  \/ swings[m].at = swings[n].at /\ swings[m].pivot < swings[n].pivot
  \/ swings[m].at = swings[n].at /\ swings[m].pivot = swings[n].pivot /\ m <= n

FirstOf(swings, some) ==
  IF some = {} THEN None ELSE CHOOSE m \in some : \A n \in some : Precedes(swings, m, n)

MostRecent(swings, some) ==
  FirstOf(swings, {m \in some : \A n \in some : swings[n].at <= swings[m].at})

\* The first that a move in a direction comes to, of those beyond a price.
NearestBeyond(swings, some, price, direction) ==
  LET type == Opposing(direction)
      beyond == {m \in some : Beyond(type, swings[m].price, price)}
  IN FirstOf(swings, {m \in beyond :
                        \A n \in beyond : ~Beyond(type, swings[m].price, swings[n].price)})

\* The swing a shift must break is one that was known when its leg began.
SelectSwing(swings, leg, s) ==
  LET known == {n \in Visible(swings, leg.start) : swings[n].type = Opposing(leg.direction)}
  IN IF s.selection = "MOST_RECENT" THEN MostRecent(swings, known)
     ELSE NearestBeyond(swings, known, leg.origin, leg.direction)

\* broke_level: a touch does not break.  min is how far, an ATR ratio or points, or None.
BrokeLevel(bars, i, price, direction, method, min) ==
  LET type == Opposing(direction)
      bar == bars[i]
      Past(p) == Beyond(type, p, price)
      by == IF type = "HIGH" THEN bar.close - price ELSE price - bar.close
  IN CASE method = "WICK_BREAK" -> Past(Tip(type, bar))
       [] method = "CANDLE_CLOSE" -> Past(bar.close)
       [] method = "BODY_CLOSE" -> Past(bar.close) /\ Past(bar.open)
       [] method = "CLOSE_PLUS_MIN_DISTANCE" -> by > min
       [] method = "CLOSE_PLUS_ATR_THRESHOLD" -> min # None /\ by * min[2] > min[1]

Least(bars, i, s) ==
  LET atr == Atr(bars, i, s.atrPeriod)
  IN IF s.method = "CLOSE_PLUS_MIN_DISTANCE" THEN s.minPoints
     ELSE IF atr = None THEN None ELSE <<atr * s.minBreak[1], s.minBreak[2]>>

\* evaluate_mss passes.
IsShift(bars, i, leg, swings, s) ==
  /\ leg.direction = Reversal(leg.raid)
  /\ i > leg.start
  /\ SelectSwing(swings, leg, s) # None
  /\ BrokeLevel(bars, i, swings[SelectSwing(swings, leg, s)].price, leg.direction,
                s.method, Least(bars, i, s))

Shift(i, leg, swings, s) ==
  [leg |-> leg, at |-> i, swing |-> swings[SelectSwing(swings, leg, s)],
   id |-> SelectSwing(swings, leg, s)]

-----------------------------------------------------------------------------
(* lrx_bos.py                                                              *)

\* The swings a break may take that continues the shift.
EligibleSwings(swings, shift, cutoff, s) ==
  LET type == Opposing(shift.leg.direction)
  IN {n \in Visible(swings, cutoff) :
        /\ swings[n].type = type /\ n # shift.id
        /\ s.requireBeyond => Beyond(type, swings[n].price, shift.swing.price)}

\* A mutant: the furthest swing that is left.
TargetFurthest(swings, some, direction) ==
  LET type == Opposing(direction)
  IN FirstOf(swings, {m \in some : \A n \in some : ~Beyond(type, swings[n].price, swings[m].price)})

\* The nearest swing that is left.
Target(swings, some, direction) ==
  LET type == Opposing(direction)
  IN FirstOf(swings, {m \in some : \A n \in some : ~Beyond(type, swings[m].price, swings[n].price)})

\* detect_bos at bar i, after the breaks so far.
Continue(bars, i, shift, swings, run, s) ==
  LET cutoff == IF s.cutoff = "AT_MSS" THEN shift.at ELSE i
      left == EligibleSwings(swings, shift, cutoff, s) \ {b.id : b \in Range(run)}
      target == Target(swings, left, shift.leg.direction)
  IN IF i > shift.at /\ left # {}
        /\ BrokeLevel(bars, i, swings[target].price, shift.leg.direction, s.method,
                      Least(bars, i, s))
     THEN Append(run, [at |-> i, id |-> target, price |-> swings[target].price])
     ELSE run

\* detect_bos_run: one level a bar, each at most once.
BosRun(bars, shift, swings, s) ==
  LET After[i \in 0..Len(bars)] ==
        IF i = 0 THEN <<>> ELSE Continue(bars, i, shift, swings, After[i - 1], s)
  IN After[Len(bars)]

-----------------------------------------------------------------------------
(* lrx_replay.py                                                           *)

NewReplay == [raids |-> {}, pending |-> {}, legs |-> {}, awaiting |-> {}, shifts |-> {}]

Horizon(s) == IF s.searchBars = 0 THEN s.returnMax ELSE s.searchBars

\* A mutant: a raid whose leg falls short is asked about again.
StillPendingUnqualified(asked, legs) ==
  asked \ {l.raid : l \in {m \in legs : m.qualification = "PASS"}}

\* Whatever could be measured is asked about no more.
StillPending(asked, legs) == asked \ {l.raid : l \in legs}

StillAwaiting(awaiting, broke, i, s) ==
  {l \in awaiting \ broke : i - l.end <= Horizon(s)}

\* replay_events, for the last of the bars.
Replayed(acc, bars, ref, swings, s) ==
  LET i == Len(bars)
      raids == Raids(bars, i, CollectLevels(ref), s)
      asked == {r \in acc.pending : i - r.at <= Horizon(s)}
      legs == {Measured(bars, i, r, s) : r \in {q \in asked : Measurable(bars, i, q, s)}}
      broke == {l \in acc.awaiting : i - l.end <= Horizon(s) /\ IsShift(bars, i, l, swings, s)}
  IN [raids |-> acc.raids \cup raids,
      pending |-> StillPending(asked, legs) \cup raids,
      legs |-> acc.legs \cup legs,
      awaiting |-> StillAwaiting(acc.awaiting, broke, i, s)
                     \cup {l \in legs : l.qualification = "PASS"},
      shifts |-> acc.shifts \cup {Shift(i, l, swings, s) : l \in broke}]

=============================================================================
