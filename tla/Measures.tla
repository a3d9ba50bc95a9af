------------------------------ MODULE Measures ------------------------------
(***************************************************************************)
(* What the observation engines measure on a sequence of bars, and what     *)
(* the chart's ports of them measure on the same bars.  Prices are ticks,   *)
(* a bar is its four prices, and a ratio is a pair of integers.            *)
(*                                                                         *)
(* Positions count from 1; the code's index is the position less one.       *)
(***************************************************************************)
EXTENDS Integers, Sequences, FiniteSets, FiniteSetsExt

CONSTANT None   \* Python's None, and no object

Bars(prices) ==
  {b \in [open : prices, high : prices, low : prices, close : prices] :
     b.low <= b.open /\ b.low <= b.close /\ b.open <= b.high /\ b.close <= b.high}

Larger(a, b) == IF a >= b THEN a ELSE b
Smaller(a, b) == IF a <= b THEN a ELSE b
Distance(a, b) == IF a >= b THEN a - b ELSE b - a

BodyHigh(b) == Larger(b.open, b.close)
BodyLow(b) == Smaller(b.open, b.close)

SumOver(value, first, last) ==
  LET Sum[j \in (first - 1)..last] == IF j < first THEN 0 ELSE Sum[j - 1] + value[j]
  IN Sum[last]

-----------------------------------------------------------------------------
\* The first bar has no close before it to gap from.
TrueRange(bars, i) ==
  LET b == bars[i]
      reach == b.high - b.low
  IN IF i = 1 THEN reach
     ELSE Larger(reach, Larger(Distance(b.high, bars[i - 1].close),
                               Distance(b.low, bars[i - 1].close)))

TrueRangeSum(bars, i, period) ==
  LET first == i - period + 1
  IN SumOver([j \in first..i |-> TrueRange(bars, j)], first, i)

\* Python's round: a half goes to the even neighbour.
RoundHalfEven(n, d) ==
  LET q == n \div d
      r == n % d
  IN IF 2 * r > d \/ (2 * r = d /\ q % 2 = 1) THEN q + 1 ELSE q

\* MQL5's MathRound: a half goes away from zero.  (Nothing negative is rounded.)
RoundHalfAway(n, d) ==
  LET q == n \div d
      r == n % d
  IN IF 2 * r >= d THEN q + 1 ELSE q

\* The two agree on every sum but one that lies halfway above an even number.
RoundsAlike(n, d) == RoundHalfEven(n, d) = RoundHalfAway(n, d)

\* An average over a part of the period is not an average: None.
Atr(bars, i, period) ==
  IF i < period THEN None ELSE RoundHalfEven(TrueRangeSum(bars, i, period), period)

-----------------------------------------------------------------------------
\* Net distance over distance travelled, of the last period closes.
PathLength(bars, i, period) ==
  LET first == i - period + 1
  IN SumOver([j \in first..i |-> Distance(bars[j].close, bars[j - 1].close)], first, i)

EfficiencyRatio(bars, i, period) ==
  IF i <= period THEN None
  ELSE LET path == PathLength(bars, i, period)
       IN IF path = 0 THEN <<0, 1>>
          ELSE <<Distance(bars[i].close, bars[i - period].close), path>>

AtMost(r, s) == r[1] * s[2] <= s[1] * r[2]

\* The share of the earlier values, as ratios, at or below the current one.
PercentileRank(value, earlier, i) ==
  LET past == {j \in earlier : value[j] # None}
  IN IF value[i] = None \/ past = {} THEN None
     ELSE <<Cardinality({j \in past : AtMost(value[j], value[i])}), Cardinality(past)>>

Reading(bars, i, erPeriod, atrPeriod, lookback) ==
  LET past == Larger(1, i - lookback)..(i - 1)
      er == [j \in past \cup {i} |-> EfficiencyRatio(bars, j, erPeriod)]
      atr == [j \in past \cup {i} |-> Atr(bars, j, atrPeriod)]
      ratio == [j \in DOMAIN atr |-> IF atr[j] = None THEN None ELSE <<atr[j], 1>>]
  IN [er |-> er[i], atr |-> atr[i],
      erRank |-> PercentileRank(er, past, i), atrRank |-> PercentileRank(ratio, past, i)]

=============================================================================
