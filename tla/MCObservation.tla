--------------------------- MODULE MCObservation ----------------------------
EXTENDS Observation

Bar(o, h, l, c) == [open |-> o, high |-> h, low |-> l, close |-> c]

A == Bar(2, 4, 0, 1)
B == Bar(7, 7, 2, 4)
C == Bar(8, 10, 5, 8)
D == Bar(3, 8, 1, 6)

MCHistory == <<B, D>>

\* Bars in and out of each other's range, with gaps between them.  The first few leave swings
\* at several prices; from the eighth on every sequence of four follows.
MCShapesAt ==
  <<{B}, {D}, {C}, {B}, {C, A}, {D, A}, {C, A, D}>> \o [i \in 1..4 |-> {A, B, C, D}] \o <<{B}, {B}>>

MCTiers == [internal |-> [k |-> 1, num |-> 1, den |-> 2], swing |-> [k |-> 1, num |-> 5, den |-> 4],
            wide |-> [k |-> 2, num |-> 1, den |-> 2]]

MCSessionOf == [i \in 1..13 |-> IF (i \div 3) % 2 = 0 THEN "asia" ELSE "london"]

MCYearOf == [i \in 1..13 |-> IF i < 11 THEN 2025 ELSE 2026]

\* Buckets of two bars, and of one or two.
MCBucketOf == [two |-> [i \in 1..13 |-> (i + 1) \div 2],
               mixed |-> [i \in 1..13 |-> IF i % 3 = 0 THEN 2 * (i \div 3) ELSE 2 * (i \div 3) + 1]]

\* Three days, the history the first and in a week of its own.  The second trades regularly
\* from its first bar and settles before its last; the third trades regularly only at its
\* end, where the bars open at one price.
MCDayOf == [i \in 1..13 |-> IF i <= 2 THEN 1 ELSE IF i <= 5 THEN 2 ELSE 3]
MCWeekOf == [i \in 1..13 |-> IF i <= 2 THEN 1 ELSE 2]
MCRegular == {1, 2} \cup 3..5 \cup 12..13
MCUnsettled == {1, 2} \cup 3..4 \cup 6..13
MCOpeningOf == <<B.open, C.open, B.open>>

Setup ==
  [minPenetration |-> <<1, 10>>, returnMax |-> 2, atrPeriod |-> 2, searchBars |-> 3,
   mode |-> "ATR_RANGE", origin |-> "LEG_START_OPEN", minRange |-> <<1, 2>>,
   minBody |-> <<1, 2>>, minRatio |-> <<1, 2>>, minNet |-> <<1, 10>>, minBars |-> 1,
   minVelocity |-> <<1, 10>>, maxBars |-> 5, method |-> "CANDLE_CLOSE",
   selection |-> "MOST_RECENT", minPoints |-> 1, minBreak |-> <<1, 4>>,
   cutoff |-> "AT_BREAK", requireBeyond |-> FALSE]

MCSetups ==
  [close |-> Setup,
   wick |-> [Setup EXCEPT !.returnMax = 3, !.atrPeriod = 1, !.searchBars = 0,
                          !.mode = "VELOCITY", !.origin = "SWEEP_EXTREME",
                          !.method = "WICK_BREAK", !.selection = "NEAREST",
                          !.cutoff = "AT_MSS"],
   beyond |-> [Setup EXCEPT !.returnMax = 3, !.mode = "COMBINED", !.minRatio = <<3, 10>>,
                            !.origin = "LAST_OPPOSING_EXTREME", !.minBreak = <<1, 10>>,
                            !.method = "CLOSE_PLUS_ATR_THRESHOLD", !.selection = "NEAREST",
                            !.requireBeyond = TRUE]]

\* The fit of a window of seven: of the mean squares at a lag of two and of three, whose
\* ratio is to be read against powers of 3/2.
MCHurstFit ==
  LET Squares(c, lag) == SumOver([k \in lag..6 |-> (c[k] - c[k - lag]) * (c[k] - c[k - lag])], lag, 6)
  IN [c \in [0..6 -> {1, 4, 6, 8}] |->
        LET two == Squares(c, 2)
            three == Squares(c, 3)
        IN IF two = 0 \/ three = 0 THEN None
           ELSE IF 5000 * three < 5760 * two THEN 40
           ELSE IF 5000 * three < 6000 * two THEN 47
           ELSE IF 5000 * three < 6248 * two THEN 52 ELSE 60]

MCFittedState == [i \in 1..13 |-> i % 3]

MCKillzone == {3, 4, 5} \cup 8..12

MCErTrend == <<1, 2>>
MCErChop == <<3, 10>>
MCShallow == <<382, 1000>>
MCDeep == <<786, 1000>>
=============================================================================
