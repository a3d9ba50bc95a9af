--------------------------- MODULE RegimeReports ----------------------------
(***************************************************************************)
(* The reports of a backtest, made of what the regime engine logged:        *)
(* regime_report.py, regime_validation.py, and of vo.research the matrices  *)
(* of transitions.py and markov_report.py, the grouping of                  *)
(* efficiency_ratio_report.py and the comparison with the range engine of   *)
(* structure_range_agreement.py.                                           *)
(*                                                                         *)
(* A set of bars is a set of positions and a bar is a minute.  Means,       *)
(* medians, quantiles and the tests on them are left out: a group of        *)
(* values is the set of records or bars it is taken of.                    *)
(***************************************************************************)
EXTENDS RegimeFeed

Resolutions == {"RETRACEMENT", "REVERSAL"}

\* A mutant: the bar the next band starts on counts for the band before it too.
BarsUpTo(segment, bars) == {i \in bars : CoversBoth(segment, i)}

BarsIn(segment, bars) == {i \in bars : Covers(segment, i)}

\* The minutes of each band of a regime that has any, by the bar it started on.
Durations(segments, bars, regime) ==
  {<<s.start, Cardinality(BarsIn(s, bars))>> :
     s \in {s \in segments : s.regime = regime /\ BarsIn(s, bars) # {}}}

Minutes(segments, bars, regime) ==
  MapThenSumSet(LAMBDA d : d[2], Durations(segments, bars, regime))

Distribution(segments, bars, regime) ==
  LET lengths == {d[2] : d \in Durations(segments, bars, regime)}
  IN [n |-> Cardinality(Durations(segments, bars, regime)),
      minimum |-> IF lengths = {} THEN None ELSE Min(lengths),
      maximum |-> IF lengths = {} THEN None ELSE Max(lengths)]

-----------------------------------------------------------------------------
(* The evidence, one sample for each band                                  *)

\* A mutant: every record is a sample.
NeverRefreshes(states, s) == FALSE

\* A record that only renews the lean of a pullback that was open.
IsLeanRefresh(states, s) ==
  /\ s.regime = "PULLBACK_UNRESOLVED" /\ s.supersedes # None
  /\ \E i \in DOMAIN states : /\ Id(states[i]) = s.supersedes
                              /\ states[i].regime = "PULLBACK_UNRESOLVED"

Sampled(states, regime) ==
  {i \in DOMAIN states : states[i].regime = regime /\ ~IsLeanRefresh(states, states[i])}

Evidence(states, regime) ==
  [samples |-> {states[i].at : i \in Sampled(states, regime)},
   n |-> Cardinality(Sampled(states, regime)),
   all |-> Cardinality({i \in DOMAIN states : states[i].regime = regime})]

-----------------------------------------------------------------------------
(* The leans against their outcomes                                        *)

Matches(chain, lean) == lean = chain.resolution.regime

\* A mutant: where a pullback began stands for where it was last looked at.
OriginLean(chain) == chain.records[1].lean

LastLean(chain) == Last(chain.records).lean

\* None is the last record before the resolution, k the k-th bar after the origin.
ScoredLean(chain, horizon) ==
  IF horizon = None THEN LastLean(chain) ELSE LeanAfter(chain, horizon)

Score(states, horizon) ==
  LET eligible == IF horizon = None THEN LeanChains(states) ELSE ScoredAt(states, horizon)
      To(regime) == {c \in eligible : c.resolution.regime = regime}
      leaned == {c \in eligible : ScoredLean(c, horizon) \in Resolutions}
  IN [eligible |-> Cardinality(eligible),
      leaned |-> Cardinality(leaned),
      matched |-> Cardinality({c \in leaned : Matches(c, ScoredLean(c, horizon))}),
      majority |-> Larger(Cardinality(To("RETRACEMENT")), Cardinality(To("REVERSAL")))]

Anticipation(states) ==
  [resolved |-> [r \in Resolutions |-> Cardinality({i \in DOMAIN states : states[i].regime = r})],
   last |-> Score(states, None),
   origin |-> Score(states, 0)]

\* The leaned chains by the label of the bar they resolved on.
Slices(states, labelOf) ==
  LET leaned == {c \in LeanChains(states) : LastLean(c) \in Resolutions}
      At(label) == {c \in leaned : labelOf[c.resolution.at] = label}
  IN [label \in {labelOf[c.resolution.at] : c \in leaned} |->
        [n |-> Cardinality(At(label)),
         matched |-> Cardinality({c \in At(label) : Matches(c, LastLean(c))})]]

\* How long a pullback's swing took to be confirmed.
ConfirmationLags(states) ==
  {c.records[1].at - c.records[1].pivot : c \in LeanChains(states)}

Accuracy(states, labelOf, horizons) ==
  [anticipation |-> Anticipation(states), slices |-> Slices(states, labelOf),
   byHorizon |-> [h \in horizons |-> Score(states, h)], lags |-> ConfirmationLags(states)]

-----------------------------------------------------------------------------
(* Transitions                                                             *)

MatrixOf(log) ==
  [pair \in {<<log[k].from, log[k].to>> : k \in DOMAIN log} |->
     Cardinality({k \in DOMAIN log : <<log[k].from, log[k].to>> = pair})]

LabelMatrices(log, labelOf) ==
  [label \in {labelOf[log[k].at] : k \in DOMAIN log} |->
     MatrixOf(SelectSeq(log, LAMBDA m : labelOf[m.at] = label))]

\* A mutant: one step back from the resolution.
OneHopBack(states, i) ==
  IF states[i].supersedes = None THEN i ELSE WithId(states, states[i].supersedes)

\* Where the chain of pullback records behind a record begins.
PullbackOrigin(states, i) ==
  LET Origin[j \in DOMAIN states] ==
        LET prior == IF states[j].supersedes = None THEN 0 ELSE WithId(states, states[j].supersedes)
        IN IF prior = 0 THEN j
           ELSE IF states[prior].regime # "PULLBACK_UNRESOLVED" THEN j ELSE Origin[prior]
  IN Origin[i]

\* Every move out of a pullback, with how long the pullback had run.
PrecedingPullbacks(log, states) ==
  LET Resolution(m) == WithId(states, <<m.to, m.at>>)
      moves == {log[k] : k \in {k \in DOMAIN log : log[k].from = "PULLBACK_UNRESOLVED"}}
  IN {[move |-> m, minutes |-> m.at - states[PullbackOrigin(states, Resolution(m))].at] :
        m \in {m \in moves : Resolution(m) # 0}}

-----------------------------------------------------------------------------
(* The report, of a run or of a year of it                                 *)

Report(segments, states, log, bars) ==
  LET count(r) == Cardinality({s \in segments : s.regime = r})
      named == {s.regime : s \in segments} \cup {states[i].regime : i \in DOMAIN states}
      total == MapThenSumSet(LAMBDA r : Minutes(segments, bars, r), Regimes)
  IN [rows |->
        [r \in named |->
           [segments |-> IF count(r) = 0 THEN Evidence(states, r).all ELSE count(r),
            minutes |-> Minutes(segments, bars, r), of |-> total,
            momentary |-> count(r) = 0,
            evidence |-> Evidence(states, r)]],
      moves |-> MatrixOf(log),
      anticipation |-> Anticipation(states),
      bars |-> Cardinality(bars)]

\* A mutant: every year lists the bands of the whole run.
AllSegments(segments, bars) == segments

\* The bands with a bar in the year.
YearSegments(segments, bars) == {s \in segments : BarsIn(s, bars) # {}}

PeriodBreakdown(segments, states, log, yearOf, n) ==
  [year \in {yearOf[i] : i \in 1..n} |->
     LET bars == {i \in 1..n : yearOf[i] = year}
     IN Report(YearSegments(segments, bars),
               SelectSeq(states, LAMBDA s : yearOf[s.at] = year),
               SelectSeq(log, LAMBDA m : yearOf[m.at] = year), bars)]

-----------------------------------------------------------------------------
(* Bars by the band that covers them                                       *)

\* A mutant: a band is looked up by the bar before.
IntervalBefore(segments, at) ==
  LET started == {s \in segments : s.start < at}
      latest == {s \in started : \A t \in started : t.start <= s.start}
  IN {s \in latest : s.end = None \/ at < s.end}

\* The last band to have started, unless it has ended.
IntervalAt(segments, at) ==
  LET started == {s \in segments : s.start <= at}
      latest == {s \in started : \A t \in started : t.start <= s.start}
  IN {s \in latest : s.end = None \/ at < s.end}

ActualPhase(segments, at) ==
  IF IntervalAt(segments, at) = {} THEN None ELSE (CHOOSE s \in IntervalAt(segments, at) : TRUE).regime

\* Every stride-th bar that has a value, with it.
Rolling(Value(_), n, stride) ==
  [i \in {i \in 1..n : (i - 1) % stride = 0 /\ Value(i) # None} |-> Value(i)]

RollingEr(bars, period, stride) ==
  Rolling(LAMBDA i : EfficiencyRatio(bars, i, period), Len(bars), stride)

ByRegime(samples, segments) ==
  [r \in {ActualPhase(segments, i) : i \in DOMAIN samples} \ {None} |->
     {i \in DOMAIN samples : ActualPhase(segments, i) = r}]

\* What the range engine said of the bars of each phase.
Agreement(segments, rangeOf, n) ==
  LET Of(phase) == {i \in 1..n : ActualPhase(segments, i) = phase}
  IN [phase \in {ActualPhase(segments, i) : i \in 1..n} \ {None} |->
        [n |-> Cardinality(Of(phase)),
         agreed |-> Cardinality({i \in Of(phase) : rangeOf[i] = phase}),
         instead |-> [said \in {rangeOf[i] : i \in Of(phase)} \ {phase} |->
                        Cardinality({i \in Of(phase) : rangeOf[i] = said})]]]

=============================================================================
