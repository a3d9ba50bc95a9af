---------------------------- MODULE PhaseReports ----------------------------
(***************************************************************************)
(* Measurements set against the phases of a run: hurst_report.py,           *)
(* atr_series.py, efficiency_ratio_report.py, hmm_report.py and             *)
(* phase_agreement.py, with the conditioned matrices of markov_report.py    *)
(* and markov_validation.py.                                               *)
(*                                                                         *)
(* A series of samples is a function from the bars it was taken on.  The    *)
(* tests on groups of values are left out: a group is the set of bars its   *)
(* values are of.  A mean of ratios is taken in thousandths.               *)
(***************************************************************************)
EXTENDS RegimeReports

CONSTANTS
  HurstFit,     \* of each window of closes the exponent in hundredths, None where none fits
  FittedState,  \* the hidden state a trained model gives the bars (hmmlearn)
  MinSamples    \* n_states * min_samples_per_state

HurstExponent(bars, i, period) ==
  IF i <= period THEN None ELSE HurstFit[[k \in 0..period |-> bars[i - period + k].close]]

RollingHurst(bars, period, stride) ==
  Rolling(LAMBDA i : HurstExponent(bars, i, period), Len(bars), stride)

RollingAtr(bars, period, stride) ==
  Rolling(LAMBDA i : Atr(bars, i, period), Len(bars), stride)

\* Of each window length, the samples by phase, where it has any.
ByRegimeReport(rolling, segments) ==
  [w \in {w \in DOMAIN rolling : DOMAIN ByRegime(rolling[w], segments) # {}} |->
     ByRegime(rolling[w], segments)]

ByLabel(samples, labelOf) ==
  [label \in {labelOf[i] : i \in DOMAIN samples} |-> {i \in DOMAIN samples : labelOf[i] = label}]

-----------------------------------------------------------------------------
(* Samples and moves                                                       *)

\* The last sample at or before a bar, if there is one.
Latest(samples, at) ==
  {i \in DOMAIN samples : i <= at /\ \A j \in DOMAIN samples : j <= at => j <= i}

\* A mutant: the nearest sample on either side.
NearestEither(samples, at, gap) ==
  {i \in DOMAIN samples : /\ Distance(at, i) <= gap
                          /\ \A j \in DOMAIN samples : Distance(at, i) <= Distance(at, j)}

NearestBefore(samples, at, gap) == {i \in Latest(samples, at) : at - i <= gap}

\* The moves into each phase, each with the sample that preceded it.
PrecedingTransitions(samples, log, gap) ==
  LET found == {f \in (DOMAIN log) \X (DOMAIN samples) : f[2] \in NearestBefore(samples, log[f[1]].at, gap)}
  IN [to \in {log[f[1]].to : f \in found} |-> {f \in found : log[f[1]].to = to}]

\* statistics.quantiles, inclusive: the k-th of n cuts, times n.
Cut(sorted, k, n) ==
  LET place == k * (Len(sorted) - 1)
      low == place \div n + 1
      share == place % n
  IN sorted[low] * (n - share) + (IF share = 0 THEN 0 ELSE sorted[low + 1] * share)

TercileLabel(value, sorted) ==
  IF 3 * value <= Cut(sorted, 1, 3) THEN "Low"
  ELSE IF 3 * value <= Cut(sorted, 2, 3) THEN "Mid" ELSE "High"

\* The matrices of the moves that follow a low, a middling and a high sample.
ValueBucketMatrices(log, samples, gap) ==
  LET inOrder == SelectSeq([i \in 1..Max(DOMAIN samples \cup {0}) |-> i], LAMBDA i : i \in DOMAIN samples)
      sorted == SortSeq([k \in DOMAIN inOrder |-> samples[inOrder[k]]], LAMBDA a, b : a < b)
      Labels(m) == {TercileLabel(samples[i], sorted) : i \in NearestBefore(samples, m.at, gap)}
      labels == UNION {Labels(log[k]) : k \in DOMAIN log}
  IN IF Cardinality(DOMAIN samples) < 3 THEN [label \in {} |-> <<>>]
     ELSE [label \in labels |-> MatrixOf(SelectSeq(log, LAMBDA m : label \in Labels(m)))]

\* How often each move followed the state that came before it.
SecondOrder(log) ==
  LET After(pair) == {k \in 2..Len(log) : <<log[k - 1].from, log[k].from>> = pair}
  IN [pair \in {<<log[k - 1].from, log[k].from>> : k \in 2..Len(log)} |->
        [to \in {log[k].to : k \in After(pair)} |->
           Cardinality({k \in After(pair) : log[k].to = to})]]

-----------------------------------------------------------------------------
(* The hidden states                                                       *)

\* A bar of the window with a ratio and a range behind it, however old they are.
KillzoneSamples(bars, atrs, ers, killzone) ==
  LET usable == {i \in (2..Len(bars)) \cap killzone :
                   /\ bars[i - 1].close > 0 /\ bars[i].close > 0
                   /\ Latest(ers, i) # {}
                   /\ \E a \in Latest(atrs, i) : atrs[a] > 0}
  IN {[at |-> i, closes |-> <<bars[i - 1].close, bars[i].close>>,
       atr |-> atrs[Max(Latest(atrs, i))], er |-> ers[Max(Latest(ers, i))]] : i \in usable}

\* With too little data there is no model, and no report of it.
Trainable(samples) == Cardinality(samples) >= MinSamples

StateProfiles(samples, hursts, gap) ==
  [state \in {FittedState[s.at] : s \in samples} |->
     LET group == {s \in samples : FittedState[s.at] = state}
         total == MapThenSumSet(LAMBDA s : (1000 * s.er[1]) \div s.er[2], group)
     IN [n |-> Cardinality(group), meanEr |-> <<total, Cardinality(group)>>,
         hursts |-> UNION {{<<s.at, i>> : i \in NearestBefore(hursts, s.at, gap)} : s \in group}]]

\* The states of the highest and of the lowest ratio, unless all have the same.
Extremes(profiles) ==
  LET er(state) == profiles[state].meanEr
      low == {s \in DOMAIN profiles : \A t \in DOMAIN profiles : AtMost(er(s), er(t))}
      high == {s \in DOMAIN profiles : \A t \in DOMAIN profiles : AtMost(er(t), er(s))}
  IN IF low = high THEN [displacement |-> None, accumulation |-> None]
     ELSE [displacement |-> Max(high), accumulation |-> Min(low)]

-----------------------------------------------------------------------------
(* A guess from measurements alone, against the phase                      *)

Percent(n) == <<n, 100>>

Under(ratio, n) == ~AtMost(Percent(n), ratio)

\* The first profile that fits; None where none does.
StatisticalPhaseGuess(hurst, er, displacement, accumulation) ==
  CASE hurst = None -> None
    [] OTHER ->
       IF accumulation \/ (hurst < 45 /\ Under(er, 35)) THEN "CONSOLIDATION"
       ELSE IF displacement /\ hurst >= 55 /\ ~Under(er, 60) THEN "EXPANSION"
       ELSE IF ~displacement /\ ~Under(er, 35) /\ Under(er, 60) /\ hurst \in 45..55 THEN "RETRACEMENT"
       ELSE IF displacement /\ Under(er, 50) /\ hurst < 50 THEN "REVERSAL"
       ELSE None

PhaseComparisons(segments, samples, hursts, extremes, gap) ==
  {[at |-> s.at, actual |-> ActualPhase(segments, s.at),
    guess |-> LET near == NearestBefore(hursts, s.at, gap)
              IN StatisticalPhaseGuess(IF near = {} THEN None ELSE hursts[Max(near)], s.er,
                                       FittedState[s.at] = extremes.displacement,
                                       FittedState[s.at] = extremes.accumulation)] : s \in samples}

PhaseAgreement(comparisons) ==
  LET comparable == {c \in comparisons : c.actual # None}
      Of(phase) == {c \in comparable : c.actual = phase}
      Guessed(phase, guess) == Cardinality({c \in Of(phase) : c.guess = guess})
  IN [samples |-> Cardinality(comparisons), comparable |-> Cardinality(comparable),
      ambiguous |-> Cardinality({c \in comparable : c.guess = None}),
      byPhase |-> [phase \in {c.actual : c \in comparable} |->
                     [n |-> Cardinality(Of(phase)), agreed |-> Guessed(phase, phase),
                      instead |-> [guess \in {c.guess : c \in Of(phase)} \ {phase} |->
                                     Guessed(phase, guess)]]]]

=============================================================================
