----------------------------- MODULE RegimeFeed -----------------------------
(***************************************************************************)
(* What the chart and the reports make of a regime engine's log of states:  *)
(* regime_feed.py turns it into bands and markers, publish_regime.py trims  *)
(* the engine's cold start off them, regime_report.py counts bars by band   *)
(* and scores the leans of its pullbacks.                                  *)
(*                                                                         *)
(* Bars are their positions, so a time is a position; the end of the band   *)
(* that is still open is None.                                             *)
(***************************************************************************)
EXTENDS Regime

\* The first records of the runs of one regime.
RunStarts(states) ==
  {i \in DOMAIN states : i = 1 \/ states[i].regime # states[i - 1].regime}

RunEnd(states, i) ==
  LET later == {j \in RunStarts(states) : j > i}
  IN IF later = {} THEN Len(states) + 1 ELSE Min(later)

\* A mutant: a band covers the bar the next one starts on.
CoversBoth(segment, at) == segment.start <= at /\ (segment.end = None \/ at <= segment.end)

Covers(segment, at) == segment.start <= at /\ (segment.end = None \/ at < segment.end)

\* A mutant: the band says what the first record of its run said.
FirstOfRun(states, i) == states[i]

\* A run's freshest record is what the band says.
Representative(states, i) == states[RunEnd(states, i) - 1]

\* A run of records as a band over the bars it spans.
Segment(states, bars, i) ==
  LET next == RunEnd(states, i)
      rep == Representative(states, i)
      end == IF next > Len(states) THEN None ELSE states[next].at
      spanned == {j \in DOMAIN bars : Covers([start |-> states[i].at, end |-> end], j)}
  IN [regime |-> rep.regime, direction |-> rep.direction, lean |-> rep.lean, id |-> Id(rep),
      start |-> states[i].at, end |-> end, spanned |-> spanned,
      high |-> IF spanned = {} THEN None ELSE Max({bars[j].high : j \in spanned}),
      low |-> IF spanned = {} THEN None ELSE Min({bars[j].low : j \in spanned})]

\* A run that ends on the bar it began on has no bar to be drawn over.
Segments(states, bars) ==
  {s \in {Segment(states, bars, i) : i \in RunStarts(states)} : s.spanned # {}}

\* The resolutions, each at its bar and priced at its close.
Markers(states, bars) ==
  {[regime |-> states[i].regime, direction |-> states[i].direction, at |-> states[i].at,
    price |-> bars[states[i].at].close] :
     i \in {i \in DOMAIN states : states[i].regime \in {"RETRACEMENT", "REVERSAL"}}}

\* The bars the engine could not yet have classified, and what is left of the feed.
TrimWarmup(segments, from) ==
  {[s EXCEPT !.start = Larger(@, from)] :
     s \in {s \in segments : s.end = None \/ s.end > from}}

\* warmup_bars of publish_regime.py: an ATR and a pivot's window.
WarmupEnd(atrPeriod, tier) == atrPeriod + 2 * tier.k + 1

Feed(states, bars, from) ==
  IF Len(bars) < from
  THEN [segments |-> Segments(states, bars), markers |-> Markers(states, bars)]
  ELSE [segments |-> TrimWarmup(Segments(states, bars), from),
        markers |-> {m \in Markers(states, bars) : m.at >= from}]

-----------------------------------------------------------------------------
(* Session lines and the report's counts                                   *)

\* One line per bar whose session is not that of the bar before it.
SessionBoundaries(sessionOf, n) ==
  {[at |-> i, from |-> sessionOf[i - 1], to |-> sessionOf[i]] :
     i \in {i \in 2..n : sessionOf[i] # sessionOf[i - 1]}}

\* The bars of a session that a band of one regime covers; None for those no band does.
BarsOf(segments, sessionOf, n, session, regime) ==
  {i \in 1..n :
     /\ sessionOf[i] = session
     /\ IF regime = None THEN \A s \in segments : ~Covers(s, i)
        ELSE \E s \in segments : s.regime = regime /\ Covers(s, i)}

\* One row for each session and regime with a bar: its bars, its session's, the bands
\* that began there.
Breakdown(segments, sessionOf, n) ==
  {row \in
     {[session |-> name, regime |-> regime,
       bars |-> Cardinality(BarsOf(segments, sessionOf, n, name, regime)),
       of |-> Cardinality({i \in 1..n : sessionOf[i] = name}),
       begun |-> Cardinality({s \in segments : s.regime = regime /\ sessionOf[s.start] = name})] :
        name \in {sessionOf[i] : i \in 1..n}, regime \in Regimes \cup {None}} :
     row.bars > 0}

-----------------------------------------------------------------------------
(* The leans of the pullbacks that resolved                                *)

WithId(states, id) ==
  LET with == {i \in DOMAIN states : Id(states[i]) = id}
  IN IF with = {} THEN 0 ELSE Max(with)

\* A mutant: only the record before the resolution is taken.
LastHop(states, id) ==
  LET i == WithId(states, id) IN IF i = 0 THEN <<>> ELSE <<states[i]>>

\* From a record back to the one where its pullback began, the first of them first.
ChainBack(states, id) ==
  LET Back[i \in 0..Len(states)] ==
        IF i = 0 THEN <<>>
        ELSE IF states[i].regime # "PULLBACK_UNRESOLVED" THEN <<>>
        ELSE Append(IF states[i].supersedes = None THEN <<>>
                    ELSE Back[WithId(states, states[i].supersedes)], states[i])
  IN Back[WithId(states, id)]

LeanChains(states) ==
  {c \in {[records |-> ChainBack(states, states[i].supersedes), resolution |-> states[i]] :
            i \in {i \in DOMAIN states : /\ states[i].regime \in {"RETRACEMENT", "REVERSAL"}
                                         /\ states[i].supersedes # None}} :
     c.records # <<>>}

Resolves(chain) == chain.resolution.at - chain.records[1].at

\* The lean some bars after the pullback began; the chains resolved by then do not count.
ScoredAt(states, horizon) == {c \in LeanChains(states) : horizon = 0 \/ Resolves(c) > horizon}

LeanAfter(chain, horizon) ==
  Last(SelectSeq(chain.records, LAMBDA s : s.at - chain.records[1].at <= horizon)).lean

=============================================================================
