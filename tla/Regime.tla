------------------------------- MODULE Regime -------------------------------
(***************************************************************************)
(* RegimeEngine of regime.py: the market condition of one instrument, moved *)
(* by the confirmed swings of one tier and by the close of each bar.  A     *)
(* boundary is the body of a swing's pivot bar, never its wick.            *)
(*                                                                         *)
(* An engine is a record: the regime, its direction, the extreme of the     *)
(* expansion and the price whose loss reverses it, the last two bodies of   *)
(* each swing type, whether this delivery has resolved a pullback yet, the  *)
(* pullback record still to be resolved, and the two logs.  What a record   *)
(* says is its regime, direction and lean; confidence, features and the     *)
(* evidence's wording are left out.                                        *)
(***************************************************************************)
EXTENDS Swings

CONSTANTS
  ErTrend, ErChop,         \* anticipation.er_*_threshold, ratios
  ShallowDepth, DeepDepth  \* anticipation.*_pullback_ratio

Regimes == {"CONSOLIDATION", "EXPANSION", "PULLBACK_UNRESOLVED", "RETRACEMENT", "REVERSAL"}
Directions == {"UP", "DOWN"}

Leading(direction) == IF direction = "UP" THEN "HIGH" ELSE "LOW"
Trailing(direction) == IF direction = "UP" THEN "LOW" ELSE "HIGH"
Against(direction) == IF direction = "UP" THEN "DOWN" ELSE "UP"

NewRegime ==
  [regime |-> "CONSOLIDATION", direction |-> None, extreme |-> None, defining |-> None,
   prev |-> [t \in Types |-> None], last |-> [t \in Types |-> None],
   delivered |-> FALSE, unresolved |-> None, states |-> <<>>, transitions |-> <<>>]

\* A record's object_id is its regime and its bar.
Id(state) == <<state.regime, state.at>>

Emitted(r, regime, at, lean, pivot, supersedes) ==
  [r EXCEPT !.states = Append(@, [regime |-> regime, at |-> at, direction |-> r.direction,
                                  lean |-> lean, pivot |-> pivot, supersedes |-> supersedes])]

Moved(r, regime, at) ==
  [r EXCEPT !.regime = regime,
            !.transitions = Append(@, [from |-> r.regime, to |-> regime, at |-> at])]

-----------------------------------------------------------------------------
(* The lean of an unresolved pullback.                                      *)

\* How far the bar has come back from the extreme towards the defining price.
PullbackDepth(r, bar) ==
  IF r.extreme = None \/ r.defining = None THEN None
  ELSE IF r.extreme = r.defining THEN None
  ELSE LET travelled == IF r.direction = "UP" THEN r.extreme - bar.low ELSE bar.high - r.extreme
       IN <<Larger(0, travelled), Distance(r.extreme, r.defining)>>

Lean(r, bar, er) ==
  LET depth == PullbackDepth(r, bar)
      Deep == \/ er # None /\ AtMost(er, ErChop)
              \/ depth # None /\ AtMost(DeepDepth, depth)
      Shallow == er # None /\ depth # None /\ AtMost(ErTrend, er) /\ AtMost(depth, ShallowDepth)
  IN CASE Shallow -> "RETRACEMENT"
       [] ~Shallow /\ Deep -> "REVERSAL"
       [] OTHER -> "UNCLEAR"

-----------------------------------------------------------------------------
(* Transitions                                                             *)

\* An expansion starts from an extreme; the latest swing behind it defines it.
EnterExpansion(r, direction, extreme, at) ==
  Emitted([Moved(r, "EXPANSION", at) EXCEPT !.direction = direction, !.extreme = extreme,
                                           !.defining = r.last[Trailing(direction)]],
          "EXPANSION", at, None, None, None)

EnterPullback(r, swing, bar, at, er) ==
  LET pulled == Emitted(Moved(r, "PULLBACK_UNRESOLVED", at), "PULLBACK_UNRESOLVED", at,
                        Lean(r, bar, er), swing.pivot, None)
  IN [pulled EXCEPT !.unresolved = Last(pulled.states)]

\* A mutant: what the pullback became does not take its record's place.
ResolvedBeside(r, regime, at) ==
  [Emitted(Moved(r, regime, at), regime, at, None, None, None)
     EXCEPT !.unresolved = None, !.delivered = regime # "CONSOLIDATION"]

\* A resolution's record supersedes the pullback's.
Resolved(r, regime, at) ==
  [Emitted(Moved(r, regime, at), regime, at, None, None, Id(r.unresolved))
     EXCEPT !.unresolved = None, !.delivered = regime # "CONSOLIDATION"]

ResolveRetracement(r, swing, at) ==
  EnterExpansion(Resolved(r, "RETRACEMENT", at), r.direction, swing.body, at)

ResolveConsolidation(r, at) ==
  Resolved([r EXCEPT !.direction = None, !.extreme = None, !.defining = None],
           "CONSOLIDATION", at)

ResolveReversal(r, bar, at) ==
  LET direction == Against(r.direction)
  IN EnterExpansion(Resolved(r, "REVERSAL", at), direction, BodyTip(Leading(direction), bar), at)

\* The record is renewed when the lean has changed, and only then.
RefreshLean(r, bar, at, er) ==
  LET lean == Lean(r, bar, er)
      renewed == Emitted(r, "PULLBACK_UNRESOLVED", at, lean, r.unresolved.pivot, Id(r.unresolved))
  IN IF lean = r.unresolved.lean THEN r ELSE [renewed EXCEPT !.unresolved = Last(renewed.states)]

-----------------------------------------------------------------------------
(* A bar                                                                   *)

\* A mutant: the latest swing behind the pullback stands for the one that defines it.
LatestBroken(r, bar) ==
  /\ r.last[Trailing(r.direction)] # None
  /\ Beyond(Trailing(r.direction), bar.close, r.last[Trailing(r.direction)])

DefiningBroken(r, bar) ==
  r.defining # None /\ Beyond(Trailing(r.direction), bar.close, r.defining)

RecordAnchor(r, swing) ==
  [r EXCEPT !.prev[swing.type] = r.last[swing.type], !.last[swing.type] = swing.body]

\* A higher high or a lower low, by bodies, than the swing of its type before it.
GoesFurther(r, swing) ==
  r.prev[swing.type] # None /\ Beyond(swing.type, swing.body, r.prev[swing.type])

\* A mutant: the first leg too may stall back into consolidation.
StalledAnyLeg(r) == TRUE

\* Only a delivery that has resolved a pullback before may end in consolidation.
MayStall(r) == r.delivered

OnSwing(r, swing, bar, at, er) ==
  LET leads == swing.type = Leading(r.direction)
      waits == r.regime = "PULLBACK_UNRESOLVED"
  IN IF r.regime = "CONSOLIDATION" /\ GoesFurther(r, swing)
     THEN EnterExpansion(r, IF swing.type = "HIGH" THEN "UP" ELSE "DOWN", swing.body, at)
     ELSE IF r.regime = "EXPANSION" /\ leads /\ GoesFurther(r, swing)
     THEN [r EXCEPT !.extreme = swing.body,
                    !.defining = IF r.last[Trailing(r.direction)] = None THEN @
                                 ELSE r.last[Trailing(r.direction)]]
     ELSE IF r.regime = "EXPANSION" /\ swing.type = Trailing(r.direction)
     THEN EnterPullback(r, swing, bar, at, er)
     ELSE IF waits /\ leads /\ Beyond(swing.type, swing.body, r.extreme)
     THEN ResolveRetracement(r, swing, at)
     ELSE IF waits /\ leads /\ MayStall(r) THEN ResolveConsolidation(r, at)
     ELSE r

\* What a bar confirms moves the anchors and the regime, one swing after the other.
Swung(r, events, bar, at, er) ==
  LET After[i \in 0..Len(events)] ==
        IF i = 0 THEN r
        ELSE IF events[i].status # "CONFIRMED" THEN After[i - 1]
        ELSE OnSwing(RecordAnchor(After[i - 1], events[i]), events[i], bar, at, er)
  IN After[Len(events)]

\* on_bar: the close first, then the confirmed swings, then the lean.
Classified(r, bars, er, events) ==
  LET at == Len(bars)
      bar == Last(bars)
      broke == IF r.regime = "PULLBACK_UNRESOLVED" /\ DefiningBroken(r, bar)
               THEN ResolveReversal(r, bar, at) ELSE r
      swung == Swung(broke, events, bar, at, er)
  IN IF swung.regime = "PULLBACK_UNRESOLVED" /\ swung.states = r.states
     THEN RefreshLean(swung, bar, at, er) ELSE swung

=============================================================================
