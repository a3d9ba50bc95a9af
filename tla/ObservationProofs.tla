-------------------------- MODULE ObservationProofs --------------------------
(***************************************************************************)
(* Theorems about the observation engines, for any bars, tiers, periods    *)
(* and thresholds.                                                         *)
(*                                                                         *)
(* A bar is at most four steps of the regime engine: the close, two swings *)
(* (TwoAtMostConfirmed), the lean.  What each may do is one of five        *)
(* relations, from Stands to Renews.  Between bars the engine is Sound:    *)
(* of its records one waits if and only if it has a pullback to resolve,   *)
(* no two pullbacks have the same bar, and no delivery ends unresolved.    *)
(*                                                                         *)
(* The second half is about the swings those steps take: the chart's pass  *)
(* over the closed bars and the engine's log of them (Agree), what a        *)
(* longer sequence leaves of a shorter one (Continues), and what a bar     *)
(* leaves of an active swing (Untouched).                                  *)
(*                                                                         *)
(* The third part is about the range those swings make: the records since  *)
(* the last that ended a range say where its anchors and its leg came from *)
(* (RecordsSince), and the leg is the best of its bars (LegSince).         *)
(*                                                                         *)
(* The fourth is about the longer timeframes: what an engine holds its     *)
(* last record says (Speaks), of every bucket that is over there is one     *)
(* bar (EndedBars) and of the one that is open the bars so far (OpenBars). *)
(*                                                                         *)
(* The last is about the detectors: swings found later leave those a leg    *)
(* was measured against as they were (Lengthens), a break takes the nearest *)
(* swing that is left (BreakRight), and what a replay holds follows from    *)
(* its raids, the bars and the swings (ReplaySound).                       *)
(***************************************************************************)
EXTENDS Observation, SequenceTheorems, FiniteSetTheorems, WellFoundedInduction, TLAPS

LEMMA LeastOf ==
  ASSUME NEW S, S \subseteq Nat, S # {}
  PROVE  \E n \in S : \A m \in S : n <= m
<1>1. PICK n \in S : \A m \in S : ~ (<<m, n>> \in OpToRel(<, Nat))
  <2>1. IsWellFoundedOn(OpToRel(<, Nat), Nat)
    BY NatLessThanWellFounded
  <2> QED BY <2>1, WFMin
<1>2. ASSUME NEW m \in S PROVE n <= m
  <2>1. m \in Nat /\ n \in Nat /\ ~(m < n)
    BY <1>1 DEF OpToRel
  <2> QED BY <2>1
<1> QED BY <1>2

-----------------------------------------------------------------------------
(* The swings of a bar are taken one after the other.                      *)

Taking(f, i, events, bar, at, er) ==
  IF events[i].status # "CONFIRMED" THEN f[i - 1]
  ELSE OnSwing(RecordAnchor(f[i - 1], events[i]), events[i], bar, at, er)

LEMMA TakenOneByOne ==
  ASSUME NEW r, NEW events, Len(events) \in Nat, NEW bar, NEW at, NEW er,
         NEW swung, swung = Swung(r, events, bar, at, er)
  PROVE  \E f : /\ f[0] = r
                /\ \A i \in 1..Len(events) : f[i] = Taking(f, i, events, bar, at, er)
                /\ swung = f[Len(events)]
<1> DEFINE Goes(f, i) == IF i = 0 THEN r ELSE Taking(f, i, events, bar, at, er)
           Is(f, n) == f = [i \in 0..n |-> Goes(f, i)]
           Bad == {n \in Nat : ~ \E f : Is(f, n)}
<1>1. Bad = {}
  <2> SUFFICES ASSUME Bad # {} PROVE FALSE
    OBVIOUS
  <2>1. PICK n \in Bad : \A m \in Bad : n <= m
    BY LeastOf
  <2>2. CASE n = 0
    <3>1. Is([i \in 0..0 |-> r], 0)
      OBVIOUS
    <3> QED BY <2>1, <2>2, <3>1
  <2>3. CASE n # 0
    <3>1. n \in Nat /\ n - 1 \in Nat /\ n - 1 \notin Bad
      <4>1. n \in Nat
        BY <2>1
      <4> HIDE DEF Bad
      <4>2. n - 1 \in Nat /\ ~(n <= n - 1)
        BY <2>3, <4>1
      <4> QED BY <2>1, <4>1, <4>2
    <3>2. PICK g : Is(g, n - 1)
      BY <3>1
    <3> DEFINE f == [i \in 0..n |-> IF i < n THEN g[i] ELSE Goes(g, n)]
    <3>3. ASSUME NEW i \in 0..n PROVE f[i] = Goes(f, i)
      <4>1. i # 0 => i - 1 \in 0..n /\ i - 1 < n
        BY <3>1
      <4>2. i # 0 => f[i - 1] = g[i - 1]
        BY <4>1
      <4>3. Goes(f, i) = Goes(g, i)
        BY <4>2 DEF Taking
      <4>4. f[i] = Goes(g, i)
        <5>1. CASE i < n
          <6>1. i \in 0..(n - 1) /\ f[i] = g[i]
            BY <3>1, <5>1
          <6> HIDE DEF f, Goes
          <6> QED BY <3>2, <6>1
        <5>2. CASE ~(i < n)
          <6>1. i = n
            BY <3>1, <5>2
          <6> QED BY <5>2, <6>1
        <5> QED BY <5>1, <5>2
      <4> QED BY <4>3, <4>4
    <3>4. Is(f, n)
      <4> HIDE DEF Goes
      <4>1. f = [i \in 0..n |-> f[i]]
        OBVIOUS
      <4> HIDE DEF f
      <4> QED BY <3>3, <4>1
    <3> QED BY <2>1, <3>4
  <2> QED BY <2>2, <2>3
<1>2. \E f : Is(f, Len(events))
  BY <1>1
<1> DEFINE After == CHOOSE f : Is(f, Len(events))
<1>3. Is(After, Len(events))
  BY <1>2
<1>4. swung = After[Len(events)]
  BY DEF Swung, Taking
<1> HIDE DEF After
<1>5. After[0] = r
  BY <1>3
<1>6. \A i \in 1..Len(events) : After[i] = Taking(After, i, events, bar, at, er)
  BY <1>3
<1> QED BY <1>4, <1>5, <1>6

-----------------------------------------------------------------------------
(* Sequences that grow.                                                    *)

IsSeq(s) == s \in Seq({s[i] : i \in 1..Len(s)})

LEMMA AppendTo ==
  ASSUME NEW s, IsSeq(s), NEW x
  PROVE  /\ Len(s) \in Nat
         /\ IsSeq(Append(s, x))
         /\ Len(Append(s, x)) = Len(s) + 1
         /\ Append(s, x)[Len(s) + 1] = x
         /\ \A i \in 1..Len(s) : Append(s, x)[i] = s[i]
<1> DEFINE S == {s[i] : i \in 1..Len(s)}
           T == S \cup {x}
           t == Append(s, x)
<1>1. s \in Seq(S) /\ Len(s) \in Nat
  BY DEF IsSeq
<1>2. s \in Seq(T)
  <2>1. s = [i \in 1..Len(s) |-> s[i]] /\ \A i \in 1..Len(s) : s[i] \in T
    BY <1>1
  <2> HIDE DEF T
  <2> QED BY <1>1, <2>1, SeqDef
<1>3. /\ t \in Seq(T) /\ Len(t) = Len(s) + 1 /\ t[Len(s) + 1] = x
      /\ \A i \in 1..Len(s) : t[i] = s[i]
  <2>1. x \in T
    OBVIOUS
  <2> HIDE DEF T
  <2> QED BY <1>1, <1>2, <2>1
<1>4. IsSeq(t)
  <2> HIDE DEF t, T
  <2> DEFINE U == {t[i] : i \in 1..Len(t)}
  <2>1. t = [i \in 1..Len(t) |-> t[i]] /\ \A i \in 1..Len(t) : t[i] \in U
    BY <1>3
  <2>2. Len(t) \in Nat
    BY <1>3
  <2> HIDE DEF U
  <2>3. t \in Seq(U)
    BY <2>1, <2>2, SeqDef
  <2> QED BY <2>3 DEF IsSeq, U
<1> QED BY <1>1, <1>3, <1>4

-----------------------------------------------------------------------------
(* What a swing, or a close, does to an engine.                            *)

Fields == {"regime", "direction", "extreme", "defining", "prev", "last", "delivered",
           "unresolved", "states", "transitions"}

IsEngine(r) == r = [x \in Fields |-> r[x]]

\* One record and one move more.
Enters(r, f, to, at, supersedes) ==
  /\ IsEngine(f) /\ f.regime = to
  /\ \E rec : /\ rec.regime = to /\ rec.at = at /\ rec.supersedes = supersedes
              /\ f.states = Append(r.states, rec)
              /\ to = "PULLBACK_UNRESOLVED" => f.unresolved = rec
  /\ f.transitions = Append(r.transitions, [from |-> r.regime, to |-> to, at |-> at])

Expands(r, f, at) ==
  /\ r.regime # "PULLBACK_UNRESOLVED"
  /\ Enters(r, f, "EXPANSION", at, None)
  /\ f.delivered = r.delivered

Pulls(r, f, at) ==
  /\ r.regime # "PULLBACK_UNRESOLVED"
  /\ Enters(r, f, "PULLBACK_UNRESOLVED", at, None)
  /\ f.delivered = r.delivered

ResolvesTo(r, f, to, at) ==
  /\ r.regime = "PULLBACK_UNRESOLVED" /\ to \in {"RETRACEMENT", "REVERSAL", "CONSOLIDATION"}
  /\ to = "CONSOLIDATION" => r.delivered
  /\ Enters(r, f, to, at, Id(r.unresolved))
  /\ f.delivered = (to # "CONSOLIDATION")

Stands(r, f) ==
  /\ IsEngine(f) /\ f.regime = r.regime /\ f.states = r.states
  /\ f.transitions = r.transitions /\ f.delivered = r.delivered /\ f.unresolved = r.unresolved
  /\ r.regime = "PULLBACK_UNRESOLVED" => f.direction = r.direction /\ f.defining = r.defining

LEMMA AnchorStands ==
  ASSUME NEW r, IsEngine(r), NEW swing
  PROVE  Stands(r, RecordAnchor(r, swing))
BY DEF IsEngine, Fields, Stands, RecordAnchor

LEMMA ExpansionExpands ==
  ASSUME NEW r, IsEngine(r), r.regime # "PULLBACK_UNRESOLVED", NEW direction, NEW extreme, NEW at
  PROVE  Expands(r, EnterExpansion(r, direction, extreme, at), at)
<1> DEFINE f == EnterExpansion(r, direction, extreme, at)
           rec == [regime |-> "EXPANSION", at |-> at, direction |-> direction,
                   lean |-> None, pivot |-> None, supersedes |-> None]
<1>1. /\ IsEngine(f) /\ f.regime = "EXPANSION" /\ f.delivered = r.delivered
      /\ f.states = Append(r.states, rec)
      /\ f.transitions = Append(r.transitions, [from |-> r.regime, to |-> "EXPANSION", at |-> at])
  BY DEF IsEngine, Fields, EnterExpansion, Emitted, Moved
<1> HIDE DEF f
<1>2. rec.regime = "EXPANSION" /\ rec.at = at /\ rec.supersedes = None
  OBVIOUS
<1> HIDE DEF rec
<1>3. Enters(r, f, "EXPANSION", at, None)
  BY <1>1, <1>2 DEF Enters
<1> QED BY <1>1, <1>3 DEF Expands, f

LEMMA PullbackPulls ==
  ASSUME NEW r, IsEngine(r), IsSeq(r.states), r.regime # "PULLBACK_UNRESOLVED",
         NEW swing, NEW bar, NEW at, NEW er
  PROVE  Pulls(r, EnterPullback(r, swing, bar, at, er), at)
<1> DEFINE f == EnterPullback(r, swing, bar, at, er)
           rec == [regime |-> "PULLBACK_UNRESOLVED", at |-> at, direction |-> r.direction,
                   lean |-> Lean(r, bar, er), pivot |-> swing.pivot, supersedes |-> None]
           pulled == Emitted(Moved(r, "PULLBACK_UNRESOLVED", at), "PULLBACK_UNRESOLVED", at,
                             Lean(r, bar, er), swing.pivot, None)
<1>1. /\ IsEngine(pulled) /\ pulled.regime = "PULLBACK_UNRESOLVED"
      /\ pulled.delivered = r.delivered
      /\ pulled.states = Append(r.states, rec)
      /\ pulled.transitions
           = Append(r.transitions, [from |-> r.regime, to |-> "PULLBACK_UNRESOLVED", at |-> at])
  BY DEF IsEngine, Fields, Emitted, Moved
<1>2. Last(pulled.states) = rec
  <2>1. Len(Append(r.states, rec)) = Len(r.states) + 1
        /\ Append(r.states, rec)[Len(r.states) + 1] = rec
    BY AppendTo
  <2> HIDE DEF pulled, rec
  <2> QED BY <1>1, <2>1 DEF Last
<1>3. f = [pulled EXCEPT !.unresolved = Last(pulled.states)]
  BY DEF EnterPullback
<1> HIDE DEF pulled, f
<1>4. /\ IsEngine(f) /\ f.regime = "PULLBACK_UNRESOLVED" /\ f.delivered = r.delivered
      /\ f.states = pulled.states /\ f.unresolved = Last(pulled.states)
      /\ f.transitions = pulled.transitions
  BY <1>1, <1>3 DEF IsEngine, Fields
<1>5. rec.regime = "PULLBACK_UNRESOLVED" /\ rec.at = at /\ rec.supersedes = None
  OBVIOUS
<1> HIDE DEF rec
<1> QED BY <1>1, <1>2, <1>4, <1>5 DEF Pulls, Enters, f

LEMMA ResolutionResolves ==
  ASSUME NEW r, IsEngine(r), r.regime = "PULLBACK_UNRESOLVED", NEW at,
         NEW to \in {"RETRACEMENT", "REVERSAL", "CONSOLIDATION"},
         to = "CONSOLIDATION" => r.delivered
  PROVE  ResolvesTo(r, Resolved(r, to, at), to, at)
<1> DEFINE f == Resolved(r, to, at)
           rec == [regime |-> to, at |-> at, direction |-> r.direction,
                   lean |-> None, pivot |-> None, supersedes |-> Id(r.unresolved)]
<1>1. /\ IsEngine(f) /\ f.regime = to /\ f.delivered = (to # "CONSOLIDATION")
      /\ f.states = Append(r.states, rec)
      /\ f.transitions = Append(r.transitions, [from |-> r.regime, to |-> to, at |-> at])
  BY DEF IsEngine, Fields, Resolved, Emitted, Moved
<1>2. rec.regime = to /\ rec.at = at /\ rec.supersedes = Id(r.unresolved)
  OBVIOUS
<1> HIDE DEF f, rec
<1> QED BY <1>1, <1>2 DEF ResolvesTo, Enters, f

LEMMA StallResolves ==
  ASSUME NEW r, IsEngine(r), r.regime = "PULLBACK_UNRESOLVED", r.delivered, NEW at
  PROVE  ResolvesTo(r, ResolveConsolidation(r, at), "CONSOLIDATION", at)
<1> DEFINE g == [r EXCEPT !.direction = None, !.extreme = None, !.defining = None]
           f == Resolved(g, "CONSOLIDATION", at)
<1>1. /\ IsEngine(g) /\ g.regime = r.regime /\ g.delivered = r.delivered
      /\ g.states = r.states /\ g.transitions = r.transitions /\ g.unresolved = r.unresolved
  BY DEF IsEngine, Fields
<1> HIDE DEF g
<1>2. ResolvesTo(g, f, "CONSOLIDATION", at)
  BY <1>1, ResolutionResolves
<1>3. ResolvesTo(r, f, "CONSOLIDATION", at)
  BY <1>1, <1>2 DEF ResolvesTo, Enters
<1> QED BY <1>3 DEF ResolveConsolidation, g

LEMMA ExpandsAfter ==
  ASSUME NEW r, IsEngine(r), r.regime = "PULLBACK_UNRESOLVED", NEW at,
         NEW to \in {"RETRACEMENT", "REVERSAL"}, NEW direction, NEW extreme
  PROVE  \E g : /\ ResolvesTo(r, g, to, at)
                /\ Expands(g, EnterExpansion(Resolved(r, to, at), direction, extreme, at), at)
<1> DEFINE g == Resolved(r, to, at)
<1>1. ResolvesTo(r, g, to, at)
  BY ResolutionResolves
<1> HIDE DEF g
<1>2. IsEngine(g) /\ g.regime # "PULLBACK_UNRESOLVED"
  BY <1>1 DEF ResolvesTo, Enters
<1>3. Expands(g, EnterExpansion(g, direction, extreme, at), at)
  BY <1>2, ExpansionExpands
<1> QED BY <1>1, <1>3 DEF g

\* What a confirmed swing may do.
LEMMA SwingEffects ==
  ASSUME NEW r, IsEngine(r), IsSeq(r.states), NEW swing, NEW bar, NEW at, NEW er
  PROVE  LET f == OnSwing(r, swing, bar, at, er)
         IN \/ Stands(r, f)
            \/ Expands(r, f, at)
            \/ Pulls(r, f, at)
            \/ \E g : ResolvesTo(r, g, "RETRACEMENT", at) /\ Expands(g, f, at)
            \/ ResolvesTo(r, f, "CONSOLIDATION", at)
<1> DEFINE f == OnSwing(r, swing, bar, at, er)
           leads == swing.type = Leading(r.direction)
           moved == [r EXCEPT !.extreme = swing.body,
                              !.defining = IF r.last[Trailing(r.direction)] = None THEN @
                                           ELSE r.last[Trailing(r.direction)]]
           consolidates == r.regime = "CONSOLIDATION" /\ GoesFurther(r, swing)
           extends == r.regime = "EXPANSION" /\ leads /\ GoesFurther(r, swing)
           pulls == r.regime = "EXPANSION" /\ swing.type = Trailing(r.direction)
           retraces == /\ r.regime = "PULLBACK_UNRESOLVED" /\ leads
                       /\ Beyond(swing.type, swing.body, r.extreme)
           stalls == r.regime = "PULLBACK_UNRESOLVED" /\ leads /\ MayStall(r)
           up == IF swing.type = "HIGH" THEN "UP" ELSE "DOWN"
<1>1. f = IF consolidates THEN EnterExpansion(r, up, swing.body, at)
          ELSE IF extends THEN moved
          ELSE IF pulls THEN EnterPullback(r, swing, bar, at, er)
          ELSE IF retraces THEN ResolveRetracement(r, swing, at)
          ELSE IF stalls THEN ResolveConsolidation(r, at)
          ELSE r
  BY DEF OnSwing
<1>2. Stands(r, r)
  BY DEF Stands
<1>3. r.regime = "EXPANSION" => Stands(r, moved)
  BY DEF Stands, IsEngine, Fields
<1>4. r.regime = "CONSOLIDATION" => Expands(r, EnterExpansion(r, up, swing.body, at), at)
  <2> HIDE DEF up
  <2> QED BY ExpansionExpands
<1>5. r.regime = "EXPANSION" => Pulls(r, EnterPullback(r, swing, bar, at, er), at)
  BY PullbackPulls
<1>6. r.regime = "PULLBACK_UNRESOLVED" =>
        \E g : ResolvesTo(r, g, "RETRACEMENT", at) /\ Expands(g, ResolveRetracement(r, swing, at), at)
  BY ExpandsAfter DEF ResolveRetracement
<1>7. r.regime = "PULLBACK_UNRESOLVED" /\ MayStall(r)
        => ResolvesTo(r, ResolveConsolidation(r, at), "CONSOLIDATION", at)
  BY StallResolves DEF MayStall
<1>8. /\ consolidates => r.regime = "CONSOLIDATION"
      /\ extends \/ pulls => r.regime = "EXPANSION"
      /\ retraces \/ stalls => r.regime = "PULLBACK_UNRESOLVED"
      /\ stalls => MayStall(r)
  OBVIOUS
<1> HIDE DEF consolidates, extends, pulls, retraces, stalls, moved, up, f
<1>9. \/ f = r
      \/ f = moved /\ extends
      \/ f = EnterExpansion(r, up, swing.body, at) /\ consolidates
      \/ f = EnterPullback(r, swing, bar, at, er) /\ pulls
      \/ f = ResolveRetracement(r, swing, at) /\ retraces
      \/ f = ResolveConsolidation(r, at) /\ stalls
  BY <1>1
<1>10. \/ Stands(r, f)
       \/ Expands(r, f, at)
       \/ Pulls(r, f, at)
       \/ \E g : ResolvesTo(r, g, "RETRACEMENT", at) /\ Expands(g, f, at)
       \/ ResolvesTo(r, f, "CONSOLIDATION", at)
  BY <1>2, <1>3, <1>4, <1>5, <1>6, <1>7, <1>8, <1>9
<1> QED BY <1>10 DEF f

\* A renewed lean is a record more and no move.
Renews(r, f, at) ==
  /\ IsEngine(f) /\ f.regime = r.regime /\ f.delivered = r.delivered
  /\ f.direction = r.direction /\ f.defining = r.defining /\ f.transitions = r.transitions
  /\ \E rec : /\ rec.regime = "PULLBACK_UNRESOLVED" /\ rec.at = at
              /\ rec.supersedes = Id(r.unresolved)
              /\ f.states = Append(r.states, rec) /\ f.unresolved = rec

LEMMA RefreshEffects ==
  ASSUME NEW r, IsEngine(r), IsSeq(r.states), NEW bar, NEW at, NEW er
  PROVE  RefreshLean(r, bar, at, er) = r \/ Renews(r, RefreshLean(r, bar, at, er), at)
<1> DEFINE f == RefreshLean(r, bar, at, er)
           lean == Lean(r, bar, er)
           rec == [regime |-> "PULLBACK_UNRESOLVED", at |-> at, direction |-> r.direction,
                   lean |-> lean, pivot |-> r.unresolved.pivot, supersedes |-> Id(r.unresolved)]
           renewed == Emitted(r, "PULLBACK_UNRESOLVED", at, lean, r.unresolved.pivot,
                              Id(r.unresolved))
<1>1. /\ IsEngine(renewed) /\ renewed.regime = r.regime /\ renewed.delivered = r.delivered
      /\ renewed.direction = r.direction /\ renewed.defining = r.defining
      /\ renewed.transitions = r.transitions /\ renewed.states = Append(r.states, rec)
  BY DEF IsEngine, Fields, Emitted
<1>2. Last(renewed.states) = rec
  <2>1. Len(Append(r.states, rec)) = Len(r.states) + 1
        /\ Append(r.states, rec)[Len(r.states) + 1] = rec
    BY AppendTo
  <2> HIDE DEF renewed, rec
  <2> QED BY <1>1, <2>1 DEF Last
<1>3. f = r \/ f = [renewed EXCEPT !.unresolved = Last(renewed.states)]
  BY DEF RefreshLean
<1>4. rec.regime = "PULLBACK_UNRESOLVED" /\ rec.at = at /\ rec.supersedes = Id(r.unresolved)
  OBVIOUS
<1> HIDE DEF renewed, f, rec
<1>5. ASSUME f = [renewed EXCEPT !.unresolved = Last(renewed.states)]
      PROVE  /\ IsEngine(f) /\ f.regime = r.regime /\ f.delivered = r.delivered
             /\ f.direction = r.direction /\ f.defining = r.defining
             /\ f.transitions = r.transitions
             /\ f.states = Append(r.states, rec) /\ f.unresolved = rec
  BY <1>1, <1>2, <1>5 DEF IsEngine, Fields
<1> QED BY <1>3, <1>4, <1>5 DEF Renews, f

-----------------------------------------------------------------------------
(* The records of an engine, of which the w-th waits; none if w is 0.       *)

IsPulled(s, i) == i \in 1..Len(s) /\ s[i].regime = "PULLBACK_UNRESOLVED"

LogOf(s, w) ==
  /\ IsSeq(s)
  /\ \A i \in 1..Len(s) : s[i].regime \in Regimes /\ s[i].at \in Nat
  /\ \A i, j \in 1..Len(s) : IsPulled(s, i) /\ IsPulled(s, j) /\ s[i].at = s[j].at => i = j
  /\ \A j \in 1..Len(s) :
       \/ s[j].supersedes = None
       \/ \E i \in 1..Len(s) : IsPulled(s, i) /\ i < j /\ s[j].supersedes = Id(s[i])
  /\ \A j, k \in 1..Len(s) : s[j].supersedes = s[k].supersedes /\ s[j].supersedes # None => j = k
  /\ w = 0 \/ IsPulled(s, w)
  /\ \A i \in 1..Len(s) :
       IsPulled(s, i) => (i # w <=> \E j \in 1..Len(s) : s[j].supersedes = Id(s[i]))

LEMMA IdsDiffer ==
  ASSUME NEW a, NEW b, a.regime \in Regimes, a.at \in Nat
  PROVE  Id(a) # None /\ (Id(a) = Id(b) => a.at = b.at /\ a.regime = b.regime)
<1>1. Id(a) \in Regimes \X Nat
  BY DEF Id
<1> QED BY <1>1, IdAssumption DEF Id

\* A record takes the place of the one that waits, and waits itself if it is a pullback's.
LEMMA LogGrows ==
  ASSUME NEW s, NEW w, LogOf(s, w), NEW rec, rec.regime \in Regimes, rec.at \in Nat,
         rec.supersedes = IF w = 0 THEN None ELSE Id(s[w]),
         rec.regime = "PULLBACK_UNRESOLVED" =>
           \A i \in 1..Len(s) : IsPulled(s, i) => s[i].at # rec.at
  PROVE  LogOf(Append(s, rec), IF rec.regime = "PULLBACK_UNRESOLVED" THEN Len(s) + 1 ELSE 0)
<1> DEFINE t == Append(s, rec)
           n == Len(s)
           v == IF rec.regime = "PULLBACK_UNRESOLVED" THEN n + 1 ELSE 0
<1>1. /\ n \in Nat /\ IsSeq(t) /\ Len(t) = n + 1 /\ t[n + 1] = rec
      /\ \A i \in 1..n : t[i] = s[i]
  BY AppendTo DEF LogOf
<1> HIDE DEF t
<1>2. \A i \in 1..Len(t) : i \in 1..n \/ i = n + 1
  BY <1>1
<1>3. \A i \in 1..n : i \in 1..Len(t) /\ i # n + 1 /\ i < n + 1
  BY <1>1
<1>4. n + 1 \in 1..Len(t) /\ n + 1 # 0
  BY <1>1
<1> HIDE DEF n
<1>5. \A i \in 1..n : IsPulled(t, i) <=> IsPulled(s, i)
  BY <1>1, <1>3 DEF IsPulled, n
<1>6. IsPulled(t, n + 1) <=> rec.regime = "PULLBACK_UNRESOLVED"
  BY <1>1, <1>4 DEF IsPulled
<1>7. \A i \in 1..Len(t) : t[i].regime \in Regimes /\ t[i].at \in Nat
  BY <1>1, <1>2 DEF LogOf, n
<1>8. ASSUME NEW i \in 1..Len(t), NEW j \in 1..Len(t), IsPulled(t, i), IsPulled(t, j),
             t[i].at = t[j].at
      PROVE  i = j
  BY <1>1, <1>2, <1>5, <1>6, <1>8 DEF LogOf, n
<1>9. w # 0 => w \in 1..n /\ IsPulled(s, w)
  BY DEF LogOf, IsPulled, n
<1>10. ASSUME NEW j \in 1..Len(t)
       PROVE  \/ t[j].supersedes = None
              \/ \E i \in 1..Len(t) : IsPulled(t, i) /\ i < j /\ t[j].supersedes = Id(t[i])
  <2>1. CASE j \in 1..n
    <3>1. \/ s[j].supersedes = None
          \/ \E i \in 1..n : IsPulled(s, i) /\ i < j /\ s[j].supersedes = Id(s[i])
      BY <2>1 DEF LogOf, n
    <3> QED BY <1>1, <1>3, <1>5, <2>1, <3>1
  <2>2. CASE j = n + 1
    <3>1. CASE w = 0
      BY <1>1, <2>2, <3>1
    <3>2. CASE w # 0
      <4>1. w \in 1..Len(t) /\ IsPulled(t, w) /\ w < j /\ t[w] = s[w]
        BY <1>1, <1>3, <1>5, <1>9, <2>2, <3>2
      <4>2. t[j].supersedes = Id(t[w])
        BY <1>1, <2>2, <3>2, <4>1
      <4> QED BY <4>1, <4>2
    <3> QED BY <3>1, <3>2
  <2> QED BY <1>2, <2>1, <2>2
<1>11. ASSUME NEW i \in 1..n, IsPulled(s, i), rec.supersedes = Id(s[i]) PROVE i = w
  <2>1. s[i].regime \in Regimes /\ s[i].at \in Nat
    BY DEF LogOf, n
  <2>2. Id(s[i]) # None
    BY <2>1, IdsDiffer
  <2>3. w # 0 /\ Id(s[i]) = Id(s[w])
    BY <1>11, <2>2
  <2>4. s[i].at = s[w].at
    BY <2>1, <2>3, IdsDiffer
  <2> QED BY <1>9, <1>11, <2>3, <2>4 DEF LogOf, n
<1>12. ASSUME NEW j \in 1..n, rec.supersedes # None, s[j].supersedes = rec.supersedes PROVE FALSE
  <2>1. w # 0 /\ s[j].supersedes = Id(s[w])
    BY <1>12
  <2> QED BY <1>9, <2>1 DEF LogOf, n
<1>13. ASSUME NEW j \in 1..Len(t), NEW k \in 1..Len(t), t[j].supersedes = t[k].supersedes,
              t[j].supersedes # None
       PROVE  j = k
  <2>1. CASE j \in 1..n /\ k \in 1..n
    BY <1>1, <1>13, <2>1 DEF LogOf, n
  <2>2. CASE j \in 1..n /\ k = n + 1
    BY <1>1, <1>12, <1>13, <2>2
  <2>3. CASE j = n + 1 /\ k \in 1..n
    BY <1>1, <1>12, <1>13, <2>3
  <2> QED BY <1>2, <2>1, <2>2, <2>3
<1>14. ASSUME NEW i \in 1..Len(t), IsPulled(t, i)
       PROVE  i # v <=> \E j \in 1..Len(t) : t[j].supersedes = Id(t[i])
  <2>1. CASE i \in 1..n
    <3>1. i # v
      BY <1>3, <2>1, <1>1 DEF n
    <3>2. IsPulled(s, i) /\ t[i] = s[i]
      BY <1>1, <1>5, <1>14, <2>1
    <3>3. CASE i = w
      <4>1. w # 0
        BY <2>1, <3>3, <1>1
      <4>2. t[n + 1].supersedes = Id(t[i])
        BY <1>1, <3>2, <3>3, <4>1
      <4> QED BY <1>4, <3>1, <4>2
    <3>4. CASE i # w
      <4>1. PICK j \in 1..n : s[j].supersedes = Id(s[i])
        BY <2>1, <3>2, <3>4 DEF LogOf, n
      <4>2. j \in 1..Len(t) /\ t[j].supersedes = Id(t[i])
        BY <1>1, <1>3, <3>2, <4>1
      <4> QED BY <3>1, <4>2
    <3> QED BY <3>3, <3>4
  <2>2. CASE i = n + 1
    <3>1. i = v /\ t[i] = rec /\ rec.regime = "PULLBACK_UNRESOLVED"
      BY <1>1, <1>6, <1>14, <2>2
    <3>2. ASSUME NEW j \in 1..Len(t), t[j].supersedes = Id(rec) PROVE FALSE
      <4>1. Id(rec) # None
        BY IdsDiffer
      <4>2. PICK k \in 1..Len(t) : IsPulled(t, k) /\ k < j /\ t[j].supersedes = Id(t[k])
        BY <1>10, <3>2, <4>1
      <4>3. t[k].at = rec.at
        BY <3>2, <4>2, IdsDiffer
      <4>4. k = i
        BY <1>8, <1>14, <3>1, <4>2, <4>3
      <4> QED BY <1>1, <2>2, <4>2, <4>4
    <3> QED BY <3>1, <3>2
  <2> QED BY <1>2, <2>1, <2>2
<1>15. v = 0 \/ IsPulled(t, v)
  BY <1>6
<1> HIDE DEF v
<1>16. LogOf(t, v)
  BY <1>1, <1>7, <1>8, <1>10, <1>13, <1>14, <1>15 DEF LogOf
<1> QED BY <1>16 DEF t, v, n

-----------------------------------------------------------------------------
(* What an engine keeps to, whatever bars and swings it is given.           *)

IsEnd(s, i) == i \in 1..Len(s) /\ s[i].regime = "CONSOLIDATION"
IsResolving(s, i) == i \in 1..Len(s) /\ s[i].regime \in {"RETRACEMENT", "REVERSAL"}

\* Since the ends before the n-th record something was resolved.
ResolvedBefore(s, n) ==
  \E j \in 1..(n - 1) : IsResolving(s, j) /\ \A k \in 1..(n - 1) : IsEnd(s, k) => k < j

LegsDeliver(s, delivered) ==
  /\ \A i \in 1..Len(s) : IsEnd(s, i) => ResolvedBefore(s, i)
  /\ delivered => ResolvedBefore(s, Len(s) + 1)

LEMMA LegsStillDeliver ==
  ASSUME NEW s, IsSeq(s), NEW before, LegsDeliver(s, before), NEW rec, NEW after,
         rec.regime = "CONSOLIDATION" => before /\ ~after,
         after => before \/ rec.regime \in {"RETRACEMENT", "REVERSAL"}
  PROVE  LegsDeliver(Append(s, rec), after)
<1> DEFINE t == Append(s, rec)
           n == Len(s)
<1>1. /\ n \in Nat /\ IsSeq(t) /\ Len(t) = n + 1 /\ t[n + 1] = rec
      /\ \A i \in 1..n : t[i] = s[i]
  BY AppendTo
<1> HIDE DEF t
<1>2. \A i \in 1..n : /\ IsEnd(t, i) <=> IsEnd(s, i)
                      /\ IsResolving(t, i) <=> IsResolving(s, i)
  BY <1>1 DEF IsEnd, IsResolving
<1>3. ASSUME NEW m \in 1..(n + 1) PROVE ResolvedBefore(t, m) <=> ResolvedBefore(s, m)
  <2>1. \A i \in 1..(m - 1) : i \in 1..n
    BY <1>1
  <2> HIDE DEF n
  <2> QED BY <1>2, <2>1 DEF ResolvedBefore
<1>4. ASSUME NEW i \in 1..Len(t), IsEnd(t, i) PROVE ResolvedBefore(t, i)
  <2>1. i \in 1..(n + 1)
    BY <1>1
  <2>2. CASE i \in 1..n
    BY <1>2, <1>3, <1>4, <2>1, <2>2 DEF LegsDeliver
  <2>3. CASE i = n + 1
    <3>1. rec.regime = "CONSOLIDATION"
      BY <1>1, <1>4, <2>3 DEF IsEnd
    <3>2. ResolvedBefore(s, n + 1)
      BY <3>1 DEF LegsDeliver
    <3> QED BY <1>3, <2>1, <2>3, <3>2
  <2> QED BY <2>1, <2>2, <2>3, <1>1
<1>5. ASSUME after PROVE ResolvedBefore(t, n + 2)
  <2>1. rec.regime # "CONSOLIDATION"
    BY <1>5
  <2>2. CASE rec.regime \in {"RETRACEMENT", "REVERSAL"}
    <3>1. IsResolving(t, n + 1) /\ n + 1 \in 1..(n + 2 - 1)
      BY <1>1, <2>2 DEF IsResolving
    <3>2. ASSUME NEW k \in 1..(n + 2 - 1), IsEnd(t, k) PROVE k < n + 1
      <4>1. k # n + 1
        BY <1>1, <2>1, <3>2 DEF IsEnd
      <4> QED BY <1>1, <4>1
    <3> QED BY <3>1, <3>2 DEF ResolvedBefore
  <2>3. CASE before
    <3>1. PICK j \in 1..n : IsResolving(s, j) /\ \A k \in 1..n : IsEnd(s, k) => k < j
      <4>1. ResolvedBefore(s, n + 1) /\ n + 1 - 1 = n
        BY <2>3, <1>1 DEF LegsDeliver
      <4> HIDE DEF n
      <4> QED BY <1>1, <4>1 DEF ResolvedBefore
    <3>2. j \in 1..(n + 2 - 1) /\ IsResolving(t, j)
      BY <1>1, <1>2, <3>1
    <3>3. ASSUME NEW k \in 1..(n + 2 - 1), IsEnd(t, k) PROVE k < j
      <4>1. k # n + 1
        BY <1>1, <2>1, <3>3 DEF IsEnd
      <4>2. k \in 1..n
        BY <1>1, <4>1
      <4> QED BY <1>2, <3>1, <3>3, <4>2
    <3> QED BY <3>2, <3>3 DEF ResolvedBefore
  <2> QED BY <1>5, <2>2, <2>3
<1>6. n + 2 = Len(t) + 1
  BY <1>1
<1> HIDE DEF n
<1> QED BY <1>4, <1>5, <1>6 DEF LegsDeliver, t

\* What waits is what the engine has still to resolve.
Waits(r) ==
  \E w \in Nat : /\ LogOf(r.states, w)
                 /\ w # 0 <=> r.regime = "PULLBACK_UNRESOLVED"
                 /\ w # 0 => r.unresolved = r.states[w]

\* Its last move is into the pullback it waits on.
MovedLast(r) ==
  /\ IsSeq(r.transitions)
  /\ r.regime = "PULLBACK_UNRESOLVED" =>
       Len(r.transitions) # 0 /\ r.transitions[Len(r.transitions)].to = "PULLBACK_UNRESOLVED"

Sound(r, at) ==
  /\ IsEngine(r) /\ r.regime \in Regimes
  /\ Waits(r)
  /\ MovedLast(r)
  /\ LegsDeliver(r.states, r.delivered)
  /\ \A i \in 1..Len(r.states) : r.states[i].at <= at

\* No pullback was recognised, and no lean renewed, on the bar.
Fresh(r, at) == \A i \in 1..Len(r.states) : IsPulled(r.states, i) => r.states[i].at # at

Waiting(r) == IF r.regime = "PULLBACK_UNRESOLVED" THEN Id(r.unresolved) ELSE None

\* One record more, which takes the place of what waits.
Records(r, f, at) ==
  /\ IsEngine(f)
  /\ \E rec : /\ rec.regime = f.regime /\ rec.at = at
              /\ rec.supersedes = Waiting(r)
              /\ f.states = Append(r.states, rec)
              /\ f.regime = "PULLBACK_UNRESOLVED" => f.unresolved = rec

LEMMA RecordsKeep ==
  ASSUME NEW at \in Nat, NEW r, Sound(r, at), NEW f, f.regime \in Regimes, Records(r, f, at),
         f.regime = "PULLBACK_UNRESOLVED" => Fresh(r, at),
         MovedLast(f),
         f.regime = "CONSOLIDATION" => r.delivered /\ ~f.delivered,
         f.delivered => r.delivered \/ f.regime \in {"RETRACEMENT", "REVERSAL"}
  PROVE  /\ Sound(f, at)
         /\ f.regime # "PULLBACK_UNRESOLVED" => (Fresh(r, at) => Fresh(f, at))
<1>1. PICK w \in Nat : /\ LogOf(r.states, w)
                       /\ w # 0 <=> r.regime = "PULLBACK_UNRESOLVED"
                       /\ w # 0 => r.unresolved = r.states[w]
  BY DEF Sound, Waits
<1>2. PICK rec : /\ rec.regime = f.regime /\ rec.at = at
                 /\ rec.supersedes = Waiting(r)
                 /\ f.states = Append(r.states, rec)
                 /\ f.regime = "PULLBACK_UNRESOLVED" => f.unresolved = rec
  BY DEF Records
<1> DEFINE v == IF rec.regime = "PULLBACK_UNRESOLVED" THEN Len(r.states) + 1 ELSE 0
<1>3. IsSeq(r.states)
  BY <1>1 DEF LogOf
<1>4. /\ Len(r.states) \in Nat /\ Len(f.states) = Len(r.states) + 1
      /\ f.states[Len(r.states) + 1] = rec
      /\ \A i \in 1..Len(r.states) : f.states[i] = r.states[i]
  BY <1>2, <1>3, AppendTo
<1>5. LogOf(f.states, v)
  <2>1. rec.supersedes = IF w = 0 THEN None ELSE Id(r.states[w])
    BY <1>1, <1>2 DEF Waiting
  <2>2. rec.regime = "PULLBACK_UNRESOLVED" =>
          \A i \in 1..Len(r.states) : IsPulled(r.states, i) => r.states[i].at # rec.at
    BY <1>2 DEF Fresh
  <2>3. rec.regime \in Regimes /\ rec.at \in Nat
    BY <1>2
  <2>4. LogOf(Append(r.states, rec), v)
    BY <1>1, <2>1, <2>2, <2>3, LogGrows
  <2> HIDE DEF v
  <2> QED BY <1>2, <2>4
<1>6. Waits(f)
  <2>1. v \in Nat /\ (v # 0 <=> f.regime = "PULLBACK_UNRESOLVED")
    BY <1>2, <1>4
  <2>2. v # 0 => f.unresolved = f.states[v]
    BY <1>2, <1>4
  <2> HIDE DEF v
  <2> QED BY <1>5, <2>1, <2>2 DEF Waits
<1>7. LegsDeliver(f.states, f.delivered)
  <2>1. LegsDeliver(r.states, r.delivered)
    BY DEF Sound
  <2>2. LegsDeliver(Append(r.states, rec), f.delivered)
    BY <1>2, <1>3, <2>1, LegsStillDeliver
  <2> QED BY <1>2, <2>2
<1>8. ASSUME f.regime # "PULLBACK_UNRESOLVED", Fresh(r, at),
             NEW i \in 1..Len(f.states), IsPulled(f.states, i)
      PROVE  f.states[i].at # at
  <2>1. i # Len(r.states) + 1
    BY <1>2, <1>4, <1>8 DEF IsPulled
  <2>2. i \in 1..Len(r.states)
    BY <1>4, <2>1
  <2> QED BY <1>4, <1>8, <2>2 DEF IsPulled, Fresh
<1>9. ASSUME NEW i \in 1..Len(f.states) PROVE f.states[i].at <= at
  <2>1. CASE i = Len(r.states) + 1
    BY <1>2, <1>4, <2>1
  <2>2. CASE i # Len(r.states) + 1
    <3>1. i \in 1..Len(r.states)
      BY <1>4, <2>2
    <3> QED BY <1>4, <3>1 DEF Sound
  <2> QED BY <2>1, <2>2
<1> QED BY <1>6, <1>7, <1>8, <1>9 DEF Sound, Records, Fresh

LEMMA StandsKeep ==
  ASSUME NEW at, NEW r, Sound(r, at), NEW f, Stands(r, f)
  PROVE  Sound(f, at) /\ (Fresh(r, at) => Fresh(f, at))
BY DEF Sound, Stands, Waits, MovedLast, Fresh

\* A move that goes on the engine's log of moves.
LEMMA MoveIsLast ==
  ASSUME NEW at, NEW r, Sound(r, at), NEW f, NEW move,
         f.transitions = Append(r.transitions, move), move.to = f.regime
  PROVE  /\ MovedLast(f)
         /\ Len(f.transitions) # 0 /\ f.transitions[Len(f.transitions)] = move
<1>1. IsSeq(r.transitions)
  BY DEF Sound, MovedLast
<1>2. /\ IsSeq(f.transitions) /\ Len(f.transitions) = Len(r.transitions) + 1
      /\ Len(r.transitions) \in Nat /\ f.transitions[Len(r.transitions) + 1] = move
  BY <1>1, AppendTo
<1>3. Len(f.transitions) # 0 /\ f.transitions[Len(f.transitions)] = move
  BY <1>2
<1> QED BY <1>2, <1>3 DEF MovedLast

LEMMA EntersRecords ==
  ASSUME NEW at, NEW r, Sound(r, at), NEW f, NEW to, Enters(r, f, to, at, Waiting(r))
  PROVE  /\ Records(r, f, at) /\ f.regime = to /\ MovedLast(f)
         /\ f.transitions[Len(f.transitions)].at = at
<1>1. Records(r, f, at) /\ f.regime = to
  BY DEF Enters, Records
<1> DEFINE move == [from |-> r.regime, to |-> to, at |-> at]
<1>2. f.transitions = Append(r.transitions, move) /\ move.to = f.regime /\ move.at = at
  BY <1>1 DEF Enters
<1> HIDE DEF move
<1>3. MovedLast(f) /\ f.transitions[Len(f.transitions)] = move
  BY <1>2, MoveIsLast
<1> QED BY <1>1, <1>2, <1>3

LEMMA ExpandsKeep ==
  ASSUME NEW at \in Nat, NEW r, Sound(r, at), NEW f, Expands(r, f, at)
  PROVE  Sound(f, at) /\ f.regime = "EXPANSION" /\ (Fresh(r, at) => Fresh(f, at))
<1>0. Enters(r, f, "EXPANSION", at, Waiting(r))
  BY DEF Expands, Waiting
<1>1. Records(r, f, at) /\ f.regime = "EXPANSION" /\ MovedLast(f)
  BY <1>0, EntersRecords
<1>2. f.regime \in Regimes
  BY <1>1 DEF Regimes
<1> QED BY <1>1, <1>2, RecordsKeep DEF Expands

LEMMA PullsKeep ==
  ASSUME NEW at \in Nat, NEW r, Sound(r, at), NEW f, Pulls(r, f, at), Fresh(r, at)
  PROVE  /\ Sound(f, at) /\ f.regime = "PULLBACK_UNRESOLVED"
         /\ f.transitions[Len(f.transitions)].at = at
<1>1. Enters(r, f, "PULLBACK_UNRESOLVED", at, Waiting(r))
  BY DEF Pulls, Waiting
<1>2. /\ Records(r, f, at) /\ f.regime = "PULLBACK_UNRESOLVED" /\ MovedLast(f)
      /\ f.transitions[Len(f.transitions)].at = at
  BY <1>1, EntersRecords
<1>3. f.regime \in Regimes
  BY <1>2 DEF Regimes
<1> QED BY <1>2, <1>3, RecordsKeep DEF Pulls

LEMMA ResolvesKeep ==
  ASSUME NEW at \in Nat, NEW r, Sound(r, at), NEW f, NEW to, ResolvesTo(r, f, to, at)
  PROVE  Sound(f, at) /\ f.regime = to /\ (Fresh(r, at) => Fresh(f, at))
<1>0. Enters(r, f, to, at, Waiting(r))
  BY DEF ResolvesTo, Waiting
<1>1. Records(r, f, at) /\ f.regime = to /\ MovedLast(f)
  BY <1>0, EntersRecords
<1>2. to \in {"RETRACEMENT", "REVERSAL", "CONSOLIDATION"} /\ to \in Regimes
  BY DEF ResolvesTo, Regimes
<1> QED BY <1>1, <1>2, RecordsKeep DEF ResolvesTo

LEMMA RenewsKeep ==
  ASSUME NEW at \in Nat, NEW r, Sound(r, at), NEW f, Renews(r, f, at),
         r.regime = "PULLBACK_UNRESOLVED", Fresh(r, at)
  PROVE  Sound(f, at)
<1>1. Records(r, f, at) /\ f.regime \in Regimes /\ MovedLast(f)
  BY DEF Renews, Records, Waiting, Sound, MovedLast, Regimes
<1> QED BY <1>1, RecordsKeep DEF Renews

-----------------------------------------------------------------------------
(* A bar.                                                                  *)

\* What waits at the end of the bar either waited before it, and the bar has not closed
\* beyond the price that defines it, or was recognised on it.
WaitsSince(r, f, bar, at) ==
  f.regime = "PULLBACK_UNRESOLVED" =>
    \/ /\ r.regime = "PULLBACK_UNRESOLVED" /\ ~DefiningBroken(r, bar)
       /\ f.transitions = r.transitions /\ f.direction = r.direction /\ f.defining = r.defining
    \/ f.transitions[Len(f.transitions)].at = at

Taken(r, f, bar, at) == Sound(f, at) /\ WaitsSince(r, f, bar, at)

LEMMA SwingTaken ==
  ASSUME NEW r, NEW g, NEW bar, NEW at \in Nat, NEW er, NEW swing,
         Taken(r, g, bar, at), g.regime = "PULLBACK_UNRESOLVED" \/ Fresh(g, at)
  PROVE  LET f == OnSwing(RecordAnchor(g, swing), swing, bar, at, er)
         IN /\ Taken(r, f, bar, at)
            /\ Fresh(g, at) => f.regime = "PULLBACK_UNRESOLVED" \/ Fresh(f, at)
<1> DEFINE h == RecordAnchor(g, swing)
           f == OnSwing(h, swing, bar, at, er)
           Goal == /\ Taken(r, f, bar, at)
                   /\ Fresh(h, at) => f.regime = "PULLBACK_UNRESOLVED" \/ Fresh(f, at)
<1>1. IsEngine(g) /\ Stands(g, h)
  BY AnchorStands DEF Taken, Sound
<1> HIDE DEF h
<1>2. Sound(h, at) /\ (Fresh(g, at) => Fresh(h, at)) /\ h.regime = g.regime
  BY <1>1, StandsKeep DEF Taken, Stands
<1>3. WaitsSince(r, h, bar, at)
  BY <1>1 DEF Taken, WaitsSince, Stands
<1>4. IsEngine(h) /\ IsSeq(h.states)
  BY <1>2 DEF Sound, Waits, LogOf
<1>5. \/ Stands(h, f)
      \/ Expands(h, f, at)
      \/ Pulls(h, f, at)
      \/ \E e : ResolvesTo(h, e, "RETRACEMENT", at) /\ Expands(e, f, at)
      \/ ResolvesTo(h, f, "CONSOLIDATION", at)
  BY <1>4, SwingEffects
<1> HIDE DEF f
<1>6. ASSUME Stands(h, f) PROVE Goal
  <2>1. Sound(f, at) /\ (Fresh(h, at) => Fresh(f, at))
    BY <1>2, <1>6, StandsKeep
  <2>2. WaitsSince(r, f, bar, at)
    BY <1>3, <1>6 DEF WaitsSince, Stands
  <2> QED BY <2>1, <2>2 DEF Taken
<1>7. ASSUME Expands(h, f, at) PROVE Goal
  <2>1. Sound(f, at) /\ f.regime = "EXPANSION" /\ (Fresh(h, at) => Fresh(f, at))
    BY <1>2, <1>7, ExpandsKeep
  <2> QED BY <2>1 DEF Taken, WaitsSince
<1>8. ASSUME Pulls(h, f, at) PROVE Goal
  <2>1. Fresh(h, at)
    BY <1>2, <1>8 DEF Pulls
  <2>2. /\ Sound(f, at) /\ f.regime = "PULLBACK_UNRESOLVED"
        /\ f.transitions[Len(f.transitions)].at = at
    BY <1>2, <1>8, <2>1, PullsKeep
  <2> QED BY <2>2 DEF Taken, WaitsSince
<1>9. ASSUME NEW e, ResolvesTo(h, e, "RETRACEMENT", at), Expands(e, f, at) PROVE Goal
  <2>1. Sound(e, at) /\ (Fresh(h, at) => Fresh(e, at))
    BY <1>2, <1>9, ResolvesKeep
  <2>2. Sound(f, at) /\ f.regime = "EXPANSION" /\ (Fresh(e, at) => Fresh(f, at))
    BY <2>1, <1>9, ExpandsKeep
  <2> QED BY <2>1, <2>2 DEF Taken, WaitsSince
<1>10. ASSUME ResolvesTo(h, f, "CONSOLIDATION", at) PROVE Goal
  <2>1. Sound(f, at) /\ f.regime = "CONSOLIDATION" /\ (Fresh(h, at) => Fresh(f, at))
    BY <1>2, <1>10, ResolvesKeep
  <2> QED BY <2>1 DEF Taken, WaitsSince
<1>11. Goal
  BY <1>5, <1>6, <1>7, <1>8, <1>9, <1>10
<1> QED BY <1>2, <1>11 DEF f, h

\* The events of a bar: what it breaks, then at most two swings that it confirms.
AtMostTwo(events) ==
  \E m \in 0..2 : /\ Len(events) \in m..(m + 2)
                  /\ \A i \in 1..m : events[i].status # "CONFIRMED"

LEMMA TwoAtMostConfirmed ==
  ASSUME NEW tier, NEW period, NEW engine, NEW all
  PROVE  AtMostTwo(NewEvents(tier, period, engine, all))
<1> DEFINE a == Breaks(engine, all, "HIGH")
           b == Breaks(engine, all, "LOW")
           c == NewPivot(tier, period, all, "HIGH")
           d == NewPivot(tier, period, all, "LOW")
<1>1. ASSUME NEW type PROVE \E e : /\ Breaks(engine, all, type) \in {<<>>, <<e>>}
                                   /\ e.status = "BROKEN"
  <2> DEFINE e == Broken(engine.active[type][1], Len(all))
  <2>1. Breaks(engine, all, type) \in {<<>>, <<e>>}
    BY DEF Breaks
  <2>2. e.status = "BROKEN"
    BY DEF Broken
  <2> HIDE DEF e
  <2> QED BY <2>1, <2>2
<1>2. ASSUME NEW type PROVE \E e : NewPivot(tier, period, all, type) \in {<<>>, <<e>>}
  BY DEF NewPivot
<1>3. PICK p : a \in {<<>>, <<p>>} /\ p.status = "BROKEN"
  BY <1>1
<1>4. PICK q : b \in {<<>>, <<q>>} /\ q.status = "BROKEN"
  BY <1>1
<1>5. PICK u : c \in {<<>>, <<u>>}
  BY <1>2
<1>6. PICK v : d \in {<<>>, <<v>>}
  BY <1>2
<1>7. NewEvents(tier, period, engine, all) = ((a \o b) \o c) \o d
  BY DEF NewEvents
<1> DEFINE S == {p, q, u, v}
<1>8. a \in Seq(S) /\ b \in Seq(S) /\ c \in Seq(S) /\ d \in Seq(S)
  <2>1. ASSUME NEW e \in S, NEW s \in {<<>>, <<e>>} PROVE s \in Seq(S)
    <3> HIDE DEF S
    <3>1. CASE s = <<>>
      BY <3>1
    <3>2. CASE s = <<e>>
      BY <3>2
    <3> QED BY <3>1, <3>2
  <2>2. p \in S /\ q \in S /\ u \in S /\ v \in S
    OBVIOUS
  <2> HIDE DEF a, b, c, d, S
  <2> QED BY <1>3, <1>4, <1>5, <1>6, <2>1, <2>2
<1>9. /\ Len(a) \in 0..1 /\ Len(b) \in 0..1 /\ Len(c) \in 0..1 /\ Len(d) \in 0..1
      /\ \A i \in 1..Len(a) : a[i].status = "BROKEN"
      /\ \A i \in 1..Len(b) : b[i].status = "BROKEN"
  <2>1. ASSUME NEW e, NEW s \in {<<>>, <<e>>}
        PROVE  Len(s) \in 0..1 /\ \A i \in 1..Len(s) : s[i] = e
    <3>1. CASE s = <<>>
      BY <3>1
    <3>2. CASE s = <<e>>
      BY <3>2
    <3> QED BY <3>1, <3>2
  <2> HIDE DEF a, b, c, d
  <2> QED BY <1>3, <1>4, <1>5, <1>6, <2>1
<1> HIDE DEF a, b, c, d, S
<1> DEFINE x == a \o b
           y == x \o c
           z == y \o d
<1>10. x \in Seq(S) /\ Len(x) \in 0..2 /\ \A i \in 1..Len(x) : x[i].status = "BROKEN"
  BY <1>8, <1>9, ConcatProperties
<1> HIDE DEF x
<1>11. y \in Seq(S) /\ Len(y) \in Len(x)..(Len(x) + 1) /\ \A i \in 1..Len(x) : y[i] = x[i]
  BY <1>8, <1>9, <1>10, ConcatProperties
<1> HIDE DEF y
<1>12. Len(z) \in Len(x)..(Len(x) + 2) /\ \A i \in 1..Len(x) : z[i] = y[i]
  BY <1>8, <1>9, <1>10, <1>11, ConcatProperties
<1> HIDE DEF z
<1>13. AtMostTwo(z)
  BY <1>10, <1>11, <1>12 DEF AtMostTwo
<1> QED BY <1>7, <1>13 DEF x, y, z

\* So a bar takes its swings in two steps at most.
LEMMA SwingsTaken ==
  ASSUME NEW r, NEW broke, NEW bar, NEW at \in Nat, NEW er, NEW events, AtMostTwo(events),
         Taken(r, broke, bar, at), Fresh(broke, at)
  PROVE  Taken(r, Swung(broke, events, bar, at, er), bar, at)
<1>1. PICK m \in 0..2 : /\ Len(events) \in m..(m + 2)
                        /\ \A i \in 1..m : events[i].status # "CONFIRMED"
  BY DEF AtMostTwo
<1> DEFINE swung == Swung(broke, events, bar, at, er)
<1>2. PICK f : /\ f[0] = broke
               /\ \A i \in 1..Len(events) : f[i] = Taking(f, i, events, bar, at, er)
               /\ swung = f[Len(events)]
  <2>1. Len(events) \in Nat /\ swung = Swung(broke, events, bar, at, er)
    BY <1>1
  <2> HIDE DEF swung
  <2> QED BY <2>1, TakenOneByOne
<1>3. f[m] = broke
  <2>1. \A i \in 1..m : i \in 1..Len(events)
    BY <1>1
  <2>2. \A i \in 1..m : f[i] = f[i - 1]
    BY <1>1, <1>2, <2>1 DEF Taking
  <2>3. m = 0 \/ m = 1 \/ m = 2
    BY <1>1
  <2> QED BY <1>2, <2>2, <2>3
<1>4. ASSUME NEW i \in 1..Len(events), Taken(r, f[i - 1], bar, at),
             f[i - 1].regime = "PULLBACK_UNRESOLVED" \/ Fresh(f[i - 1], at)
      PROVE  /\ Taken(r, f[i], bar, at)
             /\ Fresh(f[i - 1], at) => f[i].regime = "PULLBACK_UNRESOLVED" \/ Fresh(f[i], at)
  <2>1. \/ f[i] = f[i - 1]
        \/ f[i] = OnSwing(RecordAnchor(f[i - 1], events[i]), events[i], bar, at, er)
    BY <1>2 DEF Taking
  <2> QED BY <1>4, <2>1, SwingTaken
<1>5. CASE Len(events) = m
  BY <1>2, <1>3, <1>5
<1>6. ASSUME Len(events) # m
      PROVE  /\ Taken(r, f[m + 1], bar, at)
             /\ f[m + 1].regime = "PULLBACK_UNRESOLVED" \/ Fresh(f[m + 1], at)
  <2>1. m + 1 \in 1..Len(events) /\ (m + 1) - 1 = m
    BY <1>1, <1>6
  <2> QED BY <1>3, <1>4, <2>1
<1>7. CASE Len(events) = m + 1
  BY <1>1, <1>2, <1>6, <1>7
<1>8. CASE Len(events) = m + 2
  <2>1. m + 2 \in 1..Len(events) /\ (m + 2) - 1 = m + 1
    BY <1>1, <1>8
  <2>2. Taken(r, f[m + 2], bar, at)
    BY <1>1, <1>4, <1>6, <1>8, <2>1
  <2> QED BY <1>2, <1>8, <2>2
<1> QED BY <1>1, <1>5, <1>7, <1>8

LEMMA BarTaken ==
  ASSUME NEW r, NEW all, Len(all) \in Nat, NEW er, NEW events, AtMostTwo(events),
         Sound(r, Len(all)), Fresh(r, Len(all))
  PROVE  Taken(r, Classified(r, all, er, events), Last(all), Len(all))
<1> DEFINE at == Len(all)
           bar == Last(all)
           reverses == r.regime = "PULLBACK_UNRESOLVED" /\ DefiningBroken(r, bar)
           broke == IF reverses THEN ResolveReversal(r, bar, at) ELSE r
           swung == Swung(broke, events, bar, at, er)
           renews == swung.regime = "PULLBACK_UNRESOLVED" /\ swung.states = r.states
           f == Classified(r, all, er, events)
<1>1. f = IF renews THEN RefreshLean(swung, bar, at, er) ELSE swung
  BY DEF Classified
<1>2. Taken(r, broke, bar, at) /\ Fresh(broke, at)
  <2>1. CASE reverses
    <3>1. broke = ResolveReversal(r, bar, at) /\ IsEngine(r)
      BY <2>1 DEF Sound
    <3>2. \E g : ResolvesTo(r, g, "REVERSAL", at) /\ Expands(g, broke, at)
      BY <2>1, <3>1, ExpandsAfter DEF ResolveReversal
    <3> HIDE DEF broke, at
    <3>3. PICK g : ResolvesTo(r, g, "REVERSAL", at) /\ Expands(g, broke, at)
      BY <3>2
    <3>4. at \in Nat /\ Sound(r, at) /\ Fresh(r, at)
      BY DEF at
    <3>5. Sound(g, at) /\ Fresh(g, at)
      BY <3>3, <3>4, ResolvesKeep
    <3>6. Sound(broke, at) /\ broke.regime = "EXPANSION" /\ Fresh(broke, at)
      BY <3>3, <3>4, <3>5, ExpandsKeep
    <3> QED BY <3>6 DEF Taken, WaitsSince
  <2>2. CASE ~reverses
    BY <2>2 DEF Taken, WaitsSince
  <2> QED BY <2>1, <2>2
<1>3. at \in Nat
  OBVIOUS
<1>4. \A i \in 1..Len(r.states) : IsPulled(r.states, i) => r.states[i].at # at
  BY DEF Fresh
<1> HIDE DEF broke, at, bar, f
<1>5. Taken(r, swung, bar, at)
  BY <1>2, <1>3, SwingsTaken
<1>6. renews => Fresh(swung, at) /\ swung.regime = "PULLBACK_UNRESOLVED"
  BY <1>4 DEF Fresh
<1> HIDE DEF swung, renews
<1>7. CASE ~renews
  BY <1>1, <1>5, <1>7 DEF f, at, bar
<1>8. CASE renews
  <2>1. Sound(swung, at)
    BY <1>5 DEF Taken
  <2>2. f = swung \/ Renews(swung, f, at)
    BY <1>1, <1>8, <2>1, RefreshEffects DEF Sound, Waits, LogOf
  <2>3. CASE Renews(swung, f, at)
    <3>1. Sound(f, at)
      BY <1>3, <1>6, <1>8, <2>1, <2>3, RenewsKeep
    <3>2. WaitsSince(r, f, bar, at)
      BY <1>5, <2>3 DEF Taken, WaitsSince, Renews
    <3>3. Taken(r, f, bar, at)
      BY <3>1, <3>2 DEF Taken
    <3> QED BY <3>3 DEF f, bar, at
  <2> QED BY <1>5, <2>2, <2>3 DEF f, bar, at
<1> QED BY <1>7, <1>8

-----------------------------------------------------------------------------
(* What is so of the regime engine after every bar.                         *)

\* No bar since the pullback was recognised has closed beyond what defines it.
NotPassed(r, all, n) ==
  r.regime = "PULLBACK_UNRESOLVED" =>
    LET began == r.transitions[Len(r.transitions)].at
    IN /\ began \in Nat
       /\ r.defining # None =>
            \A j \in (began + 1)..n : ~Beyond(Trailing(r.direction), all[j].close, r.defining)

ClosedBars == Len(bars) - 1

RegimeInv ==
  /\ IsSeq(bars) /\ ClosedBars \in Nat
  /\ Sound(regime, ClosedBars)
  /\ NotPassed(regime, bars, ClosedBars)

LEMMA NewRegimeSound ==
  ASSUME NEW n \in Nat
  PROVE  Sound(NewRegime, n)
<1>1. /\ IsEngine(NewRegime) /\ NewRegime.regime = "CONSOLIDATION"
      /\ NewRegime.states = <<>> /\ NewRegime.transitions = <<>> /\ NewRegime.delivered = FALSE
  BY DEF IsEngine, Fields, NewRegime
<1>2. IsSeq(<<>>) /\ Len(<<>>) = 0 /\ 1..0 = {}
  BY DEF IsSeq
<1>3. LogOf(<<>>, 0)
  BY <1>2 DEF LogOf
<1>4. Waits(NewRegime)
  BY <1>1, <1>3 DEF Waits
<1>5. MovedLast(NewRegime)
  BY <1>1, <1>2 DEF MovedLast
<1>6. LegsDeliver(<<>>, FALSE)
  BY <1>2 DEF LegsDeliver
<1> QED BY <1>1, <1>2, <1>4, <1>5, <1>6 DEF Sound, Regimes

LEMMA InitHolds == ObservationInit => RegimeInv
<1> SUFFICES ASSUME ObservationInit PROVE RegimeInv
  OBVIOUS
<1>1. PICK b : bars = Append(History, Opening(b.open))
  BY DEF ObservationInit, Init
<1>2. IsSeq(History)
  <2>1. History \in Seq(ToSet(History)) /\ ToSet(History) = {History[i] : i \in 1..Len(History)}
    BY ChartAssumption DEF ToSet
  <2> QED BY <2>1 DEF IsSeq
<1>3. IsSeq(bars) /\ ClosedBars \in Nat
  BY <1>1, <1>2, AppendTo DEF ClosedBars
<1>4. regime = NewRegime /\ regime.regime = "CONSOLIDATION"
  BY DEF ObservationInit, NewRegime
<1> QED BY <1>3, <1>4, NewRegimeSound DEF RegimeInv, NotPassed

LEMMA AllButLast ==
  ASSUME NEW S, NEW s \in Seq(S), Len(s) # 0
  PROVE  LET front == SubSeq(s, 1, Len(s) - 1)
         IN /\ front \in Seq(S) /\ Len(front) = Len(s) - 1
            /\ \A i \in 1..(Len(s) - 1) : front[i] = s[i]
<1> DEFINE n == Len(s) - 1
           front == SubSeq(s, 1, n)
<1>1. n \in Nat /\ \A i \in 1..n : s[i] \in S
  OBVIOUS
<1> HIDE DEF n
<1>2. /\ front \in Seq(S) /\ Len(front) = IF 1 <= n THEN n - 1 + 1 ELSE 0
      /\ \A i \in 1..(n - 1 + 1) : front[i] = s[1 + i - 1]
  BY <1>1, SubSeqProperties
<1> HIDE DEF front
<1>3. Len(front) = n /\ \A i \in 1..n : front[i] = s[i]
  BY <1>1, <1>2
<1> QED BY <1>2, <1>3 DEF n, front

LEMMA ShapeKeeps == ASSUME RegimeInv, Shape, UNCHANGED observed PROVE RegimeInv'
<1>1. PICK b : bars' = Front(bars) \o <<b>>
  BY DEF Shape
<1>2. Len(bars) \in Nat /\ Len(bars) # 0 /\ IsSeq(bars)
  BY DEF RegimeInv, ClosedBars
<1> DEFINE S == {bars[i] : i \in 1..Len(bars)} \cup {b}
           front == Front(bars)
<1>3. bars \in Seq(S)
  <2>1. bars = [i \in 1..Len(bars) |-> bars[i]] /\ \A i \in 1..Len(bars) : bars[i] \in S
    BY <1>2 DEF IsSeq
  <2> HIDE DEF S
  <2> QED BY <1>2, <2>1, SeqDef
<1>4. b \in S
  OBVIOUS
<1> HIDE DEF S
<1>5. /\ front \in Seq(S) /\ Len(front) = Len(bars) - 1
      /\ \A i \in 1..(Len(bars) - 1) : front[i] = bars[i]
  BY <1>2, <1>3, AllButLast DEF Front
<1> HIDE DEF front
<1>6. /\ bars' \in Seq(S) /\ Len(bars') = Len(bars)
      /\ \A i \in 1..(Len(bars) - 1) : bars'[i] = bars[i]
  BY <1>1, <1>2, <1>4, <1>5 DEF front
<1>7. IsSeq(bars')
  BY <1>6 DEF IsSeq
<1>8. regime' = regime
  BY DEF observed
<1>9. ClosedBars' = ClosedBars /\ ClosedBars \in Nat
  BY <1>6 DEF RegimeInv, ClosedBars
<1>10. Sound(regime', ClosedBars)
  BY <1>8 DEF RegimeInv
<1>11. NotPassed(regime', bars', ClosedBars)
  <2>1. NotPassed(regime, bars, ClosedBars)
    BY DEF RegimeInv
  <2>2. \A began \in Nat : \A j \in (began + 1)..ClosedBars : bars'[j] = bars[j]
    BY <1>6, <1>9 DEF ClosedBars
  <2> QED BY <1>8, <2>1, <2>2 DEF NotPassed
<1> QED BY <1>7, <1>9, <1>10, <1>11 DEF RegimeInv

LEMMA ObserveKeeps == ASSUME RegimeInv, NextBar, Observe PROVE RegimeInv'
<1> DEFINE n == Len(bars)
           er == EfficiencyRatio(bars, Len(bars), ErPeriod)
           r == regime
           f == regime'
<1>1. PICK b : bars' = Append(bars, Opening(b.open))
  BY DEF NextBar
<1>2. /\ IsSeq(bars) /\ n \in Nat /\ n - 1 \in Nat /\ ClosedBars = n - 1
      /\ Sound(r, n - 1) /\ NotPassed(r, bars, n - 1)
  BY DEF RegimeInv, ClosedBars
<1>3. /\ IsSeq(bars') /\ Len(bars') = n + 1 /\ ClosedBars' = n
      /\ \A i \in 1..n : bars'[i] = bars[i]
  BY <1>1, <1>2, AppendTo DEF ClosedBars
<1>4. f = Classified(r, bars, er, Confirming(RegimeTier))
  BY DEF Observe
<1>5. Sound(r, n) /\ Fresh(r, n)
  <2>1. \A i \in 1..Len(r.states) : r.states[i].at \in Nat /\ r.states[i].at <= n - 1
    BY <1>2 DEF Sound, Waits, LogOf
  <2>2. \A i \in 1..Len(r.states) : r.states[i].at <= n /\ r.states[i].at # n
    BY <1>2, <2>1
  <2> HIDE DEF n
  <2> QED BY <1>2, <2>2 DEF Sound, Fresh
<1>6. AtMostTwo(Confirming(RegimeTier))
  BY TwoAtMostConfirmed DEF Confirming
<1>7. Taken(r, f, Last(bars), n)
  <2> HIDE DEF er, r, f
  <2> QED BY <1>2, <1>4, <1>5, <1>6, BarTaken
<1>8. Last(bars) = bars'[n] /\ n # 0
  BY <1>2, <1>3 DEF Last
<1> HIDE DEF n, er, r, f
<1>9. NotPassed(f, bars', n)
  <2> SUFFICES ASSUME f.regime = "PULLBACK_UNRESOLVED"
               PROVE  LET began == f.transitions[Len(f.transitions)].at
                      IN /\ began \in Nat
                         /\ f.defining # None =>
                              \A j \in (began + 1)..n :
                                ~Beyond(Trailing(f.direction), bars'[j].close, f.defining)
    BY DEF NotPassed
  <2>1. CASE f.transitions[Len(f.transitions)].at = n
    <3>1. (n + 1)..n = {}
      BY <1>2
    <3> QED BY <1>2, <2>1, <3>1
  <2>2. CASE /\ r.regime = "PULLBACK_UNRESOLVED" /\ ~DefiningBroken(r, Last(bars))
             /\ f.transitions = r.transitions /\ f.direction = r.direction
             /\ f.defining = r.defining
    <3> DEFINE began == r.transitions[Len(r.transitions)].at
    <3>1. /\ began \in Nat
          /\ r.defining # None =>
               \A j \in (began + 1)..(n - 1) :
                 ~Beyond(Trailing(r.direction), bars[j].close, r.defining)
      BY <1>2, <2>2 DEF NotPassed
    <3>2. r.defining # None => ~Beyond(Trailing(r.direction), bars'[n].close, r.defining)
      BY <1>8, <2>2 DEF DefiningBroken
    <3> HIDE DEF began
    <3>3. ASSUME r.defining # None, NEW j \in (began + 1)..n
          PROVE  ~Beyond(Trailing(r.direction), bars'[j].close, r.defining)
      <4>1. CASE j = n
        BY <3>2, <3>3, <4>1
      <4>2. CASE j # n
        <5>1. j \in (began + 1)..(n - 1) /\ j \in 1..n
          BY <1>2, <3>1, <4>2
        <5>2. bars'[j] = bars[j]
          BY <1>3, <5>1
        <5> QED BY <3>1, <3>3, <5>1, <5>2
      <4> QED BY <4>1, <4>2
    <3> QED BY <2>2, <3>1, <3>3 DEF began
  <2> QED BY <1>7, <2>1, <2>2 DEF Taken, WaitsSince
<1>10. Sound(f, n)
  BY <1>7 DEF Taken
<1> QED BY <1>2, <1>3, <1>9, <1>10 DEF RegimeInv, f

-----------------------------------------------------------------------------
(* What it says.                                                           *)

LEMMA OneWaits == ASSUME RegimeInv PROVE OneRecordWaits
<1> DEFINE s == regime.states
           Revisions(i) == {j \in DOMAIN s : s[j].supersedes = Id(s[i])}
           waiting == {i \in Pullbacks : Revisions(i) = {}}
<1>1. PICK w \in Nat : /\ LogOf(s, w)
                       /\ w # 0 <=> regime.regime = "PULLBACK_UNRESOLVED"
                       /\ w # 0 => regime.unresolved = s[w]
  BY DEF RegimeInv, Sound, Waits
<1>2. DOMAIN s = 1..Len(s)
  BY <1>1 DEF LogOf, IsSeq
<1>3. \A i : i \in Pullbacks <=> IsPulled(s, i)
  BY <1>2 DEF Pullbacks, IsPulled
<1>4. \A i \in Pullbacks : i # w <=> Revisions(i) # {}
  <2>1. \A i \in 1..Len(s) :
          IsPulled(s, i) => (i # w <=> \E j \in 1..Len(s) : s[j].supersedes = Id(s[i]))
    BY <1>1 DEF LogOf
  <2> HIDE DEF s
  <2> QED BY <1>2, <1>3, <2>1 DEF IsPulled
<1>5. ASSUME NEW i \in Pullbacks, NEW j \in Revisions(i) PROVE Revisions(i) = {j} /\ j > i
  <2>1. /\ j \in 1..Len(s) /\ s[j].supersedes = Id(s[i])
        /\ i \in 1..Len(s) /\ IsPulled(s, i)
    BY <1>2, <1>3 DEF IsPulled
  <2>2. s[i].regime \in Regimes /\ s[i].at \in Nat
    BY <1>1, <2>1 DEF LogOf
  <2>3. Id(s[i]) # None
    BY <2>2, IdsDiffer
  <2>4. PICK k \in 1..Len(s) : IsPulled(s, k) /\ k < j /\ s[j].supersedes = Id(s[k])
    BY <1>1, <2>1, <2>3 DEF LogOf
  <2>5. s[i].at = s[k].at
    BY <2>1, <2>2, <2>4, IdsDiffer
  <2>6. k = i
    BY <1>1, <2>1, <2>4, <2>5 DEF LogOf
  <2>7. ASSUME NEW m \in Revisions(i) PROVE m = j
    <3>1. m \in 1..Len(s) /\ s[m].supersedes = s[j].supersedes /\ s[j].supersedes # None
      BY <1>2, <2>1, <2>3
    <3> QED BY <1>1, <2>1, <3>1 DEF LogOf
  <2>8. j > i
    BY <2>1, <2>4, <2>6
  <2> HIDE DEF Revisions
  <2> QED BY <2>7, <2>8
<1>6. \A i \in Pullbacks \ waiting : \E j \in Revisions(i) : Revisions(i) = {j} /\ j > i
  <2> HIDE DEF s
  <2> QED BY <1>5
<1>7. {s[i] : i \in waiting} =
         IF regime.regime = "PULLBACK_UNRESOLVED" THEN {regime.unresolved} ELSE {}
  <2>1. waiting = IF w # 0 THEN {w} ELSE {}
    <3>1. \A i : i \in waiting <=> i \in Pullbacks /\ i = w
      <4> HIDE DEF Revisions
      <4> QED BY <1>4
    <3>2. w # 0 => w \in Pullbacks
      BY <1>1, <1>3 DEF LogOf
    <3>3. 0 \notin Pullbacks
      BY <1>1, <1>3 DEF IsPulled, LogOf, IsSeq
    <3> HIDE DEF waiting
    <3> QED BY <3>1, <3>2, <3>3
  <2> HIDE DEF waiting
  <2> QED BY <1>1, <2>1
<1> QED BY <1>6, <1>7 DEF OneRecordWaits

LEMMA LegsAreDelivered == ASSUME RegimeInv PROVE FirstLegDelivers
<1> DEFINE s == regime.states
           Ends == {i \in DOMAIN s : s[i].regime = "CONSOLIDATION"}
<1>1. LegsDeliver(s, regime.delivered) /\ IsSeq(s)
  BY DEF RegimeInv, Sound, Waits, LogOf
<1>2. DOMAIN s = 1..Len(s) /\ Len(s) \in Nat
  BY <1>1 DEF IsSeq
<1>3. \A i : i \in Ends <=> IsEnd(s, i)
  BY <1>2 DEF IsEnd
<1>4. ASSUME NEW i \in Ends
      PROVE  \E j \in 1..(i - 1) : /\ s[j].regime \in {"RETRACEMENT", "REVERSAL"}
                                   /\ \A k \in Ends : k < i => k < j
  <2>1. i \in 1..Len(s) /\ ResolvedBefore(s, i)
    BY <1>1, <1>2, <1>3 DEF LegsDeliver
  <2>2. PICK j \in 1..(i - 1) : IsResolving(s, j) /\ \A k \in 1..(i - 1) : IsEnd(s, k) => k < j
    BY <2>1 DEF ResolvedBefore
  <2>3. ASSUME NEW k \in Ends, k < i PROVE k < j
    <3>1. k \in 1..(i - 1) /\ IsEnd(s, k)
      BY <1>2, <1>3, <2>1, <2>3
    <3> QED BY <2>2, <3>1
  <2> QED BY <2>2, <2>3 DEF IsResolving
<1> QED BY <1>4 DEF FirstLegDelivers

LEMMA PriceHolds == ASSUME RegimeInv PROVE DefiningPriceHolds
<1> SUFFICES ASSUME regime.regime = "PULLBACK_UNRESOLVED", regime.defining # None
             PROVE  LET moves == regime.transitions
                        began == moves[Max({k \in DOMAIN moves : moves[k].to = "PULLBACK_UNRESOLVED"})].at
                    IN \A j \in (began + 1)..Len(Closed) :
                         ~Beyond(Trailing(regime.direction), bars[j].close, regime.defining)
  BY DEF DefiningPriceHolds
<1> DEFINE moves == regime.transitions
           into == {k \in DOMAIN moves : moves[k].to = "PULLBACK_UNRESOLVED"}
<1>1. /\ IsSeq(moves) /\ Len(moves) # 0 /\ moves[Len(moves)].to = "PULLBACK_UNRESOLVED"
  BY DEF RegimeInv, Sound, MovedLast
<1>2. Len(moves) \in Nat /\ DOMAIN moves = 1..Len(moves)
  BY <1>1 DEF IsSeq
<1>3. Len(moves) \in into /\ \A k \in into : k \in Nat /\ k <= Len(moves)
  BY <1>1, <1>2
<1>4. Max(into) = Len(moves)
  <2> HIDE DEF into
  <2>1. \A x \in into : (\A y \in into : x >= y) => x = Len(moves)
    BY <1>2, <1>3
  <2>2. \A y \in into : Len(moves) >= y
    BY <1>2, <1>3
  <2> HIDE DEF moves
  <2> QED BY <1>3, <2>1, <2>2 DEF Max
<1>5. Len(Closed) = ClosedBars
  <2>1. Len(bars) - 1 \in Nat /\ bars \in Seq({bars[i] : i \in 1..Len(bars)})
    BY DEF RegimeInv, ClosedBars, IsSeq
  <2> QED BY <2>1, AllButLast DEF Closed, ClosedBars
<1>6. NotPassed(regime, bars, ClosedBars)
  BY DEF RegimeInv
<1> QED BY <1>4, <1>5, <1>6 DEF NotPassed

\* Every pullback is resolved once, every leg delivers, and the price that defines a trend
\* holds while the trend is said to, of whatever bars, tiers and thresholds (regime.py:377).
THEOREM RegimeIsKept == ObservationSpec => []RegimeKeepsItsWord
<1>1. RegimeInv /\ [ObservationNext]_<<vars, observed>> => RegimeInv'
  <2> SUFFICES ASSUME RegimeInv, [ObservationNext]_<<vars, observed>> PROVE RegimeInv'
    OBVIOUS
  <2>1. CASE Shape /\ UNCHANGED observed
    BY <2>1, ShapeKeeps
  <2>2. CASE NextBar /\ Observe
    BY <2>2, ObserveKeeps
  <2>3. CASE UNCHANGED <<vars, observed>>
    <3>1. bars' = bars /\ regime' = regime
      BY <2>3 DEF vars, observed
    <3> QED BY <3>1 DEF RegimeInv, ClosedBars, NotPassed, Sound
  <2> QED BY <2>1, <2>2, <2>3 DEF ObservationNext
<1>2. RegimeInv => RegimeKeepsItsWord
  BY OneWaits, LegsAreDelivered, PriceHolds DEF RegimeKeepsItsWord
<1> QED BY InitHolds, <1>1, <1>2, PTL DEF ObservationSpec

-----------------------------------------------------------------------------
(* What the swing engines and the chart keep.                             *)

LEMMA HighestOf ==
  ASSUME NEW n \in Nat, NEW S, S \subseteq 1..n, S # {}
  PROVE  Max(S) \in S /\ \A m \in S : m <= Max(S)
<1> DEFINE Above == {b \in Nat : \A m \in S : m <= b}
<1>1. n \in Above /\ \A m \in S : m \in Nat /\ m # 0
  OBVIOUS
<1>2. PICK b \in Above : \A c \in Above : b <= c
  BY <1>1, LeastOf
<1>3. b \in S
  <2> SUFFICES ASSUME b \notin S PROVE FALSE
    OBVIOUS
  <2>1. PICK m \in S : TRUE
    OBVIOUS
  <2>2. m <= b /\ m # b /\ m \in Nat /\ b \in Nat
    BY <1>1, <1>2
  <2>3. b - 1 \in Nat /\ ~(b <= b - 1)
    BY <2>2
  <2>4. \A k \in S : k <= b - 1
    BY <1>1, <1>2, <2>2
  <2>5. b - 1 \in Above
    BY <2>3, <2>4
  <2> HIDE DEF Above
  <2> QED BY <1>2, <2>3, <2>5
<1>4. \A m \in S : b >= m
  BY <1>1, <1>2
<1> HIDE DEF Above
<1>5. Max(S) \in S /\ \A m \in S : Max(S) >= m
  BY <1>3, <1>4 DEF Max
<1> QED BY <1>1, <1>5

\* What an event, if there is one, makes of the active swing of a type.
Ending(active, x, type) ==
  IF x = <<>> \/ x[1].type # type THEN active
  ELSE IF x[1].status = "BROKEN" THEN <<>> ELSE x

LEMMA OneMoreEvent ==
  ASSUME NEW engine, NEW type, NEW S, NEW s \in Seq(S), NEW e \in S, NEW x \in {<<>>, <<e>>}
  PROVE  ActiveAfter(engine, s \o x, type) = Ending(ActiveAfter(engine, s, type), x, type)
<1>1. CASE x = <<>>
  <2>1. s \o x = s
    BY <1>1
  <2> QED BY <1>1, <2>1 DEF Ending
<1>2. CASE x = <<e>>
  <2> DEFINE t == s \o x
             n == Len(s)
             own == {m \in DOMAIN s : s[m].type = type}
             then == {m \in DOMAIN t : t[m].type = type}
  <2>1. x \in Seq(S) /\ Len(x) = 1 /\ x[1] = e /\ x # <<>>
    BY <1>2
  <2>2. /\ n \in Nat /\ DOMAIN s = 1..n
        /\ Len(t) = n + 1 /\ DOMAIN t = 1..(n + 1) /\ t[n + 1] = e
        /\ \A i \in 1..n : t[i] = s[i]
    <3>1. /\ t \in Seq(S) /\ Len(t) = Len(s) + Len(x)
          /\ \A i \in 1..(Len(s) + Len(x)) : t[i] = IF i <= Len(s) THEN s[i] ELSE x[i - Len(s)]
      BY <2>1, ConcatProperties
    <3>2. n \in Nat
      OBVIOUS
    <3> HIDE DEF t
    <3> QED BY <2>1, <3>1, <3>2
  <2>3. ASSUME e.type = type PROVE then # {} /\ t[Max(then)] = e
    <3>1. n + 1 \in then /\ then \subseteq 1..(n + 1) /\ n + 1 \in Nat
      BY <2>2, <2>3
    <3> HIDE DEF then
    <3>2. Max(then) \in then /\ n + 1 <= Max(then)
      BY <3>1, HighestOf
    <3>3. Max(then) \in 1..(n + 1) /\ n \in Nat
      BY <2>2, <3>1, <3>2
    <3> HIDE DEF n
    <3>4. Max(then) = n + 1
      BY <3>2, <3>3
    <3> QED BY <2>2, <3>1, <3>4
  <2>4. ASSUME e.type # type PROVE then = own /\ (own # {} => t[Max(own)] = s[Max(own)])
    <3>1. then = own /\ own \subseteq 1..n
      BY <2>2, <2>4
    <3> HIDE DEF then, own
    <3>2. own # {} => Max(own) \in own
      BY <2>2, <3>1, HighestOf
    <3>3. own # {} => Max(own) \in 1..n
      BY <3>1, <3>2
    <3> HIDE DEF t
    <3> QED BY <2>2, <3>1, <3>3
  <2>5. ActiveAfter(engine, s, type) =
          IF own = {} THEN engine.active[type]
          ELSE IF s[Max(own)].status = "BROKEN" THEN <<>> ELSE <<s[Max(own)]>>
    BY DEF ActiveAfter
  <2>6. ActiveAfter(engine, t, type) =
          IF then = {} THEN engine.active[type]
          ELSE IF t[Max(then)].status = "BROKEN" THEN <<>> ELSE <<t[Max(then)]>>
    BY DEF ActiveAfter
  <2> HIDE DEF own, then, t
  <2>7. ActiveAfter(engine, t, type) = Ending(ActiveAfter(engine, s, type), x, type)
    BY <1>2, <2>1, <2>3, <2>4, <2>5, <2>6 DEF Ending
  <2> QED BY <2>7 DEF t
<1> QED BY <1>1, <1>2

\* The active swing of each type is of that type.
Typed(engine) == \A u \in Types : engine.active[u] = <<>> \/ engine.active[u][1].type = u

\* Of the last bar's events only its own type's matter to an active swing, the pivot last.
LEMMA ActiveThen ==
  ASSUME NEW tier, NEW period, NEW engine, NEW all, NEW type \in Types, Typed(engine)
  PROVE  LET broken == Breaks(engine, all, type)
             pivot == NewPivot(tier, period, all, type)
         IN OnBar(tier, period, engine, all).active[type] =
              IF pivot # <<>> THEN pivot
              ELSE IF broken # <<>> THEN <<>> ELSE engine.active[type]
<1> DEFINE a == Breaks(engine, all, "HIGH")
           b == Breaks(engine, all, "LOW")
           c == NewPivot(tier, period, all, "HIGH")
           d == NewPivot(tier, period, all, "LOW")
<1>1. ASSUME NEW u \in Types
      PROVE  \E e : /\ Breaks(engine, all, u) \in {<<>>, <<e>>}
                    /\ Breaks(engine, all, u) # <<>> => e.status = "BROKEN" /\ e.type = u
  <2> DEFINE e == Broken(engine.active[u][1], Len(all))
  <2>1. Breaks(engine, all, u) = <<>> \/ (Breaks(engine, all, u) = <<e>> /\ engine.active[u] # <<>>)
    BY DEF Breaks
  <2>2. e.status = "BROKEN" /\ e.type = engine.active[u][1].type
    BY DEF Broken
  <2> HIDE DEF e
  <2> QED BY <2>1, <2>2 DEF Typed
<1>2. ASSUME NEW u \in Types
      PROVE  \E e : /\ NewPivot(tier, period, all, u) \in {<<>>, <<e>>}
                    /\ e.status = "CONFIRMED" /\ e.type = u
  <2> DEFINE p == Len(all) - tier.k
             e == Confirmed(tier, all, Len(all), u, Atr(all, p, period))
  <2>1. NewPivot(tier, period, all, u) \in {<<>>, <<e>>}
    BY DEF NewPivot
  <2>2. e.status = "CONFIRMED" /\ e.type = u
    BY DEF Confirmed
  <2> HIDE DEF e
  <2> QED BY <2>1, <2>2
<1>3. "HIGH" \in Types /\ "LOW" \in Types /\ type \in {"HIGH", "LOW"}
  BY DEF Types
<1>4. PICK p : a \in {<<>>, <<p>>} /\ (a # <<>> => p.status = "BROKEN" /\ p.type = "HIGH")
  BY <1>1, <1>3
<1>5. PICK q : b \in {<<>>, <<q>>} /\ (b # <<>> => q.status = "BROKEN" /\ q.type = "LOW")
  BY <1>1, <1>3
<1>6. PICK u : c \in {<<>>, <<u>>} /\ u.status = "CONFIRMED" /\ u.type = "HIGH"
  BY <1>2, <1>3
<1>7. PICK v : d \in {<<>>, <<v>>} /\ v.status = "CONFIRMED" /\ v.type = "LOW"
  BY <1>2, <1>3
<1> DEFINE S == {p, q, u, v}
           x == a \o b
           y == x \o c
<1>8. OnBar(tier, period, engine, all).active[type] = ActiveAfter(engine, y \o d, type)
  BY DEF OnBar, NewEvents
<1>9. a \in Seq(S) /\ b \in Seq(S) /\ c \in Seq(S) /\ d \in Seq(S) /\ {p, q, u, v} = S
  <2>1. ASSUME NEW e \in S, NEW s \in {<<>>, <<e>>} PROVE s \in Seq(S)
    <3> HIDE DEF S
    <3>1. CASE s = <<>>
      BY <3>1
    <3>2. CASE s = <<e>>
      BY <3>2
    <3> QED BY <3>1, <3>2
  <2>2. p \in S /\ q \in S /\ u \in S /\ v \in S
    OBVIOUS
  <2> HIDE DEF a, b, c, d
  <2> QED BY <1>4, <1>5, <1>6, <1>7, <2>1, <2>2
<1> DEFINE A(s) == ActiveAfter(engine, s, type)
<1> HIDE DEF a, b, c, d, S
<1>10. A(<<>>) = engine.active[type] /\ <<>> \in Seq(S) /\ <<>> \o a = a
  <2>1. A(<<>>) = engine.active[type]
    BY DEF ActiveAfter
  <2> QED BY <1>9, <2>1
<1>11. x \in Seq(S) /\ y \in Seq(S) /\ p \in S /\ q \in S /\ u \in S /\ v \in S
  <2>1. x \in Seq(S)
    BY <1>9, ConcatProperties
  <2> HIDE DEF x
  <2> QED BY <1>9, <2>1, ConcatProperties
<1> HIDE DEF x, y
<1>12. A(a) = Ending(engine.active[type], a, type)
  <2>1. A(<<>> \o a) = Ending(A(<<>>), a, type)
    <3>1. a \in {<<>>, <<p>>} /\ <<>> \in Seq(S) /\ p \in S
      BY <1>4, <1>10, <1>11
    <3> QED BY <3>1, OneMoreEvent
  <2> QED BY <1>10, <2>1
<1>13. A(x) = Ending(A(a), b, type)
  <2>1. A(a \o b) = Ending(A(a), b, type)
    BY <1>5, <1>9, <1>11, OneMoreEvent
  <2> QED BY <2>1 DEF x
<1>14. A(y) = Ending(A(x), c, type)
  <2>1. A(x \o c) = Ending(A(x), c, type)
    <3>1. c \in {<<>>, <<u>>} /\ x \in Seq(S) /\ u \in S
      BY <1>6, <1>11
    <3> QED BY <3>1, OneMoreEvent
  <2> QED BY <2>1 DEF y
<1>15. A(y \o d) = Ending(A(y), d, type)
  <2>1. d \in {<<>>, <<v>>} /\ y \in Seq(S) /\ v \in S
    BY <1>7, <1>11
  <2> QED BY <2>1, OneMoreEvent
<1> HIDE DEF A
<1> DEFINE Mine(broken, pivot) ==
             A(y \o d) = IF pivot # <<>> THEN pivot
                         ELSE IF broken # <<>> THEN <<>> ELSE engine.active[type]
<1>16. CASE type = "HIGH"
  <2>1. A(a) = IF a # <<>> THEN <<>> ELSE engine.active[type]
    BY <1>4, <1>12, <1>16 DEF Ending
  <2>2. A(x) = A(a)
    BY <1>5, <1>13, <1>16 DEF Ending
  <2>3. A(y) = IF c # <<>> THEN c ELSE A(x)
    BY <1>6, <1>14, <1>16 DEF Ending
  <2>4. A(y \o d) = A(y)
    BY <1>7, <1>15, <1>16 DEF Ending
  <2>5. Mine(a, c)
    BY <2>1, <2>2, <2>3, <2>4
  <2> QED BY <1>8, <1>16, <2>5 DEF a, c, A
<1>17. CASE type = "LOW"
  <2>1. A(a) = engine.active[type]
    BY <1>4, <1>12, <1>17 DEF Ending
  <2>2. A(x) = IF b # <<>> THEN <<>> ELSE A(a)
    BY <1>5, <1>13, <1>17 DEF Ending
  <2>3. A(y) = A(x)
    BY <1>6, <1>14, <1>17 DEF Ending
  <2>4. A(y \o d) = IF d # <<>> THEN d ELSE A(y)
    BY <1>7, <1>15, <1>17 DEF Ending
  <2>5. Mine(b, d)
    BY <2>1, <2>2, <2>3, <2>4
  <2> QED BY <1>8, <1>17, <2>5 DEF b, d, A
<1> QED BY <1>3, <1>16, <1>17

-----------------------------------------------------------------------------
(* One more bar.                                                           *)

Continues(front, all) ==
  /\ front \in Seq(Bars(Int)) /\ all \in Seq(Bars(Int))
  /\ Len(all) = Len(front) + 1
  /\ \A i \in 1..Len(front) : all[i] = front[i]

LEMMA PricesOf ==
  ASSUME NEW all \in Seq(Bars(Int)), NEW i \in 1..Len(all), NEW type
  PROVE  Tip(type, all[i]) \in Int /\ Foot(type, all[i]) \in Int
<1>1. all[i] \in Bars(Int)
  BY ElementOfSeq
<1>2. all[i].high \in Int /\ all[i].low \in Int
  BY <1>1 DEF Bars
<1> QED BY <1>2 DEF Tip, Foot

\* Nothing has been traded beyond the active swing since its pivot.
Untouched(engine, all) ==
  \A u \in Types :
    LET active == engine.active[u]
    IN active # <<>> =>
         /\ active[1].type = u /\ active[1].pivot \in Nat /\ active[1].price \in Int
         /\ \A j \in (active[1].pivot + 1)..Len(all) : ~Beyond(u, Tip(u, all[j]), active[1].price)

LEMMA StaysUntouched ==
  ASSUME NEW tier, tier.k \in Nat, NEW period, NEW engine, NEW front, NEW all,
         Continues(front, all), Untouched(engine, front)
  PROVE  Untouched(OnBar(tier, period, engine, all), all)
<1> DEFINE n == Len(all)
           after == OnBar(tier, period, engine, all)
<1>1. /\ n \in Nat /\ Len(front) = n - 1
      /\ \A j \in 1..(n - 1) : all[j] = front[j]
  BY DEF Continues
<1>2. Typed(engine)
  BY DEF Untouched, Typed
<1> SUFFICES ASSUME NEW u \in Types, after.active[u] # <<>>
             PROVE  LET e == after.active[u][1]
                    IN /\ e.type = u /\ e.pivot \in Nat /\ e.price \in Int
                       /\ \A j \in (e.pivot + 1)..n : ~Beyond(u, Tip(u, all[j]), e.price)
  BY DEF Untouched
<1> DEFINE broken == Breaks(engine, all, u)
           pivot == NewPivot(tier, period, all, u)
<1>3. after.active[u] = IF pivot # <<>> THEN pivot
                        ELSE IF broken # <<>> THEN <<>> ELSE engine.active[u]
  BY <1>2, ActiveThen
<1>4. CASE pivot # <<>>
  <2> DEFINE p == n - tier.k
             e == Confirmed(tier, all, n, u, Atr(all, p, period))
  <2>1. pivot = <<e>> /\ p > tier.k /\ IsPivot(all, p, tier.k, u)
    BY <1>4 DEF NewPivot
  <2>2. e.type = u /\ e.pivot = p /\ e.price = Tip(u, all[p])
    BY DEF Confirmed
  <2> HIDE DEF e
  <2>3. after.active[u][1] = e
    BY <1>3, <1>4, <2>1
  <2>4. p \in Nat
    BY <1>1, <2>1
  <2>5. ASSUME NEW j \in (p + 1)..n PROVE ~Beyond(u, Tip(u, all[j]), Tip(u, all[p]))
    <3>1. j \in (p - tier.k)..(p + tier.k) /\ j # p /\ j \in 1..n /\ p \in 1..n
      BY <1>1, <2>1, <2>4
    <3>2. Beyond(u, Tip(u, all[p]), Tip(u, all[j]))
      BY <2>1, <3>1 DEF IsPivot
    <3>3. Tip(u, all[p]) \in Int /\ Tip(u, all[j]) \in Int
      BY <3>1, PricesOf DEF Continues
    <3> QED BY <3>2, <3>3 DEF Beyond
  <2>6. e.price \in Int
    <3>1. p \in 1..n
      BY <1>1, <2>1, <2>4
    <3> QED BY <2>2, <3>1, PricesOf DEF Continues
  <2> HIDE DEF after
  <2> QED BY <2>2, <2>3, <2>4, <2>5, <2>6
<1>5. CASE pivot = <<>>
  <2> DEFINE e == engine.active[u][1]
  <2>1. broken = <<>> /\ engine.active[u] # <<>> /\ after.active[u] = engine.active[u]
    BY <1>3, <1>5
  <2>2. ~Beyond(u, Tip(u, all[n]), e.price)
    BY <2>1 DEF Breaks
  <2>3. /\ e.type = u /\ e.pivot \in Nat /\ e.price \in Int
        /\ \A j \in (e.pivot + 1)..(n - 1) : ~Beyond(u, Tip(u, front[j]), e.price)
    BY <1>1, <2>1 DEF Untouched
  <2>4. ASSUME NEW j \in (e.pivot + 1)..n PROVE ~Beyond(u, Tip(u, all[j]), e.price)
    <3>1. CASE j = n
      BY <2>2, <3>1
    <3>2. CASE j # n
      <4>1. j \in (e.pivot + 1)..(n - 1) /\ j \in 1..(n - 1)
        BY <1>1, <2>3, <3>2
      <4> QED BY <1>1, <2>3, <4>1
    <3> QED BY <3>1, <3>2
  <2> HIDE DEF after
  <2> QED BY <2>1, <2>3, <2>4
<1> QED BY <1>4, <1>5

-----------------------------------------------------------------------------
(* What a bar shows is there in every longer sequence.                     *)

\* Some bars of a window run furthest, and one of them is the first.
LEMMA FurthestIsThere ==
  ASSUME NEW all \in Seq(Bars(Int)), NEW type, NEW p \in Nat, NEW k \in Nat \ {0}, p + k <= Len(all)
  PROVE  LET i == Opposite(all, p, k, type)
         IN /\ i \in (p + 1)..(p + k)
            /\ \A m \in (p + 1)..(p + k) : ~Beyond(type, Foot(type, all[i]), Foot(type, all[m]))
            /\ \A j \in (p + 1)..(p + k) :
                 (\A m \in (p + 1)..(p + k) : ~Beyond(type, Foot(type, all[j]), Foot(type, all[m])))
                 => i <= j
<1> DEFINE foot(j) == Foot(type, all[j])
           Furthest(n) == {j \in (p + 1)..(p + n) :
                             \A m \in (p + 1)..(p + n) : ~Beyond(type, foot(j), foot(m))}
           Bad == {n \in 1..k : Furthest(n) = {}}
<1>1. \A j \in (p + 1)..(p + k) : foot(j) \in Int
  BY PricesOf
<1>2. Bad = {}
  <2> SUFFICES ASSUME Bad # {} PROVE FALSE
    OBVIOUS
  <2>1. Bad \subseteq Nat
    OBVIOUS
  <2>2. PICK n \in Bad : \A m \in Bad : n <= m
    BY <2>1, LeastOf
  <2>3. n \in 1..k /\ Furthest(n) = {}
    BY <2>2
  <2> HIDE DEF foot
  <2>4. CASE n = 1
    <3>1. p + 1 \in Furthest(1)
      <4>1. \A m \in (p + 1)..(p + 1) : m = p + 1
        OBVIOUS
      <4>2. ~Beyond(type, foot(p + 1), foot(p + 1))
        <5>1. foot(p + 1) \in Int
          BY <1>1
        <5> QED BY <5>1 DEF Beyond
      <4> QED BY <4>1, <4>2
    <3> QED BY <2>3, <2>4, <3>1
  <2>5. CASE n # 1
    <3>1. n - 1 \in 1..k /\ n - 1 \notin Bad
      <4>1. n - 1 \in 1..k /\ ~(n <= n - 1)
        BY <2>3, <2>5
      <4> HIDE DEF Bad
      <4> QED BY <2>2, <4>1
    <3>2. PICK j \in Furthest(n - 1) : TRUE
      BY <3>1
    <3>3. /\ j \in (p + 1)..(p + n - 1) /\ j \in (p + 1)..(p + k) /\ p + n \in (p + 1)..(p + k)
          /\ \A m \in (p + 1)..(p + n - 1) : ~Beyond(type, foot(j), foot(m))
      <4>1. j \in (p + 1)..(p + (n - 1))
        BY <3>2
      <4>2. \A m \in (p + 1)..(p + (n - 1)) : ~Beyond(type, foot(j), foot(m))
        BY <3>2
      <4>3. p + (n - 1) = p + n - 1 /\ p + n - 1 <= p + k
        BY <2>3
      <4> QED BY <2>3, <4>1, <4>2, <4>3
    <3>4. /\ \A m \in (p + 1)..(p + n) : m = p + n \/ m \in (p + 1)..(p + n - 1)
          /\ j \in (p + 1)..(p + n) /\ p + n \in (p + 1)..(p + n)
          /\ \A m \in (p + 1)..(p + n - 1) : m \in (p + 1)..(p + k)
      BY <2>3, <3>3
    <3>5. foot(j) \in Int /\ foot(p + n) \in Int /\ \A m \in (p + 1)..(p + n - 1) : foot(m) \in Int
      BY <1>1, <3>3, <3>4
    <3>6. CASE Beyond(type, foot(j), foot(p + n))
      <4>1. ASSUME NEW m \in (p + 1)..(p + n) PROVE ~Beyond(type, foot(p + n), foot(m))
        <5>1. CASE m = p + n
          BY <3>5, <5>1 DEF Beyond
        <5>2. CASE m \in (p + 1)..(p + n - 1)
          BY <3>3, <3>5, <3>6, <5>2 DEF Beyond
        <5> QED BY <3>4, <5>1, <5>2
      <4>2. p + n \in Furthest(n)
        BY <3>4, <4>1
      <4> QED BY <2>3, <4>2
    <3>7. CASE ~Beyond(type, foot(j), foot(p + n))
      <4>1. ASSUME NEW m \in (p + 1)..(p + n) PROVE ~Beyond(type, foot(j), foot(m))
        BY <3>3, <3>4, <3>7
      <4>2. j \in Furthest(n)
        BY <3>4, <4>1
      <4> QED BY <2>3, <4>2
    <3> QED BY <3>6, <3>7
  <2> QED BY <2>4, <2>5
<1>3. Furthest(k) # {} /\ Furthest(k) \subseteq Nat
  <2>1. Furthest(k) \subseteq Nat
    OBVIOUS
  <2> HIDE DEF Furthest
  <2>2. k \in 1..k
    OBVIOUS
  <2> QED BY <1>2, <2>1, <2>2
<1>4. PICK j \in Furthest(k) : \A m \in Furthest(k) : j <= m
  BY <1>3, LeastOf
<1>5. Opposite(all, p, k, type) = Min(Furthest(k))
  BY DEF Opposite
<1>6. Min(Furthest(k)) \in Furthest(k) /\ \A m \in Furthest(k) : Min(Furthest(k)) <= m
  <2> HIDE DEF Furthest
  <2> QED BY <1>4 DEF Min
<1>7. PICK i : i = Opposite(all, p, k, type)
  OBVIOUS
<1>8. i \in Furthest(k) /\ \A m \in Furthest(k) : i <= m
  BY <1>5, <1>6, <1>7
<1> QED BY <1>7, <1>8

LEMMA OppositeIsThere ==
  ASSUME NEW all \in Seq(Bars(Int)), NEW type, NEW p \in Nat, NEW k \in Nat \ {0}, p + k <= Len(all)
  PROVE  Opposite(all, p, k, type) \in (p + 1)..(p + k)
  BY FurthestIsThere

LEMMA SameRanges ==
  ASSUME NEW front, NEW all, Continues(front, all), NEW period \in Nat \ {0},
         NEW i \in period..Len(front)
  PROVE  TrueRangeSum(all, i, period) = TrueRangeSum(front, i, period)
<1> DEFINE first == i - period + 1
<1>1. Len(front) \in Nat /\ i \in Nat /\ first \in Nat /\ first # 0 /\ i <= Len(front)
  BY DEF Continues
<1>2. ASSUME NEW j \in first..i PROVE TrueRange(all, j) = TrueRange(front, j)
  <2>1. j \in 1..Len(front) /\ (j # 1 => j - 1 \in 1..Len(front))
    BY <1>1
  <2>2. all[j] = front[j] /\ (j # 1 => all[j - 1] = front[j - 1])
    BY <2>1 DEF Continues
  <2> QED BY <2>2 DEF TrueRange
<1>3. [j \in first..i |-> TrueRange(all, j)] = [j \in first..i |-> TrueRange(front, j)]
  BY <1>2
<1> QED BY <1>3 DEF TrueRangeSum

LEMMA SameHalves ==
  ASSUME NEW front, NEW all, Continues(front, all), AtrPeriod \in Nat \ {0}, HalvesFree(all)
  PROVE  HalvesFree(front)
<1> SUFFICES ASSUME NEW i \in AtrPeriod..Len(front)
             PROVE  RoundsAlike(TrueRangeSum(front, i, AtrPeriod), AtrPeriod)
  BY DEF HalvesFree
<1>1. i \in AtrPeriod..Len(all)
  <2>1. Len(front) \in Nat /\ Len(all) = Len(front) + 1
    BY DEF Continues
  <2> QED BY <2>1
<1>2. TrueRangeSum(all, i, AtrPeriod) = TrueRangeSum(front, i, AtrPeriod)
  BY SameRanges
<1>3. RoundsAlike(TrueRangeSum(all, i, AtrPeriod), AtrPeriod)
  BY <1>1 DEF HalvesFree
<1> QED BY <1>2, <1>3

LEMMA SamePivot ==
  ASSUME NEW front, NEW all, Continues(front, all), NEW k \in Nat \ {0}, NEW type,
         NEW p \in Nat, p > k, p + k <= Len(front)
  PROVE  /\ all[p] = front[p]
         /\ IsPivot(all, p, k, type) = IsPivot(front, p, k, type)
         /\ Opposite(all, p, k, type) = Opposite(front, p, k, type)
         /\ ReversalTicks(all, p, k, type) = ReversalTicks(front, p, k, type)
<1>1. Len(front) \in Nat
  BY DEF Continues
<1>2. \A j \in (p - k)..(p + k) : j \in 1..Len(front)
  BY <1>1
<1>3. \A j \in (p - k)..(p + k) : all[j] = front[j]
  BY <1>2 DEF Continues
<1>4. p \in (p - k)..(p + k) /\ \A j \in (p + 1)..(p + k) : j \in (p - k)..(p + k)
  OBVIOUS
<1>5. all[p] = front[p]
  BY <1>3, <1>4
<1>6. IsPivot(all, p, k, type) = IsPivot(front, p, k, type)
  BY <1>3, <1>5 DEF IsPivot
<1>7. Opposite(all, p, k, type) = Opposite(front, p, k, type)
  <2> DEFINE Furthest(bs) == {j \in (p + 1)..(p + k) : \A m \in (p + 1)..(p + k) :
                                ~Beyond(type, Foot(type, bs[j]), Foot(type, bs[m]))}
  <2>1. \A j \in (p + 1)..(p + k) : all[j] = front[j]
    BY <1>3, <1>4
  <2>2. Furthest(all) = Furthest(front)
    BY <2>1
  <2>3. Opposite(all, p, k, type) = Min(Furthest(all)) /\ Opposite(front, p, k, type) = Min(Furthest(front))
    BY DEF Opposite
  <2> HIDE DEF Furthest
  <2> QED BY <2>2, <2>3
<1>8. Opposite(front, p, k, type) \in (p + 1)..(p + k)
  BY OppositeIsThere DEF Continues
<1>9. all[Opposite(front, p, k, type)] = front[Opposite(front, p, k, type)]
  BY <1>3, <1>4, <1>8
<1>10. ReversalTicks(all, p, k, type) = ReversalTicks(front, p, k, type)
  BY <1>5, <1>7, <1>9 DEF ReversalTicks
<1> QED BY <1>5, <1>6, <1>7, <1>10

LEMMA SameChartPivot ==
  ASSUME NEW front, NEW all, Continues(front, all), NEW tier, tier.k \in Nat \ {0},
         NEW period \in Nat \ {0}, NEW pass, NEW type, NEW i \in 1..Len(front)
  PROVE  ChartPivot(tier, period, all, pass, type, i) = ChartPivot(tier, period, front, pass, type, i)
<1> DEFINE p == i - tier.k
<1>1. Len(front) \in Nat /\ i \in Nat /\ i <= Len(front)
  BY DEF Continues
<1>2. CASE ~(p > tier.k)
  BY <1>2 DEF ChartPivot
<1>3. CASE p > tier.k
  <2>1. p \in Nat /\ p + tier.k <= Len(front)
    BY <1>1, <1>3
  <2>2. /\ all[p] = front[p]
        /\ IsPivot(all, p, tier.k, type) = IsPivot(front, p, tier.k, type)
        /\ Opposite(all, p, tier.k, type) = Opposite(front, p, tier.k, type)
        /\ ReversalTicks(all, p, tier.k, type) = ReversalTicks(front, p, tier.k, type)
    <3> HIDE DEF p
    <3> QED BY <1>3, <2>1, SamePivot
  <2>3. ChartAtr(all, p, period) = ChartAtr(front, p, period)
    <3>1. CASE p < period
      BY <3>1 DEF ChartAtr
    <3>2. CASE ~(p < period)
      <4>1. p \in period..Len(front)
        BY <1>1, <2>1, <3>2
      <4>2. TrueRangeSum(all, p, period) = TrueRangeSum(front, p, period)
        BY <4>1, SameRanges
      <4> QED BY <4>2 DEF ChartAtr
    <3> QED BY <3>1, <3>2
  <2>4. \A atr : Confirmed(tier, all, i, type, atr) = Confirmed(tier, front, i, type, atr)
    BY <2>2 DEF Confirmed
  <2> QED BY <2>2, <2>3, <2>4 DEF ChartPivot
<1> QED BY <1>2, <1>3

LEMMA SameChartBar ==
  ASSUME NEW front, NEW all, Continues(front, all), NEW tier, tier.k \in Nat \ {0},
         NEW period \in Nat \ {0}, NEW pass, NEW i \in 1..Len(front)
  PROVE  ChartBar(tier, period, all, pass, i) = ChartBar(tier, period, front, pass, i)
<1>1. all[i] = front[i]
  BY DEF Continues
<1>2. ASSUME NEW q, NEW type PROVE ChartBreak(all, q, type, i) = ChartBreak(front, q, type, i)
  BY <1>1 DEF ChartBreak
<1>3. ASSUME NEW q, NEW type
      PROVE  ChartPivot(tier, period, all, q, type, i) = ChartPivot(tier, period, front, q, type, i)
  BY SameChartPivot
<1> QED BY <1>2, <1>3 DEF ChartBar

-----------------------------------------------------------------------------
(* The pass of the chart.                                                  *)

NoPass == [events |-> <<>>, sources |-> <<>>, active |-> [t \in Types |-> 0]]

PassAt(f, tier, period, all, i) ==
  IF i = 0 THEN NoPass ELSE ChartBar(tier, period, all, f[i - 1], i)

\* It goes from bar to bar.
LEMMA PassGoesOn ==
  ASSUME NEW tier, NEW period, NEW all, Len(all) \in Nat
  PROVE  \E f : /\ \A i \in 0..Len(all) : f[i] = PassAt(f, tier, period, all, i)
                /\ DetectSwings(tier, period, all) = f[Len(all)]
<1> DEFINE Goes(f, i) == PassAt(f, tier, period, all, i)
           Is(f, n) == f = [i \in 0..n |-> Goes(f, i)]
           Bad == {n \in Nat : ~ \E f : Is(f, n)}
<1>1. Bad = {}
  <2> SUFFICES ASSUME Bad # {} PROVE FALSE
    OBVIOUS
  <2>1. PICK n \in Bad : \A m \in Bad : n <= m
    BY LeastOf
  <2>2. CASE n = 0
    <3>1. Is([i \in 0..0 |-> NoPass], 0)
      BY DEF PassAt
    <3> QED BY <2>1, <2>2, <3>1
  <2>3. CASE n # 0
    <3>1. n \in Nat /\ n - 1 \in Nat /\ n - 1 \notin Bad
      <4>1. n \in Nat
        BY <2>1
      <4> HIDE DEF Bad
      <4>2. n - 1 \in Nat /\ ~(n <= n - 1)
        BY <2>3, <4>1
      <4> QED BY <2>1, <4>1, <4>2
    <3>2. PICK g : Is(g, n - 1)
      BY <3>1
    <3> DEFINE f == [i \in 0..n |-> IF i < n THEN g[i] ELSE Goes(g, n)]
    <3>3. ASSUME NEW i \in 0..n PROVE f[i] = Goes(f, i)
      <4>1. i # 0 => i - 1 \in 0..n /\ i - 1 < n
        BY <3>1
      <4>2. i # 0 => f[i - 1] = g[i - 1]
        BY <4>1
      <4>3. Goes(f, i) = Goes(g, i)
        BY <4>2 DEF PassAt
      <4>4. f[i] = Goes(g, i)
        <5>1. CASE i < n
          <6>1. i \in 0..(n - 1) /\ f[i] = g[i]
            BY <3>1, <5>1
          <6> HIDE DEF f, Goes
          <6> QED BY <3>2, <6>1
        <5>2. CASE ~(i < n)
          <6>1. i = n
            BY <3>1, <5>2
          <6> QED BY <5>2, <6>1
        <5> QED BY <5>1, <5>2
      <4> QED BY <4>3, <4>4
    <3>4. Is(f, n)
      <4> HIDE DEF Goes
      <4>1. f = [i \in 0..n |-> f[i]]
        OBVIOUS
      <4> HIDE DEF f
      <4> QED BY <3>3, <4>1
    <3> QED BY <2>1, <3>4
  <2> QED BY <2>2, <2>3
<1>2. \E f : Is(f, Len(all))
  BY <1>1
<1> DEFINE Whole == CHOOSE f : Is(f, Len(all))
<1>3. Is(Whole, Len(all))
  BY <1>2
<1>4. DetectSwings(tier, period, all) = Whole[Len(all)]
  BY DEF DetectSwings, PassAt, NoPass
<1> HIDE DEF Whole
<1>5. \A i \in 0..Len(all) : Whole[i] = Goes(Whole, i)
  <2> HIDE DEF Goes
  <2> QED BY <1>3
<1> QED BY <1>4, <1>5

\* So the pass over one more bar is that of the bars before it, and one step.
LEMMA OnePassMore ==
  ASSUME NEW front, NEW all, Continues(front, all), NEW tier, tier.k \in Nat \ {0},
         NEW period \in Nat \ {0}
  PROVE  DetectSwings(tier, period, all) =
           ChartBar(tier, period, all, DetectSwings(tier, period, front), Len(all))
<1> DEFINE n == Len(front)
<1>1. n \in Nat /\ Len(all) \in Nat /\ Len(all) = n + 1
  BY DEF Continues
<1>2. PICK f : /\ \A i \in 0..Len(all) : f[i] = PassAt(f, tier, period, all, i)
               /\ DetectSwings(tier, period, all) = f[Len(all)]
  BY <1>1, PassGoesOn
<1>3. PICK g : /\ \A i \in 0..n : g[i] = PassAt(g, tier, period, front, i)
               /\ DetectSwings(tier, period, front) = g[n]
  BY <1>1, PassGoesOn
<1>4. \A i \in 0..n : f[i] = g[i]
  <2> DEFINE Bad == {i \in 0..n : f[i] # g[i]}
  <2> SUFFICES ASSUME Bad # {} PROVE FALSE
    OBVIOUS
  <2>1. Bad \subseteq Nat
    OBVIOUS
  <2>2. PICK i \in Bad : \A m \in Bad : i <= m
    BY <2>1, LeastOf
  <2>3. i \in 0..n /\ i \in 0..Len(all) /\ f[i] # g[i]
    BY <1>1, <2>2
  <2>4. f[i] = PassAt(f, tier, period, all, i) /\ g[i] = PassAt(g, tier, period, front, i)
    BY <1>2, <1>3, <2>3
  <2>5. i # 0
    BY <2>3, <2>4 DEF PassAt
  <2>6. i - 1 \in 0..n /\ ~(i <= i - 1) /\ i \in 1..n
    BY <1>1, <2>3, <2>5
  <2>7. f[i - 1] = g[i - 1]
    BY <2>2, <2>6
  <2>8. ChartBar(tier, period, all, g[i - 1], i) = ChartBar(tier, period, front, g[i - 1], i)
    BY <2>6, SameChartBar
  <2> QED BY <2>3, <2>4, <2>5, <2>7, <2>8 DEF PassAt
<1>5. Len(all) \in 0..Len(all) /\ Len(all) # 0 /\ Len(all) - 1 = n /\ n \in 0..n
  BY <1>1
<1>6. f[Len(all)] = ChartBar(tier, period, all, f[n], Len(all))
  BY <1>2, <1>5 DEF PassAt
<1> QED BY <1>2, <1>3, <1>4, <1>5, <1>6

LEMMA NothingPassed ==
  ASSUME NEW tier, NEW period
  PROVE  DetectSwings(tier, period, <<>>) = NoPass
<1>1. Len(<<>>) = 0 /\ 0 \in 0..0
  OBVIOUS
<1>2. PICK f : /\ \A i \in 0..0 : f[i] = PassAt(f, tier, period, <<>>, i)
               /\ DetectSwings(tier, period, <<>>) = f[0]
  BY <1>1, PassGoesOn
<1> QED BY <1>1, <1>2 DEF PassAt

-----------------------------------------------------------------------------
(* Engine and chart on one bar.                                            *)

LEMMA LogAppends ==
  ASSUME NEW s, IsSeq(s), NEW x
  PROVE  s \o <<x>> = Append(s, x) /\ s \o <<>> = s
<1> DEFINE S == {s[i] : i \in 1..Len(s)} \cup {x}
<1>1. s \in Seq(S)
  <2>1. s \in Seq({s[i] : i \in 1..Len(s)})
    BY DEF IsSeq
  <2>2. s = [i \in 1..Len(s) |-> s[i]] /\ \A i \in 1..Len(s) : s[i] \in S
    BY <2>1
  <2>3. Len(s) \in Nat
    BY <2>1
  <2> HIDE DEF S
  <2> QED BY <2>2, <2>3, SeqDef
<1>2. x \in S
  OBVIOUS
<1> HIDE DEF S
<1>3. s \o <<x>> = Append(s, x)
  BY <1>1, <1>2, AppendIsConcat
<1>4. s \o <<>> = s
  BY <1>1
<1> QED BY <1>3, <1>4

\* Sequences joined: `\o' where its elements do not matter.
Joined(s, x) == s \o x

\* The pass has the events of the log, and the index of each active swing.
Agree(pass, log, active) ==
  /\ pass.events = log /\ IsSeq(log)
  /\ pass.active \in [Types -> Nat]
  /\ \A u \in Types :
       IF pass.active[u] = 0 THEN active[u] = <<>>
       ELSE pass.active[u] \in 1..Len(log) /\ active[u] = <<log[pass.active[u]]>>

\* What is in force after an event that puts itself in force, or nothing.
InForce(active, type, e, a) ==
  [u \in Types |-> IF u # type THEN active[u] ELSE IF a = 0 THEN <<>> ELSE <<e>>]

\* They go on to agree when each takes the same event and puts it, or nothing, in force.
LEMMA AgreeOnEvent ==
  ASSUME NEW pass, NEW log, NEW active, Agree(pass, log, active), NEW type \in Types, NEW e,
         NEW a \in {0, Len(log) + 1}, NEW next,
         next.events = Append(pass.events, e), next.active = [pass.active EXCEPT ![type] = a]
  PROVE  Agree(next, log \o <<e>>, InForce(active, type, e, a))
<1> DEFINE then == [u \in Types |-> IF u # type THEN active[u] ELSE IF a = 0 THEN <<>> ELSE <<e>>]
           more == Append(log, e)
<1>1. pass.events = log /\ IsSeq(log) /\ pass.active \in [Types -> Nat]
  BY DEF Agree
<1>2. /\ Len(log) \in Nat /\ IsSeq(more) /\ Len(more) = Len(log) + 1 /\ more[Len(log) + 1] = e
      /\ \A i \in 1..Len(log) : more[i] = log[i]
  BY <1>1, AppendTo
<1>3. log \o <<e>> = more
  BY <1>1, LogAppends
<1> HIDE DEF more
<1>4. a \in Nat
  BY <1>2
<1>5. next.active \in [Types -> Nat] /\ next.active[type] = a
      /\ \A u \in Types : u # type => next.active[u] = pass.active[u]
  BY <1>1, <1>4
<1>6. ASSUME NEW u \in Types
      PROVE  IF next.active[u] = 0 THEN then[u] = <<>>
             ELSE next.active[u] \in 1..Len(more) /\ then[u] = <<more[next.active[u]]>>
  <2>1. CASE u # type
    <3>1. then[u] = active[u] /\ next.active[u] = pass.active[u]
      BY <1>5, <2>1
    <3>2. pass.active[u] # 0 => pass.active[u] \in 1..Len(log) /\ active[u] = <<log[pass.active[u]]>>
      BY DEF Agree
    <3>3. pass.active[u] = 0 => active[u] = <<>>
      BY DEF Agree
    <3> HIDE DEF then
    <3>4. pass.active[u] # 0 => pass.active[u] \in 1..Len(more) /\ more[pass.active[u]] = log[pass.active[u]]
      BY <1>2, <3>2
    <3> QED BY <3>1, <3>2, <3>3, <3>4
  <2>2. CASE u = type
    <3>1. next.active[u] = a /\ then[u] = IF a = 0 THEN <<>> ELSE <<e>>
      BY <1>5, <2>2
    <3>2. a # 0 => a \in 1..Len(more) /\ more[a] = e
      BY <1>2
    <3> HIDE DEF then
    <3> QED BY <3>1, <3>2
  <2> QED BY <2>1, <2>2
<1>7. next.events = more
  BY <1>1 DEF more
<1> HIDE DEF then
<1>8. Agree(next, more, then)
  BY <1>2, <1>5, <1>6, <1>7 DEF Agree
<1> QED BY <1>3, <1>8 DEF then, InForce

\* What is in force after an optional event.
Broke(active, type, broken) ==
  [u \in Types |-> IF u = type /\ broken # <<>> THEN <<>> ELSE active[u]]

Pivoted(active, type, pivot) ==
  [u \in Types |-> IF u = type /\ pivot # <<>> THEN pivot ELSE active[u]]

LEMMA AgreeOnNothing ==
  ASSUME NEW pass, NEW log, NEW active, NEW then, Agree(pass, log, active),
         \A u \in Types : then[u] = active[u]
  PROVE  Agree(pass, log \o <<>>, then)
<1>1. log \o <<>> = log
  BY LogAppends DEF Agree
<1> QED BY <1>1 DEF Agree

LEMMA AgreeOnBreak ==
  ASSUME NEW pass, NEW log, NEW active, Agree(pass, log, active), NEW type \in Types,
         NEW all, NEW engine, engine.active[type] = active[type]
  PROVE  LET broken == Breaks(engine, all, type)
         IN Agree(ChartBreak(all, pass, type, Len(all)), Joined(log, broken), Broke(active, type, broken))
<1> DEFINE broken == Breaks(engine, all, type)
           i == Len(all)
           a == pass.active[type]
           Gone == Beyond(type, Tip(type, all[i]), active[type][1].price)
           next == ChartBreak(all, pass, type, i)
<1>1. /\ a = 0 => active[type] = <<>>
      /\ a # 0 => active[type] = <<pass.events[a]>>
  BY DEF Agree
<1>2. active[type] # <<>> <=> a # 0
  BY <1>1
<1>3. CASE active[type] # <<>> /\ Gone
  <2> DEFINE e == Broken(active[type][1], i)
  <2>1. broken = <<e>> /\ broken # <<>>
    BY <1>3 DEF Breaks
  <2>2. pass.events[a] = active[type][1] /\ a # 0
    BY <1>1, <1>3
  <2>3. next = [events |-> Append(pass.events, e), sources |-> Append(pass.sources, a),
                active |-> [pass.active EXCEPT ![type] = 0]]
    BY <1>3, <2>2 DEF ChartBreak
  <2>4. next.events = Append(pass.events, e) /\ next.active = [pass.active EXCEPT ![type] = 0]
    BY <2>3
  <2> HIDE DEF e, next
  <2>5. Agree(next, log \o <<e>>, InForce(active, type, e, 0))
    <3>1. 0 \in {0, Len(log) + 1}
      OBVIOUS
    <3> QED BY <2>4, <3>1, AgreeOnEvent
  <2>6. InForce(active, type, e, 0) = Broke(active, type, broken)
    BY <2>1 DEF InForce, Broke
  <2> QED BY <2>1, <2>5, <2>6 DEF next, Joined
<1>4. CASE ~(active[type] # <<>> /\ Gone)
  <2>1. broken = <<>>
    BY <1>4 DEF Breaks
  <2>2. next = pass
    <3>1. CASE a = 0
      BY <3>1 DEF ChartBreak
    <3>2. CASE a # 0
      <4>1. pass.events[a] = active[type][1] /\ ~Gone
        BY <1>1, <1>4, <3>2
      <4> QED BY <4>1 DEF ChartBreak
    <3> QED BY <3>1, <3>2
  <2>3. \A u \in Types : Broke(active, type, <<>>)[u] = active[u]
    BY DEF Broke
  <2> HIDE DEF broken, next, Joined
  <2>4. Agree(pass, log \o <<>>, Broke(active, type, <<>>))
    BY <2>3, AgreeOnNothing
  <2> QED BY <2>1, <2>2, <2>4 DEF broken, next, Joined
<1> QED BY <1>3, <1>4

LEMMA AgreeOnPivot ==
  ASSUME NEW pass, NEW log, NEW active, Agree(pass, log, active), NEW type \in Types,
         NEW tier, NEW period, NEW all,
         ChartAtr(all, Len(all) - tier.k, period) = Atr(all, Len(all) - tier.k, period)
  PROVE  LET pivot == NewPivot(tier, period, all, type)
         IN Agree(ChartPivot(tier, period, all, pass, type, Len(all)), Joined(log, pivot),
                  Pivoted(active, type, pivot))
<1> DEFINE pivot == NewPivot(tier, period, all, type)
           i == Len(all)
           p == i - tier.k
           atr == Atr(all, p, period)
           e == Confirmed(tier, all, i, type, atr)
           Found == /\ p > tier.k /\ IsPivot(all, p, tier.k, type) /\ atr # None
                    /\ FarEnough(tier, ReversalTicks(all, p, tier.k, type), atr)
           next == ChartPivot(tier, period, all, pass, type, i)
<1>1. pass.events = log /\ Len(log) \in Nat
  BY AppendTo DEF Agree
<1>2. CASE Found
  <2>1. pivot = <<e>> /\ pivot # <<>>
    BY <1>2 DEF NewPivot
  <2>2. next = [events |-> Append(pass.events, e), sources |-> Append(pass.sources, 0),
                active |-> [pass.active EXCEPT ![type] = Len(pass.events) + 1]]
    BY <1>2 DEF ChartPivot
  <2> DEFINE a == Len(log) + 1
  <2>3. next.events = Append(pass.events, e) /\ next.active = [pass.active EXCEPT ![type] = a]
    BY <1>1, <2>2
  <2>4. a # 0 /\ a \in {0, Len(log) + 1}
    BY <1>1
  <2> HIDE DEF e, next, a, pivot
  <2>5. Agree(next, log \o <<e>>, InForce(active, type, e, a))
    BY <2>3, <2>4, AgreeOnEvent
  <2>6. InForce(active, type, e, a) = Pivoted(active, type, pivot)
    BY <2>1, <2>4 DEF InForce, Pivoted
  <2> QED BY <2>1, <2>5, <2>6 DEF next, pivot, Joined
<1>3. CASE ~Found
  <2>1. pivot = <<>>
    BY <1>3 DEF NewPivot
  <2>2. next = pass
    BY <1>3 DEF ChartPivot
  <2>3. \A u \in Types : Pivoted(active, type, <<>>)[u] = active[u]
    BY DEF Pivoted
  <2> HIDE DEF pivot, next, Joined
  <2>4. Agree(pass, log \o <<>>, Pivoted(active, type, <<>>))
    BY <2>3, AgreeOnNothing
  <2> QED BY <2>1, <2>2, <2>4 DEF pivot, next, Joined
<1> QED BY <1>2, <1>3

Together(x, y, z) == \E S : x \in Seq(S) /\ y \in Seq(S) /\ z \in Seq(S)

LEMMA ConcatThree ==
  ASSUME NEW x, NEW y, NEW z, Together(x, y, z)
  PROVE  Joined(Joined(x, y), z) = Joined(x, Joined(y, z))
<1>1. PICK S : x \in Seq(S) /\ y \in Seq(S) /\ z \in Seq(S)
  BY DEF Together
<1>2. (x \o y) \o z = x \o (y \o z)
  BY <1>1, ConcatAssociative
<1> QED BY <1>2 DEF Joined

OneAtMost(x) == \E e : x \in {<<>>, <<e>>}

LEMMA ConcatFive ==
  ASSUME NEW s, IsSeq(s), NEW a, NEW b, NEW c, NEW d,
         OneAtMost(a), OneAtMost(b), OneAtMost(c), OneAtMost(d)
  PROVE  Joined(Joined(Joined(Joined(s, a), b), c), d) = Joined(s, Joined(Joined(Joined(a, b), c), d))
<1>1. PICK p, q, u, v : /\ a \in {<<>>, <<p>>} /\ b \in {<<>>, <<q>>}
                        /\ c \in {<<>>, <<u>>} /\ d \in {<<>>, <<v>>}
  BY DEF OneAtMost
<1> DEFINE S == {s[i] : i \in 1..Len(s)} \cup {p, q, u, v}
<1>2. s \in Seq(S)
  <2>1. s \in Seq({s[i] : i \in 1..Len(s)})
    BY DEF IsSeq
  <2>2. s = [i \in 1..Len(s) |-> s[i]] /\ \A i \in 1..Len(s) : s[i] \in S
    BY <2>1
  <2>3. Len(s) \in Nat
    BY <2>1
  <2> HIDE DEF S
  <2> QED BY <2>2, <2>3, SeqDef
<1>3. ASSUME NEW e \in S, NEW x \in {<<>>, <<e>>} PROVE x \in Seq(S)
  <2> HIDE DEF S
  <2>1. CASE x = <<>>
    BY <2>1
  <2>2. CASE x = <<e>>
    BY <2>2
  <2> QED BY <2>1, <2>2
<1>4. p \in S /\ q \in S /\ u \in S /\ v \in S
  OBVIOUS
<1> HIDE DEF S
<1>5. a \in Seq(S) /\ b \in Seq(S) /\ c \in Seq(S) /\ d \in Seq(S)
  BY <1>1, <1>3, <1>4
<1> DEFINE ab == Joined(a, b)
           abc == Joined(ab, c)
<1>6. ab \in Seq(S) /\ abc \in Seq(S)
  <2>1. ab \in Seq(S)
    BY <1>5, ConcatProperties DEF Joined
  <2> HIDE DEF ab
  <2> QED BY <1>5, <2>1, ConcatProperties DEF Joined
<1> HIDE DEF ab, abc
<1>7. Together(s, a, b) /\ Together(s, ab, c) /\ Together(s, abc, d)
  BY <1>2, <1>5, <1>6 DEF Together
<1>8. /\ Joined(Joined(s, a), b) = Joined(s, Joined(a, b))
      /\ Joined(Joined(s, ab), c) = Joined(s, Joined(ab, c))
      /\ Joined(Joined(s, abc), d) = Joined(s, Joined(abc, d))
  BY <1>7, ConcatThree
<1> QED BY <1>8 DEF ab, abc

LEMMA BarAgrees ==
  ASSUME NEW tier, tier.k \in Nat \ {0}, AtrPeriod \in Nat \ {0}, NEW engine, Typed(engine), NEW pass,
         Agree(pass, engine.log, engine.active), NEW all \in Seq(Bars(Int)), HalvesFree(all)
  PROVE  LET after == OnBar(tier, AtrPeriod, engine, all)
         IN Agree(ChartBar(tier, AtrPeriod, all, pass, Len(all)), after.log, after.active)
<1> DEFINE a == Breaks(engine, all, "HIGH")
           b == Breaks(engine, all, "LOW")
           c == NewPivot(tier, AtrPeriod, all, "HIGH")
           d == NewPivot(tier, AtrPeriod, all, "LOW")
           i == Len(all)
           after == OnBar(tier, AtrPeriod, engine, all)
           pass1 == ChartBreak(all, pass, "HIGH", i)
           pass2 == ChartBreak(all, pass1, "LOW", i)
           pass3 == ChartPivot(tier, AtrPeriod, all, pass2, "HIGH", i)
           pass4 == ChartPivot(tier, AtrPeriod, all, pass3, "LOW", i)
           log == engine.log
           active1 == Broke(engine.active, "HIGH", a)
           active2 == Broke(active1, "LOW", b)
           active3 == Pivoted(active2, "HIGH", c)
           active4 == Pivoted(active3, "LOW", d)
<1>1. "HIGH" \in Types /\ "LOW" \in Types /\ Types = {"HIGH", "LOW"}
  BY DEF Types
<1>2. ChartAtr(all, i - tier.k, AtrPeriod) = Atr(all, i - tier.k, AtrPeriod)
  <2> DEFINE p == i - tier.k
  <2>1. CASE p < AtrPeriod
    BY <2>1 DEF ChartAtr, Atr
  <2>2. CASE ~(p < AtrPeriod)
    <3>1. p \in AtrPeriod..i
      BY <2>2
    <3> HIDE DEF p
    <3>2. RoundsAlike(TrueRangeSum(all, p, AtrPeriod), AtrPeriod)
      BY <3>1 DEF HalvesFree
    <3>3. ChartAtr(all, p, AtrPeriod) = Atr(all, p, AtrPeriod)
      BY <2>2, <3>2 DEF ChartAtr, Atr, RoundsAlike
    <3> QED BY <3>3 DEF p
  <2> QED BY <2>1, <2>2
<1>3. after.log = Joined(log, Joined(Joined(Joined(a, b), c), d))
  BY DEF OnBar, NewEvents, Joined
<1>4. \A u \in Types : after.active[u] = LET broken == Breaks(engine, all, u)
                                             pivot == NewPivot(tier, AtrPeriod, all, u)
                                         IN IF pivot # <<>> THEN pivot
                                            ELSE IF broken # <<>> THEN <<>> ELSE engine.active[u]
  BY ActiveThen
<1>5. after.active["HIGH"] = IF c # <<>> THEN c ELSE IF a # <<>> THEN <<>> ELSE engine.active["HIGH"]
  <2> HIDE DEF after
  <2> QED BY <1>1, <1>4
<1>6. after.active["LOW"] = IF d # <<>> THEN d ELSE IF b # <<>> THEN <<>> ELSE engine.active["LOW"]
  <2> HIDE DEF after
  <2> QED BY <1>1, <1>4
<1>7. ChartBar(tier, AtrPeriod, all, pass, i) = pass4
  BY DEF ChartBar
<1>8. Joined(Joined(Joined(Joined(log, a), b), c), d) = Joined(log, Joined(Joined(Joined(a, b), c), d))
  <2>1. OneAtMost(a) /\ OneAtMost(b)
    BY DEF OneAtMost, Breaks
  <2>2. OneAtMost(c) /\ OneAtMost(d)
    BY DEF OneAtMost, NewPivot
  <2>3. IsSeq(log)
    BY DEF Agree
  <2> HIDE DEF a, b, c, d, log
  <2> QED BY <2>1, <2>2, <2>3, ConcatFive
<1>9. Agree(pass1, Joined(log, a), active1)
  BY <1>1, AgreeOnBreak
<1>10. Agree(pass2, Joined(Joined(log, a), b), active2)
  <2>1. active1["LOW"] = engine.active["LOW"]
    BY <1>1 DEF Broke
  <2> HIDE DEF pass1, active1
  <2> QED BY <1>1, <1>9, <2>1, AgreeOnBreak
<1>11. Agree(pass3, Joined(Joined(Joined(log, a), b), c), active3)
  <2> HIDE DEF pass2, active2
  <2> QED BY <1>1, <1>2, <1>10, AgreeOnPivot
<1>12. Agree(pass4, Joined(Joined(Joined(Joined(log, a), b), c), d), active4)
  <2> HIDE DEF pass3, active3
  <2> QED BY <1>1, <1>2, <1>11, AgreeOnPivot
<1>13. \A u \in Types : after.active[u] = active4[u]
  <2> HIDE DEF a, b, c, d, after
  <2>1. active4["HIGH"] = IF c # <<>> THEN c ELSE IF a # <<>> THEN <<>> ELSE engine.active["HIGH"]
    BY <1>1 DEF Broke, Pivoted
  <2>2. active4["LOW"] = IF d # <<>> THEN d ELSE IF b # <<>> THEN <<>> ELSE engine.active["LOW"]
    BY <1>1 DEF Broke, Pivoted
  <2> HIDE DEF active4
  <2> QED BY <1>1, <1>5, <1>6, <2>1, <2>2
<1> HIDE DEF pass4, active4, after
<1>14. Agree(pass4, after.log, active4)
  BY <1>3, <1>8, <1>12
<1>15. Agree(pass4, after.log, after.active)
  BY <1>13, <1>14 DEF Agree
<1> QED BY <1>7, <1>15 DEF after

\* Engine and chart have the same events of the same bars, and what is active is untouched.
Agreed(t, engine, all) ==
  /\ Untouched(engine, all)
  /\ HalvesFree(all) =>
       Agree(DetectSwings(Tiers[t], AtrPeriod, all), engine.log, engine.active)

LEMMA NewAgreed == ASSUME NEW t PROVE Agreed(t, NewEngine, <<>>)
<1> DEFINE no == NoPass
<1>1. Untouched(NewEngine, <<>>)
  BY DEF Untouched, NewEngine
<1>2. /\ NewEngine.log = <<>> /\ \A u \in Types : NewEngine.active[u] = <<>>
      /\ no.events = <<>> /\ no.active = [u \in Types |-> 0]
  BY DEF NewEngine, NoPass
<1>3. IsSeq(<<>>)
  BY DEF IsSeq
<1> HIDE DEF no
<1>4. no.active \in [Types -> Nat] /\ \A u \in Types : no.active[u] = 0
  BY <1>2
<1>5. Agree(no, NewEngine.log, NewEngine.active)
  BY <1>2, <1>3, <1>4 DEF Agree
<1> QED BY <1>1, <1>5, NothingPassed DEF Agreed, no

LEMMA BarAgreed ==
  ASSUME NEW t \in DOMAIN Tiers, NEW engine, NEW front, NEW all, Continues(front, all),
         Agreed(t, engine, front)
  PROVE  Agreed(t, Decide(t, engine, all), all)
<1> DEFINE tier == Tiers[t]
           after == OnBar(tier, AtrPeriod, engine, all)
           pass == DetectSwings(tier, AtrPeriod, front)
<1>1. tier.k \in Nat \ {0} /\ AtrPeriod \in Nat \ {0}
  BY ChartAssumption
<1> HIDE DEF tier
<1>2. Untouched(engine, front) /\ Untouched(after, all)
  BY <1>1, StaysUntouched DEF Agreed
<1>3. ASSUME HalvesFree(all) PROVE Agree(DetectSwings(tier, AtrPeriod, all), after.log, after.active)
  <2>1. HalvesFree(front)
    BY <1>1, <1>3, SameHalves
  <2>2. Agree(pass, engine.log, engine.active)
    BY <2>1 DEF Agreed, tier
  <2>3. Typed(engine) /\ all \in Seq(Bars(Int))
    BY <1>2 DEF Untouched, Typed, Continues
  <2>4. DetectSwings(tier, AtrPeriod, all) = ChartBar(tier, AtrPeriod, all, pass, Len(all))
    BY <1>1, OnePassMore
  <2> HIDE DEF pass
  <2>5. Agree(ChartBar(tier, AtrPeriod, all, pass, Len(all)), after.log, after.active)
    BY <1>1, <1>3, <2>2, <2>3, BarAgrees
  <2> QED BY <2>4, <2>5
<1>4. Decide(t, engine, all) = after
  BY DEF Decide, tier
<1> QED BY <1>2, <1>3, <1>4 DEF Agreed, tier

-----------------------------------------------------------------------------
(* Every bar of a chart.                                                   *)

WarmAt(f, t, i) ==
  IF i = 0 THEN NewEngine ELSE Decide(t, f[i - 1], SubSeq(History, 1, i))

\* The engine of a tier is given the history bar by bar.
LEMMA WarmingGoesOn ==
  ASSUME NEW t, Len(History) \in Nat
  PROVE  \E f : /\ \A i \in 0..Len(History) : f[i] = WarmAt(f, t, i)
                /\ Warmed(t) = f[Len(History)]
<1> DEFINE Goes(f, i) == WarmAt(f, t, i)
           Is(f, n) == f = [i \in 0..n |-> Goes(f, i)]
           Bad == {n \in Nat : ~ \E f : Is(f, n)}
<1>1. Bad = {}
  <2> SUFFICES ASSUME Bad # {} PROVE FALSE
    OBVIOUS
  <2>1. PICK n \in Bad : \A m \in Bad : n <= m
    BY LeastOf
  <2>2. CASE n = 0
    <3>1. Is([i \in 0..0 |-> NewEngine], 0)
      BY DEF WarmAt
    <3> QED BY <2>1, <2>2, <3>1
  <2>3. CASE n # 0
    <3>1. n \in Nat /\ n - 1 \in Nat /\ n - 1 \notin Bad
      <4>1. n \in Nat
        BY <2>1
      <4> HIDE DEF Bad
      <4>2. n - 1 \in Nat /\ ~(n <= n - 1)
        BY <2>3, <4>1
      <4> QED BY <2>1, <4>1, <4>2
    <3>2. PICK g : Is(g, n - 1)
      BY <3>1
    <3> DEFINE f == [i \in 0..n |-> IF i < n THEN g[i] ELSE Goes(g, n)]
    <3>3. ASSUME NEW i \in 0..n PROVE f[i] = Goes(f, i)
      <4>1. i # 0 => i - 1 \in 0..n /\ i - 1 < n
        BY <3>1
      <4>2. i # 0 => f[i - 1] = g[i - 1]
        BY <4>1
      <4>3. Goes(f, i) = Goes(g, i)
        BY <4>2 DEF WarmAt
      <4>4. f[i] = Goes(g, i)
        <5>1. CASE i < n
          <6>1. i \in 0..(n - 1) /\ f[i] = g[i]
            BY <3>1, <5>1
          <6> HIDE DEF f, Goes
          <6> QED BY <3>2, <6>1
        <5>2. CASE ~(i < n)
          <6>1. i = n
            BY <3>1, <5>2
          <6> QED BY <5>2, <6>1
        <5> QED BY <5>1, <5>2
      <4> QED BY <4>3, <4>4
    <3>4. Is(f, n)
      <4> HIDE DEF Goes
      <4>1. f = [i \in 0..n |-> f[i]]
        OBVIOUS
      <4> HIDE DEF f
      <4> QED BY <3>3, <4>1
    <3> QED BY <2>1, <3>4
  <2> QED BY <2>2, <2>3
<1>2. \E f : Is(f, Len(History))
  BY <1>1
<1> DEFINE Whole == CHOOSE f : Is(f, Len(History))
<1>3. Is(Whole, Len(History))
  BY <1>2
<1>4. Warmed(t) = Whole[Len(History)]
  BY DEF Warmed, WarmAt
<1> HIDE DEF Whole
<1>5. \A i \in 0..Len(History) : Whole[i] = Goes(Whole, i)
  <2> HIDE DEF Goes
  <2> QED BY <1>3
<1> QED BY <1>4, <1>5

LEMMA HistoryIsBars == History \in Seq(Bars(Int)) /\ Len(History) \in Nat /\ Len(History) + 1 \in 1..MaxBars
<1>1. History \in Seq(ToSet(History)) /\ ToSet(History) \subseteq Bars(Int)
  BY ChartAssumption
<1>2. Len(History) \in Nat /\ History = [i \in 1..Len(History) |-> History[i]]
      /\ \A i \in 1..Len(History) : History[i] \in ToSet(History)
  BY <1>1
<1>3. \A i \in 1..Len(History) : History[i] \in Bars(Int)
  BY <1>1, <1>2
<1>4. History \in Seq(Bars(Int))
  BY <1>2, <1>3, SeqDef
<1>5. MaxBars \in Nat /\ Len(History) < MaxBars
  BY ChartAssumption
<1> QED BY <1>2, <1>4, <1>5

LEMMA WarmedAgreed ==
  ASSUME NEW t \in DOMAIN Tiers
  PROVE  Agreed(t, Warmed(t), History)
<1> DEFINE Upto(i) == SubSeq(History, 1, i)
           n == Len(History)
<1>1. n \in Nat /\ History \in Seq(Bars(Int)) /\ \A i \in 1..n : History[i] \in Bars(Int)
  BY HistoryIsBars
<1>2. PICK f : /\ \A i \in 0..n : f[i] = WarmAt(f, t, i)
               /\ Warmed(t) = f[n]
  BY <1>1, WarmingGoesOn
<1>3. ASSUME NEW i \in 0..n
      PROVE  /\ Upto(i) \in Seq(Bars(Int)) /\ Len(Upto(i)) = i
             /\ \A j \in 1..i : Upto(i)[j] = History[j]
  <2> HIDE DEF n
  <2>1. /\ i \in Nat /\ i - 1 + 1 = i /\ (IF 1 <= i THEN i - 1 + 1 ELSE 0) = i
        /\ \A j \in 1..i : j \in 1..n /\ 1 + j - 1 = j
    BY <1>1
  <2>2. \A j \in 1..i : History[j] \in Bars(Int)
    BY <1>1, <2>1
  <2>3. /\ Upto(i) \in Seq(Bars(Int)) /\ Len(Upto(i)) = IF 1 <= i THEN i - 1 + 1 ELSE 0
        /\ \A j \in 1..(i - 1 + 1) : Upto(i)[j] = History[1 + j - 1]
    BY <2>1, <2>2, SubSeqProperties
  <2> QED BY <2>1, <2>3
<1> HIDE DEF Upto
<1>4. ASSUME NEW i \in 1..n PROVE Continues(Upto(i - 1), Upto(i))
  <2>1. i \in 0..n /\ i - 1 \in 0..n /\ i = i - 1 + 1 /\ \A j \in 1..(i - 1) : j \in 1..i
    BY <1>1
  <2> QED BY <1>3, <2>1 DEF Continues
<1>5. Upto(0) = <<>> /\ Upto(n) = History
  <2>1. Upto(0) = <<>>
    BY <1>1, <1>3
  <2>2. Upto(n) = History
    <3>1. n \in 0..n
      BY <1>1
    <3>2. /\ Upto(n) \in Seq(Bars(Int)) /\ Len(Upto(n)) = Len(History)
          /\ \A j \in 1..Len(Upto(n)) : Upto(n)[j] = History[j]
      BY <1>3, <3>1
    <3> QED BY <1>1, <3>2, SeqEqual
  <2> QED BY <2>1, <2>2
<1> DEFINE Bad == {i \in 0..n : ~Agreed(t, f[i], Upto(i))}
<1>6. Bad = {}
  <2> SUFFICES ASSUME Bad # {} PROVE FALSE
    OBVIOUS
  <2>1. Bad \subseteq Nat
    BY <1>1
  <2>2. PICK i \in Bad : \A m \in Bad : i <= m
    BY <2>1, LeastOf
  <2>3. i \in 0..n /\ ~Agreed(t, f[i], Upto(i)) /\ f[i] = WarmAt(f, t, i)
    BY <1>2, <2>2
  <2>4. i # 0
    BY <1>5, <2>3, NewAgreed DEF WarmAt
  <2>5. i \in 1..n /\ i - 1 \in 0..n /\ ~(i <= i - 1)
    BY <1>1, <2>3, <2>4
  <2>6. Agreed(t, f[i - 1], Upto(i - 1))
    BY <2>2, <2>5
  <2>7. Agreed(t, Decide(t, f[i - 1], Upto(i)), Upto(i))
    BY <1>4, <2>5, <2>6, BarAgreed
  <2> QED BY <2>3, <2>4, <2>7 DEF WarmAt, Upto
<1>7. n \in 0..n
  BY <1>1
<1>8. Agreed(t, f[n], Upto(n))
  BY <1>6, <1>7
<1> QED BY <1>2, <1>5, <1>8

-----------------------------------------------------------------------------
SwingInv ==
  /\ bars \in Seq(Bars(Int)) /\ Len(bars) \in 1..MaxBars
  /\ \A t \in DOMAIN Tiers : Agreed(t, engines[t], Closed)

LEMMA ClosedGrows ==
  ASSUME NEW all \in Seq(Bars(Int)), Len(all) # 0
  PROVE  Continues(SubSeq(all, 1, Len(all) - 1), all)
<1>1. Len(all) \in Nat
  OBVIOUS
<1>2. Len(all) - 1 \in Nat /\ Len(all) = Len(all) - 1 + 1
  BY <1>1
<1>3. LET front == SubSeq(all, 1, Len(all) - 1)
      IN /\ front \in Seq(Bars(Int)) /\ Len(front) = Len(all) - 1
         /\ \A i \in 1..(Len(all) - 1) : front[i] = all[i]
  BY AllButLast
<1> QED BY <1>2, <1>3 DEF Continues

LEMMA OpeningIsABar == \A b \in Bars(Int) : Opening(b.open) \in Bars(Int)
<1> SUFFICES ASSUME NEW b \in Bars(Int) PROVE Opening(b.open) \in Bars(Int)
  OBVIOUS
<1>1. b.open \in Int
  BY DEF Bars
<1> QED BY <1>1 DEF Bars, Opening

\* With one more bar the closed ones are all that there were.
LEMMA ClosedBefore ==
  ASSUME NEW all \in Seq(Bars(Int)), NEW b \in Bars(Int)
  PROVE  LET more == Append(all, b)
         IN /\ more \in Seq(Bars(Int)) /\ Len(more) = Len(all) + 1
            /\ SubSeq(more, 1, Len(more) - 1) = all
<1> DEFINE more == Append(all, b)
           front == SubSeq(more, 1, Len(more) - 1)
<1>1. /\ Len(all) \in Nat /\ more \in Seq(Bars(Int)) /\ Len(more) = Len(all) + 1
      /\ \A i \in 1..Len(all) : more[i] = all[i]
  BY AppendProperties
<1> HIDE DEF more
<1>2. Len(more) # 0 /\ Len(more) - 1 = Len(all)
  BY <1>1
<1>3. /\ front \in Seq(Bars(Int)) /\ Len(front) = Len(more) - 1
      /\ \A i \in 1..(Len(more) - 1) : front[i] = more[i]
  BY <1>1, <1>2, AllButLast
<1> HIDE DEF front
<1>4. front = all
  BY <1>1, <1>2, <1>3, SeqEqual
<1> QED BY <1>1, <1>4 DEF front, more

LEMMA InitAgrees == Init => SwingInv
<1> SUFFICES ASSUME Init PROVE SwingInv
  OBVIOUS
<1>1. PICK b \in ShapesAt[Len(History) + 1] : bars = Append(History, Opening(b.open))
  BY DEF Init
<1>2. Opening(b.open) \in Bars(Int)
  <2>1. b \in Bars(Int)
    BY <1>1, HistoryIsBars, ChartAssumption
  <2> QED BY <2>1, OpeningIsABar
<1>3. bars \in Seq(Bars(Int)) /\ Len(bars) = Len(History) + 1 /\ Closed = History
  BY <1>1, <1>2, HistoryIsBars, ClosedBefore DEF Closed
<1>4. ASSUME NEW t \in DOMAIN Tiers PROVE Agreed(t, engines[t], Closed)
  <2>1. engines[t] = Warmed(t)
    BY DEF Init
  <2> QED BY <1>3, <2>1, WarmedAgreed
<1> QED BY <1>3, <1>4, HistoryIsBars DEF SwingInv

LEMMA ShapeAgrees == ASSUME SwingInv, Shape PROVE SwingInv'
<1>1. PICK b \in ShapesAt[Len(bars)] : bars' = Front(bars) \o <<b>>
  BY DEF Shape
<1>2. /\ bars \in Seq(Bars(Int)) /\ Len(bars) \in 1..MaxBars /\ Len(bars) # 0
      /\ \A t \in DOMAIN Tiers : Agreed(t, engines[t], Closed)
  BY DEF SwingInv
<1>3. b \in Bars(Int)
  BY <1>1, <1>2, ChartAssumption
<1>4. Closed \in Seq(Bars(Int)) /\ Len(Closed) + 1 = Len(bars)
  BY <1>2, ClosedGrows DEF Closed, Continues
<1>5. bars' = Append(Closed, b)
  BY <1>1, <1>3, <1>4, AppendIsConcat DEF Front, Closed
<1>6. bars' \in Seq(Bars(Int)) /\ Len(bars') = Len(bars) /\ Closed' = Closed
  <2>1. PICK c : c = Closed
    OBVIOUS
  <2>2. /\ Append(c, b) \in Seq(Bars(Int)) /\ Len(Append(c, b)) = Len(c) + 1
        /\ SubSeq(Append(c, b), 1, Len(Append(c, b)) - 1) = c
    BY <1>3, <1>4, <2>1, ClosedBefore
  <2>3. Closed' = SubSeq(bars', 1, Len(bars') - 1)
    BY DEF Closed
  <2> QED BY <1>4, <1>5, <2>1, <2>2, <2>3
<1>7. engines' = engines
  BY DEF Shape
<1> QED BY <1>2, <1>6, <1>7 DEF SwingInv

LEMMA NextBarAgrees == ASSUME SwingInv, NextBar PROVE SwingInv'
<1>1. PICK b \in ShapesAt[Len(bars) + 1] : bars' = Append(bars, Opening(b.open))
  BY DEF NextBar
<1>2. /\ bars \in Seq(Bars(Int)) /\ Len(bars) \in 1..MaxBars /\ Len(bars) # 0
      /\ \A t \in DOMAIN Tiers : Agreed(t, engines[t], Closed)
  BY DEF SwingInv
<1>3. Len(bars) + 1 \in 1..MaxBars
  <2>1. Len(bars) < MaxBars /\ MaxBars \in Nat
    BY ChartAssumption DEF NextBar
  <2> QED BY <1>2, <2>1
<1>4. Opening(b.open) \in Bars(Int)
  <2>1. b \in Bars(Int)
    BY <1>1, <1>3, ChartAssumption
  <2> QED BY <2>1, OpeningIsABar
<1>5. bars' \in Seq(Bars(Int)) /\ Len(bars') = Len(bars) + 1 /\ Closed' = bars
  <2>1. Closed' = SubSeq(bars', 1, Len(bars') - 1)
    BY DEF Closed
  <2> QED BY <1>1, <1>2, <1>4, <2>1, ClosedBefore
<1>6. Continues(Closed, bars)
  BY <1>2, ClosedGrows DEF Closed
<1>7. ASSUME NEW t \in DOMAIN Tiers PROVE Agreed(t, engines'[t], bars)
  <2>1. engines'[t] = Decide(t, engines[t], bars)
    BY DEF NextBar
  <2> QED BY <1>2, <1>6, <2>1, BarAgreed
<1> QED BY <1>3, <1>5, <1>7 DEF SwingInv

LEMMA SeqIsSeq ==
  ASSUME NEW S, NEW t \in Seq(S)
  PROVE  IsSeq(t)
<1> DEFINE U == {t[i] : i \in 1..Len(t)}
<1>1. Len(t) \in Nat /\ t = [i \in 1..Len(t) |-> t[i]] /\ \A i \in 1..Len(t) : t[i] \in U
  OBVIOUS
<1> HIDE DEF U
<1>2. t \in Seq(U)
  BY <1>1, SeqDef
<1> QED BY <1>2 DEF IsSeq, U

\* The bars that have closed stay, while the next takes its shape.
LEMMA ShapeKeepsClosed ==
  ASSUME SwingInv, Shape
  PROVE  /\ SwingInv' /\ ClosedBars \in Nat /\ ClosedBars' = ClosedBars
         /\ \A i \in 1..ClosedBars : bars'[i] = bars[i]
<1>1. PICK b \in ShapesAt[Len(bars)] : bars' = Front(bars) \o <<b>>
  BY DEF Shape
<1>2. SwingInv'
  BY ShapeAgrees
<1> DEFINE n == ClosedBars
           front == Front(bars)
<1>3. /\ bars \in Seq(Bars(Int)) /\ Len(bars) \in Nat /\ Len(bars) # 0 /\ n \in Nat
      /\ n = Len(bars) - 1
  BY DEF SwingInv, ClosedBars
<1>4. /\ front \in Seq(Bars(Int)) /\ Len(front) = n /\ \A i \in 1..n : front[i] = bars[i]
  BY <1>3, AllButLast DEF Front
<1>5. b \in Bars(Int)
  <2>1. Len(bars) \in 1..MaxBars
    BY DEF SwingInv
  <2> QED BY <1>1, <2>1, ChartAssumption
<1>6. Len(bars') = n + 1 /\ \A i \in 1..n : bars'[i] = bars[i]
  <2>1. bars' = Append(front, b)
    BY <1>1, <1>4, <1>5, AppendIsConcat
  <2> HIDE DEF front, n
  <2>2. /\ Len(Append(front, b)) = Len(front) + 1
        /\ \A i \in 1..Len(front) : Append(front, b)[i] = front[i]
    BY <1>4, <1>5, AppendProperties
  <2> QED BY <1>4, <2>1, <2>2
<1>7. ClosedBars' = n
  <2>1. ClosedBars' = Len(bars') - 1
    BY DEF ClosedBars
  <2> HIDE DEF n
  <2> QED BY <1>3, <1>6, <2>1
<1> QED BY <1>2, <1>3, <1>6, <1>7

\* One more bar has closed, and those before it stay.
LEMMA NextBarCloses ==
  ASSUME SwingInv, NextBar
  PROVE  /\ SwingInv' /\ ClosedBars \in Nat /\ ClosedBars' = ClosedBars + 1
         /\ IsSeq(bars) /\ Len(bars) = ClosedBars + 1 /\ ClosedBars + 1 <= MaxBars
         /\ \A i \in 1..(ClosedBars + 1) : bars'[i] = bars[i]
<1>1. PICK b \in ShapesAt[Len(bars) + 1] : bars' = Append(bars, Opening(b.open))
  BY DEF NextBar
<1>2. SwingInv'
  BY NextBarAgrees
<1> DEFINE n == ClosedBars
<1>3. /\ n \in Nat /\ Len(bars) = n + 1 /\ IsSeq(bars) /\ n + 1 <= MaxBars
  <2>1. bars \in Seq(Bars(Int)) /\ Len(bars) \in 1..MaxBars /\ MaxBars \in Nat
    BY ChartAssumption DEF SwingInv
  <2>2. IsSeq(bars)
    BY <2>1, SeqIsSeq
  <2> QED BY <2>1, <2>2 DEF ClosedBars
<1>4. /\ Len(bars') = n + 2 /\ \A i \in 1..(n + 1) : bars'[i] = bars[i]
  BY <1>1, <1>3, AppendTo
<1>5. ClosedBars' = n + 1
  <2>1. ClosedBars' = Len(bars') - 1
    BY DEF ClosedBars
  <2> QED BY <1>3, <1>4, <2>1
<1> QED BY <1>2, <1>3, <1>4, <1>5

LEMMA InvAgrees == SwingInv => SwingsAreAgreed
<1> SUFFICES ASSUME SwingInv PROVE SwingsAreAgreed
  OBVIOUS
<1>1. Continues(Closed, bars) /\ \A t \in DOMAIN Tiers : Agreed(t, engines[t], Closed)
  BY ClosedGrows DEF SwingInv, Closed
<1>2. SameEventsAsEngine
  <2> SUFFICES ASSUME NoHalves, NEW t \in DOMAIN Tiers
               PROVE  DetectSwings(Tiers[t], AtrPeriod, Closed).events = engines[t].log
    BY DEF SameEventsAsEngine
  <2>1. HalvesFree(Closed)
    BY <1>1, ChartAssumption, SameHalves DEF NoHalves
  <2> QED BY <1>1, <2>1 DEF Agreed, Agree
<1>3. ActiveIsUntouched
  <2> SUFFICES ASSUME NEW t \in DOMAIN Tiers, NEW type \in Types, engines[t].active[type] # <<>>,
                      NEW j \in (engines[t].active[type][1].pivot + 1)..Len(Closed)
               PROVE  ~Beyond(type, Tip(type, bars[j]), engines[t].active[type][1].price)
    BY DEF ActiveIsUntouched
  <2> DEFINE e == engines[t].active[type][1]
  <2>1. /\ e.pivot \in Nat
        /\ \A m \in (e.pivot + 1)..Len(Closed) : ~Beyond(type, Tip(type, Closed[m]), e.price)
    BY <1>1 DEF Agreed, Untouched
  <2>2. j \in 1..Len(Closed)
    BY <1>1, <2>1 DEF Continues
  <2>3. bars[j] = Closed[j]
    BY <1>1, <2>2 DEF Continues
  <2> QED BY <2>1, <2>3
<1> QED BY <1>2, <1>3 DEF SwingsAreAgreed

\* Of whatever bars, history and tiers, the chart's pass finds the events of the EA's log,
\* and no bar has traded beyond an active swing since its pivot (swings.py:344,
\* VO_SwingMath.mqh:192).
THEOREM SwingsAgree == ObservationSpec => []SwingsAreAgreed
<1>1. ObservationInit => SwingInv
  BY InitAgrees DEF ObservationInit
<1>2. SwingInv /\ [ObservationNext]_<<vars, observed>> => SwingInv'
  <2> SUFFICES ASSUME SwingInv, [ObservationNext]_<<vars, observed>> PROVE SwingInv'
    OBVIOUS
  <2>1. CASE Shape /\ UNCHANGED observed
    BY <2>1, ShapeAgrees
  <2>2. CASE NextBar /\ Observe
    BY <2>2, NextBarAgrees
  <2>3. CASE UNCHANGED <<vars, observed>>
    <3>1. bars' = bars /\ engines' = engines
      BY <2>3 DEF vars
    <3> QED BY <3>1 DEF SwingInv, Closed
  <2> QED BY <2>1, <2>2, <2>3 DEF ObservationNext
<1> QED BY <1>1, <1>2, InvAgrees, PTL DEF ObservationSpec

-----------------------------------------------------------------------------
(* The range.  Its log of records is cut by those that end a range: since   *)
(* the last of them there has been no leg (Resting), or one began with      *)
(* record b (FirstOfLeg).  Which anchors a record may name follows from the *)
(* records up to it alone, so that RecordRight stays true as the log grows. *)

RangeFields == {"state", "swing", "internal", "announced", "direction", "boundary", "extreme",
                "states", "transitions"}

IsRange(e) == e = [x \in RangeFields |-> e[x]]

\* Of the first n records r is the last that ended a range; with none, r is 0.
LastEnd(s, r, n) ==
  /\ r \in 0..n /\ (r = 0 \/ s[r].state = "REVERSAL")
  /\ \A j \in (r + 1)..n : s[j].state # "REVERSAL"

EndedAt(s, r) == IF r = 0 THEN 0 ELSE s[r].at

Resting(s, r, n) == \A j \in (r + 1)..n : s[j].state = "CONSOLIDATION"

FirstOfLeg(s, r, b, n) ==
  /\ b \in (r + 1)..n /\ s[b].state # "CONSOLIDATION"
  /\ \A j \in (r + 1)..(b - 1) : s[j].state = "CONSOLIDATION"

AnchoredIn(swing, internal, from, to) ==
  /\ swing.at \in (from + 1)..to /\ internal.at \in (from + 1)..to
  /\ internal.type = R!Facing(swing.type)

RecordRight(s, i) ==
  \E r \in 0..(i - 1) :
    /\ LastEnd(s, r, i - 1)
    /\ \/ /\ Resting(s, r, i)
          /\ AnchoredIn(s[i].swing, s[i].internal, EndedAt(s, r), s[i].at)
       \/ \E b \in 1..i : /\ FirstOfLeg(s, r, b, i)
                          /\ AnchoredIn(s[i].swing, s[i].internal, EndedAt(s, r), s[b].at)

\* The anchors a range may have before it breaks.
AnchorsFrom(e, from, n) ==
  /\ e.swing # None => e.swing.at \in (from + 1)..n
  /\ e.swing # None /\ e.internal # None => AnchoredIn(e.swing, e.internal, from, n)

\* What the records since the last end say of the range as it is.
RecordsSince(e, r, n) ==
  /\ LastEnd(e.states, r, Len(e.states)) /\ EndedAt(e.states, r) \in 0..n
  /\ IF e.state = "CONSOLIDATION"
     THEN Resting(e.states, r, Len(e.states)) /\ AnchorsFrom(e, EndedAt(e.states, r), n)
     ELSE \E b \in 1..Len(e.states) :
            /\ FirstOfLeg(e.states, r, b, Len(e.states))
            /\ AnchoredIn(e.swing, e.internal, EndedAt(e.states, r), e.states[b].at)

Logged(e, n) ==
  /\ IsSeq(e.states) /\ \A i \in 1..Len(e.states) : RecordRight(e.states, i)
  /\ \E r \in 0..Len(e.states) : RecordsSince(e, r, n)

\* The leg began with move k.
LegFromMove(s, k) ==
  /\ k \in 1..Len(s) /\ (k = 1 \/ s[k - 1].to = "REVERSAL")
  /\ \A j \in k..Len(s) : s[j].to # "REVERSAL"

\* The bars whose bodies count.
TipBars(e, all, began, n) == {j \in began..n : j = began \/ ~R!Reclaimed(e, all[j])}

TipOf(e, bar) == BodyTip(Leading(e.direction), bar)

HasFurthest(e, all, began, n) ==
  \E i \in TipBars(e, all, began, n) :
    \A j \in TipBars(e, all, began, n) : ~R!Further(e.direction, TipOf(e, all[j]), TipOf(e, all[i]))

LegSince(e, all, n, began) ==
  /\ began \in 1..n /\ e.extreme \in Int
  /\ \E j \in TipBars(e, all, began, n) : TipOf(e, all[j]) = e.extreme
  /\ \A j \in TipBars(e, all, began, n) : ~R!Further(e.direction, TipOf(e, all[j]), e.extreme)
  /\ e.state = "EXPANSION" <=>
       \/ n = began
       \/ \A j \in TipBars(e, all, began, n - 1) : R!Further(e.direction, e.extreme, TipOf(e, all[j]))
  /\ n # began => HasFurthest(e, all, began, n - 1)

LegSound(e, all, n) ==
  /\ IsSeq(e.transitions)
  /\ IF e.state = "CONSOLIDATION"
     THEN Len(e.transitions) = 0 \/ e.transitions[Len(e.transitions)].to = "REVERSAL"
     ELSE \E k \in 1..Len(e.transitions) :
            LegFromMove(e.transitions, k) /\ LegSince(e, all, n, e.transitions[k].at)

RangeSound(e, all, n) ==
  /\ IsRange(e) /\ e.state \in {"CONSOLIDATION", "EXPANSION", "RETRACEMENT"}
  /\ Logged(e, n) /\ LegSound(e, all, n)

RangeInv == SwingInv /\ RangeSound(range, bars, ClosedBars)

\* A record depends on none after it.
LEMMA RecordStays ==
  ASSUME NEW s, NEW t, NEW i \in Nat, \A j \in 1..i : t[j] = s[j], i # 0, RecordRight(s, i)
  PROVE  RecordRight(t, i)
<1>1. PICK r \in 0..(i - 1) :
        /\ LastEnd(s, r, i - 1)
        /\ \/ /\ Resting(s, r, i)
              /\ AnchoredIn(s[i].swing, s[i].internal, EndedAt(s, r), s[i].at)
           \/ \E b \in 1..i : /\ FirstOfLeg(s, r, b, i)
                              /\ AnchoredIn(s[i].swing, s[i].internal, EndedAt(s, r), s[b].at)
  BY DEF RecordRight
<1>2. /\ i \in 1..i /\ (r # 0 => r \in 1..i) /\ r \in Nat
      /\ \A j \in (r + 1)..i : j \in 1..i
      /\ \A j \in (r + 1)..(i - 1) : j \in 1..i
      /\ \A b \in 1..i : \A j \in (r + 1)..(b - 1) : j \in 1..i
  OBVIOUS
<1>3. LastEnd(t, r, i - 1) /\ EndedAt(t, r) = EndedAt(s, r) /\ t[i] = s[i]
  BY <1>1, <1>2 DEF LastEnd, EndedAt
<1>4. Resting(s, r, i) => Resting(t, r, i)
  BY <1>2 DEF Resting
<1>5. \A b \in 1..i : t[b] = s[b] /\ (FirstOfLeg(s, r, b, i) => FirstOfLeg(t, r, b, i))
  BY <1>2 DEF FirstOfLeg
<1> QED BY <1>1, <1>3, <1>4, <1>5 DEF RecordRight

\* What the next record has to say.
Follows(s, r, rec) ==
  \/ /\ Resting(s, r, Len(s))
     /\ AnchoredIn(rec.swing, rec.internal, EndedAt(s, r), rec.at)
  \/ /\ rec.state # "CONSOLIDATION"
     /\ \E b \in 1..Len(s) : /\ FirstOfLeg(s, r, b, Len(s))
                             /\ AnchoredIn(rec.swing, rec.internal, EndedAt(s, r), s[b].at)

Added(s, r, rec, t) ==
  /\ IsSeq(t) /\ Len(t) = Len(s) + 1 /\ Len(s) \in Nat /\ t[Len(t)] = rec
  /\ \A i \in 1..Len(t) : RecordRight(t, i)
  /\ EndedAt(t, r) = EndedAt(s, r)
  /\ rec.state # "REVERSAL" => LastEnd(t, r, Len(t))
  /\ Resting(s, r, Len(s)) => IF rec.state = "CONSOLIDATION" THEN Resting(t, r, Len(t))
                              ELSE FirstOfLeg(t, r, Len(t), Len(t))
  /\ \A b \in 1..Len(s) : /\ t[b] = s[b]
                          /\ FirstOfLeg(s, r, b, Len(s)) => FirstOfLeg(t, r, b, Len(t))

LEMMA RecordAdded ==
  ASSUME NEW s, IsSeq(s), \A i \in 1..Len(s) : RecordRight(s, i),
         NEW r, r \in 0..Len(s), LastEnd(s, r, Len(s)), NEW rec, Follows(s, r, rec)
  PROVE  Added(s, r, rec, Append(s, rec))
<1> DEFINE n == Len(s)
           t == Append(s, rec)
<1>1. /\ n \in Nat /\ IsSeq(t) /\ Len(t) = n + 1 /\ t[n + 1] = rec
      /\ \A j \in 1..n : t[j] = s[j]
  BY AppendTo
<1> HIDE DEF t
<1>2. r \in Nat /\ (r # 0 => r \in 1..n) /\ n + 1 - 1 = n
      /\ (\A j \in (r + 1)..(n + 1) : j \in 1..n \/ j = n + 1)
      /\ (\A j \in (r + 1)..n : j \in 1..n)
      /\ (\A b \in 1..n : \A j \in (r + 1)..(b - 1) : j \in 1..n)
      /\ (\A j \in 1..n : j \in Nat /\ j # 0 /\ (\A i \in 1..j : i \in 1..n))
      /\ (\A j \in (r + 1)..n : j \in (r + 1)..(n + 1))
      /\ (n + 1) \in (r + 1)..(n + 1) /\ r \in 0..n /\ n + 1 \in 1..(n + 1)
      /\ (\A j \in 1..n : j \in 1..(n + 1))
  BY <1>1
<1>3. EndedAt(t, r) = EndedAt(s, r) /\ LastEnd(t, r, n)
  BY <1>1, <1>2 DEF LastEnd, EndedAt
<1>4. rec.state # "REVERSAL" => LastEnd(t, r, n + 1)
  <2>1. r \in 0..(n + 1)
    BY <1>1, <1>2
  <2> HIDE DEF n
  <2> QED BY <1>1, <1>2, <1>3, <2>1 DEF LastEnd
<1>5. Resting(s, r, n) => IF rec.state = "CONSOLIDATION" THEN Resting(t, r, n + 1)
                          ELSE FirstOfLeg(t, r, n + 1, n + 1)
  <2> HIDE DEF n
  <2> SUFFICES ASSUME Resting(s, r, n)
               PROVE  IF rec.state = "CONSOLIDATION" THEN Resting(t, r, n + 1)
                      ELSE FirstOfLeg(t, r, n + 1, n + 1)
    OBVIOUS
  <2>1. \A j \in (r + 1)..n : t[j].state = "CONSOLIDATION"
    BY <1>1, <1>2 DEF Resting
  <2> QED BY <1>1, <1>2, <2>1 DEF Resting, FirstOfLeg
<1>6. ASSUME NEW b \in 1..n
      PROVE  t[b] = s[b] /\ (FirstOfLeg(s, r, b, n) => FirstOfLeg(t, r, b, n + 1))
  <2> HIDE DEF n
  <2> QED BY <1>1, <1>2, <1>6 DEF FirstOfLeg
<1>7. RecordRight(t, n + 1)
  <2> HIDE DEF n
  <2>1. LastEnd(t, r, (n + 1) - 1) /\ r \in 0..((n + 1) - 1)
    <3>1. (n + 1) - 1 = n /\ r \in 0..n
      BY <1>1, <1>2
    <3> QED BY <1>3, <3>1
  <2>2. CASE /\ Resting(s, r, n)
             /\ AnchoredIn(rec.swing, rec.internal, EndedAt(s, r), rec.at)
    <3>1. CASE rec.state = "CONSOLIDATION"
      BY <1>1, <1>3, <1>5, <2>1, <2>2, <3>1 DEF RecordRight
    <3>2. CASE rec.state # "CONSOLIDATION"
      BY <1>1, <1>2, <1>3, <1>5, <2>1, <2>2, <3>2 DEF RecordRight
    <3> QED BY <3>1, <3>2
  <2>3. CASE \E b \in 1..n : /\ FirstOfLeg(s, r, b, n)
                             /\ AnchoredIn(rec.swing, rec.internal, EndedAt(s, r), s[b].at)
    BY <1>1, <1>2, <1>3, <1>6, <2>1, <2>3 DEF RecordRight
  <2> QED BY <2>2, <2>3 DEF Follows, n
<1>8. ASSUME NEW i \in 1..(n + 1) PROVE RecordRight(t, i)
  <2>1. CASE i = n + 1
    BY <1>7, <2>1
  <2>2. CASE i # n + 1
    <3>1. i \in 1..n
      BY <1>1, <2>2
    <3>2. i \in Nat /\ i # 0 /\ \A j \in 1..i : t[j] = s[j]
      BY <1>1, <1>2, <3>1
    <3>3. RecordRight(s, i)
      BY <3>1
    <3> QED BY <3>2, <3>3, RecordStays
  <2> QED BY <2>1, <2>2
<1> QED BY <1>1, <1>3, <1>4, <1>5, <1>6, <1>8 DEF Added, t

\* A range that ends has nothing after its record.
LEMMA EndIsLast ==
  ASSUME NEW t, NEW n \in Nat, n # 0, t[n].state = "REVERSAL"
  PROVE  LastEnd(t, n, n) /\ Resting(t, n, n) /\ EndedAt(t, n) = t[n].at
BY DEF LastEnd, Resting, EndedAt

-----------------------------------------------------------------------------
(* The anchors.                                                            *)

AllAt(events, at) ==
  Len(events) \in Nat /\ \A i \in 1..Len(events) : events[i].at = at

LEMMA OneAfter ==
  ASSUME NEW S, NEW s \in Seq(S), NEW e \in S, NEW x, x = <<>> \/ x = <<e>>,
         NEW at, e.at = at, AllAt(s, at)
  PROVE  s \o x \in Seq(S) /\ AllAt(s \o x, at)
<1>1. CASE x = <<>>
  <2>1. s \o x = s
    BY <1>1
  <2> QED BY <1>1, <2>1
<1>2. CASE x = <<e>>
  <2> DEFINE t == s \o x
             n == Len(s)
  <2>1. x \in Seq(S) /\ Len(x) = 1 /\ x[1] = e /\ n \in Nat
    BY <1>2
  <2>2. /\ t \in Seq(S) /\ Len(t) = n + Len(x)
        /\ \A i \in 1..(n + Len(x)) : t[i] = IF i <= n THEN s[i] ELSE x[i - n]
    BY <2>1, ConcatProperties
  <2> HIDE DEF t, n
  <2>3. Len(t) = n + 1 /\ Len(t) \in Nat
    BY <2>1, <2>2
  <2>4. n + Len(x) = Len(t)
    BY <2>2
  <2>5. ASSUME NEW i \in 1..Len(t) PROVE t[i].at = at
    <3>1. CASE i <= n
      <4>1. i \in 1..n
        BY <2>1, <2>3, <3>1
      <4>2. t[i] = s[i]
        BY <2>2, <2>3, <2>4, <3>1
      <4> QED BY <4>1, <4>2 DEF AllAt, n
    <3>2. CASE ~(i <= n)
      <4>1. i = n + 1 /\ i - n = 1
        BY <2>1, <2>3, <3>2
      <4>2. t[i] = x[i - n]
        BY <2>2, <2>3, <2>4, <3>2
      <4> QED BY <2>1, <4>1, <4>2
    <3> QED BY <3>1, <3>2
  <2> QED BY <2>2, <2>3, <2>5 DEF AllAt, t
<1> QED BY <1>1, <1>2

\* What a bar breaks or confirms is dated by it.
LEMMA EventsAreOfTheBar ==
  ASSUME NEW tier, NEW period, NEW engine, NEW all
  PROVE  LET events == NewEvents(tier, period, engine, all)
         IN AllAt(events, Len(all)) /\ \E S : events \in Seq(S)
<1> DEFINE a == Breaks(engine, all, "HIGH")
           b == Breaks(engine, all, "LOW")
           c == NewPivot(tier, period, all, "HIGH")
           d == NewPivot(tier, period, all, "LOW")
           n == Len(all)
<1>1. ASSUME NEW type PROVE \E e : Breaks(engine, all, type) \in {<<>>, <<e>>} /\ e.at = n
  <2> DEFINE e == Broken(engine.active[type][1], n)
  <2>1. Breaks(engine, all, type) \in {<<>>, <<e>>}
    BY DEF Breaks
  <2>2. e.at = n
    BY DEF Broken
  <2> HIDE DEF e
  <2> QED BY <2>1, <2>2
<1>2. ASSUME NEW type PROVE \E e : NewPivot(tier, period, all, type) \in {<<>>, <<e>>} /\ e.at = n
  <2> DEFINE e == Confirmed(tier, all, n, type, Atr(all, n - tier.k, period))
  <2>1. NewPivot(tier, period, all, type) \in {<<>>, <<e>>}
    BY DEF NewPivot
  <2>2. e.at = n
    BY DEF Confirmed
  <2> HIDE DEF e
  <2> QED BY <2>1, <2>2
<1>3. PICK p : a \in {<<>>, <<p>>} /\ p.at = n
  BY <1>1
<1>4. PICK q : b \in {<<>>, <<q>>} /\ q.at = n
  BY <1>1
<1>5. PICK u : c \in {<<>>, <<u>>} /\ u.at = n
  BY <1>2
<1>6. PICK v : d \in {<<>>, <<v>>} /\ v.at = n
  BY <1>2
<1>7. NewEvents(tier, period, engine, all) = (((<<>> \o a) \o b) \o c) \o d
  <2>1. a = <<>> \o a
    <3> HIDE DEF a
    <3>1. CASE a = <<>>
      BY <3>1
    <3>2. CASE a = <<p>>
      BY <3>2
    <3> QED BY <1>3, <3>1, <3>2
  <2> QED BY <2>1 DEF NewEvents
<1> DEFINE S == {p, q, u, v}
           w == <<>> \o a
           x == w \o b
           y == x \o c
           z == y \o d
<1>8. p \in S /\ q \in S /\ u \in S /\ v \in S
  OBVIOUS
<1> HIDE DEF a, b, c, d, n, S
<1>9. w \in Seq(S) /\ AllAt(w, n)
  <2>1. <<>> \in Seq(S) /\ AllAt(<<>>, n)
    BY DEF AllAt
  <2>2. a = <<>> \/ a = <<p>>
    BY <1>3
  <2> QED BY <1>3, <1>8, <2>1, <2>2, OneAfter DEF w
<1> HIDE DEF w
<1>10. x \in Seq(S) /\ AllAt(x, n)
  <2>1. b = <<>> \/ b = <<q>>
    BY <1>4
  <2> QED BY <1>4, <1>8, <1>9, <2>1, OneAfter DEF x
<1> HIDE DEF x
<1>11. y \in Seq(S) /\ AllAt(y, n)
  <2>1. c = <<>> \/ c = <<u>>
    BY <1>5
  <2> QED BY <1>5, <1>8, <1>10, <2>1, OneAfter DEF y
<1> HIDE DEF y
<1>12. z \in Seq(S) /\ AllAt(z, n)
  <2>1. d = <<>> \/ d = <<v>>
    BY <1>6
  <2> QED BY <1>6, <1>8, <1>11, <2>1, OneAfter DEF z
<1>13. AllAt(z, n) /\ \E T : z \in Seq(T)
  BY <1>12
<1> QED BY <1>7, <1>13 DEF w, x, y, z, n

-----------------------------------------------------------------------------
AnchorAt(f, tier, i, events) ==
  IF events[i].status # "CONFIRMED" THEN f[i - 1]
  ELSE IF tier = "swing" THEN R!Anchored(f[i - 1], events[i])
  ELSE R!Faced(f[i - 1], events[i])

LEMMA AnchoredOneByOne ==
  ASSUME NEW tier, NEW e, NEW events, Len(events) \in Nat
  PROVE  \E f : /\ f[0] = e
                /\ \A i \in 1..Len(events) : f[i] = AnchorAt(f, tier, i, events)
                /\ R!AnchoredBy(tier, e, events) = f[Len(events)]
<1> DEFINE Goes(f, i) == IF i = 0 THEN e ELSE AnchorAt(f, tier, i, events)
           Is(f, n) == f = [i \in 0..n |-> Goes(f, i)]
           Bad == {n \in Nat : ~ \E f : Is(f, n)}
<1>1. Bad = {}
  <2> SUFFICES ASSUME Bad # {} PROVE FALSE
    OBVIOUS
  <2>1. PICK n \in Bad : \A m \in Bad : n <= m
    BY LeastOf
  <2>2. CASE n = 0
    <3>1. Is([i \in 0..0 |-> e], 0)
      OBVIOUS
    <3> QED BY <2>1, <2>2, <3>1
  <2>3. CASE n # 0
    <3>1. n \in Nat /\ n - 1 \in Nat /\ n - 1 \notin Bad
      <4>1. n \in Nat
        BY <2>1
      <4> HIDE DEF Bad
      <4>2. n - 1 \in Nat /\ ~(n <= n - 1)
        BY <2>3, <4>1
      <4> QED BY <2>1, <4>1, <4>2
    <3>2. PICK g : Is(g, n - 1)
      BY <3>1
    <3> DEFINE f == [i \in 0..n |-> IF i < n THEN g[i] ELSE Goes(g, n)]
    <3>3. ASSUME NEW i \in 0..n PROVE f[i] = Goes(f, i)
      <4>1. i # 0 => i - 1 \in 0..n /\ i - 1 < n
        BY <3>1
      <4>2. i # 0 => f[i - 1] = g[i - 1]
        BY <4>1
      <4>3. Goes(f, i) = Goes(g, i)
        BY <4>2 DEF AnchorAt
      <4>4. f[i] = Goes(g, i)
        <5>1. CASE i < n
          <6>1. i \in 0..(n - 1) /\ f[i] = g[i]
            BY <3>1, <5>1
          <6> HIDE DEF f, Goes
          <6> QED BY <3>2, <6>1
        <5>2. CASE ~(i < n)
          <6>1. i = n
            BY <3>1, <5>2
          <6> QED BY <5>2, <6>1
        <5> QED BY <5>1, <5>2
      <4> QED BY <4>3, <4>4
    <3>4. Is(f, n)
      <4> HIDE DEF Goes
      <4>1. f = [i \in 0..n |-> f[i]]
        OBVIOUS
      <4> HIDE DEF f
      <4> QED BY <3>3, <4>1
    <3> QED BY <2>1, <3>4
  <2> QED BY <2>2, <2>3
<1>2. \E f : Is(f, Len(events))
  BY <1>1
<1> DEFINE After == CHOOSE f : Is(f, Len(events))
<1>3. Is(After, Len(events))
  BY <1>2
<1>4. R!AnchoredBy(tier, e, events) = After[Len(events)]
  BY DEF R!AnchoredBy, AnchorAt
<1> HIDE DEF After
<1>5. After[0] = e
  BY <1>3
<1>6. \A i \in 1..Len(events) : After[i] = AnchorAt(After, tier, i, events)
  BY <1>3
<1> QED BY <1>4, <1>5, <1>6

\* Nothing but the anchors differs.
SameButAnchors(e, g) ==
  /\ IsRange(g) /\ g.state = e.state /\ g.direction = e.direction /\ g.boundary = e.boundary
  /\ g.extreme = e.extreme /\ g.states = e.states /\ g.transitions = e.transitions

LEMMA AnchorMoves ==
  ASSUME NEW e, NEW from \in Nat, NEW n \in Nat, from <= n, IsRange(e),
         AnchorsFrom(e, from, n + 1), NEW v, v.at = n + 1
  PROVE  /\ SameButAnchors(e, R!Anchored(e, v)) /\ AnchorsFrom(R!Anchored(e, v), from, n + 1)
         /\ e.swing # None => /\ SameButAnchors(e, R!Faced(e, v))
                              /\ AnchorsFrom(R!Faced(e, v), from, n + 1)
                              /\ R!Faced(e, v).swing = e.swing
<1>1. n + 1 \in (from + 1)..(n + 1)
  OBVIOUS
<1> DEFINE g == R!Anchored(e, v)
           h == R!Faced(e, v)
<1>2. /\ SameButAnchors(e, g) /\ g.swing = v
      /\ g.internal = IF e.swing # None /\ e.swing.type = v.type THEN e.internal ELSE None
  BY DEF R!Anchored, SameButAnchors, IsRange, RangeFields
<1>3. AnchorsFrom(g, from, n + 1)
  <2> HIDE DEF g
  <2> QED BY <1>1, <1>2 DEF AnchorsFrom, AnchoredIn
<1>4. /\ SameButAnchors(e, h) /\ h.swing = e.swing
      /\ \/ h.internal = e.internal
         \/ h.internal = v /\ v.type = R!Facing(e.swing.type)
  BY DEF R!Faced, SameButAnchors, IsRange, RangeFields
<1>5. e.swing # None => AnchorsFrom(h, from, n + 1)
  <2> HIDE DEF h
  <2> QED BY <1>1, <1>4 DEF AnchorsFrom, AnchoredIn
<1> QED BY <1>2, <1>3, <1>4, <1>5

\* What a tier confirms on a bar leaves the anchors after the last end and not after the bar.
LEMMA TierAnchors ==
  ASSUME NEW e, NEW from \in Nat, NEW n \in Nat, from <= n, IsRange(e),
         AnchorsFrom(e, from, n + 1), NEW events, AllAt(events, n + 1),
         NEW tier, tier = "swing" \/ e.swing # None
  PROVE  LET g == R!AnchoredBy(tier, e, events)
         IN SameButAnchors(e, g) /\ AnchorsFrom(g, from, n + 1)
<1> DEFINE m == Len(events)
           Kept(g) == /\ SameButAnchors(e, g) /\ AnchorsFrom(g, from, n + 1)
                      /\ tier # "swing" => g.swing = e.swing
<1>1. m \in Nat /\ \A i \in 1..m : events[i].at = n + 1
  BY DEF AllAt
<1>2. PICK f : /\ f[0] = e
               /\ \A i \in 1..m : f[i] = AnchorAt(f, tier, i, events)
               /\ R!AnchoredBy(tier, e, events) = f[m]
  BY <1>1, AnchoredOneByOne
<1>3. Kept(f[0])
  BY <1>2 DEF SameButAnchors
<1>4. ASSUME NEW i \in 1..m, Kept(f[i - 1]) PROVE Kept(f[i])
  <2> DEFINE g == f[i - 1]
             v == events[i]
  <2>1. v.at = n + 1 /\ f[i] = AnchorAt(f, tier, i, events)
    BY <1>1, <1>2
  <2>2. IsRange(g) /\ AnchorsFrom(g, from, n + 1) /\ SameButAnchors(e, g)
    BY <1>4 DEF SameButAnchors
  <2>3. /\ SameButAnchors(g, R!Anchored(g, v)) /\ AnchorsFrom(R!Anchored(g, v), from, n + 1)
        /\ g.swing # None => /\ SameButAnchors(g, R!Faced(g, v))
                             /\ AnchorsFrom(R!Faced(g, v), from, n + 1)
                             /\ R!Faced(g, v).swing = g.swing
    BY <2>1, <2>2, AnchorMoves
  <2>4. tier # "swing" => g.swing # None /\ g.swing = e.swing
    BY <1>4
  <2>5. f[i] = g \/ (tier = "swing" /\ f[i] = R!Anchored(g, v)) \/ (tier # "swing" /\ f[i] = R!Faced(g, v))
    BY <2>1 DEF AnchorAt
  <2> HIDE DEF g, v
  <2> QED BY <1>4, <2>2, <2>3, <2>4, <2>5 DEF SameButAnchors, g
<1> HIDE DEF Kept
<1> DEFINE Bad == {i \in 0..m : ~Kept(f[i])}
<1>5. Bad = {}
  <2> SUFFICES ASSUME Bad # {} PROVE FALSE
    OBVIOUS
  <2>1. Bad \subseteq Nat
    BY <1>1
  <2>2. PICK i \in Bad : \A k \in Bad : i <= k
    BY <2>1, LeastOf
  <2>3. i \in 0..m /\ ~Kept(f[i]) /\ i # 0
    BY <1>3, <2>2
  <2>4. i \in 1..m /\ i - 1 \in 0..m /\ ~(i <= i - 1)
    BY <1>1, <2>3
  <2>5. Kept(f[i - 1])
    BY <2>2, <2>4
  <2> QED BY <1>4, <2>3, <2>4, <2>5
<1>6. Kept(f[m])
  <2>1. m \in 0..m
    BY <1>1
  <2> QED BY <1>5, <2>1
<1> QED BY <1>2, <1>6 DEF Kept

LEMMA AnchorsUpdated ==
  ASSUME NEW e, NEW from \in Nat, NEW n \in Nat, from <= n, IsRange(e), AnchorsFrom(e, from, n),
         NEW swings, AllAt(swings, n + 1), NEW internals, AllAt(internals, n + 1)
  PROVE  LET g == R!UpdateAnchors(e, swings, internals)
         IN SameButAnchors(e, g) /\ AnchorsFrom(g, from, n + 1)
<1> DEFINE g == R!AnchoredBy("swing", e, swings)
           h == R!AnchoredBy("internal", g, internals)
<1>1. AnchorsFrom(e, from, n + 1)
  BY DEF AnchorsFrom, AnchoredIn
<1>2. SameButAnchors(e, g) /\ AnchorsFrom(g, from, n + 1)
  BY <1>1, TierAnchors
<1>3. R!UpdateAnchors(e, swings, internals) = IF g.swing = None THEN g ELSE h
  BY DEF R!UpdateAnchors
<1> HIDE DEF g
<1>4. g.swing # None => SameButAnchors(g, h) /\ AnchorsFrom(h, from, n + 1)
  <2>1. IsRange(g)
    BY <1>2 DEF SameButAnchors
  <2> QED BY <1>2, <2>1, TierAnchors
<1> HIDE DEF h
<1> QED BY <1>2, <1>3, <1>4 DEF SameButAnchors

-----------------------------------------------------------------------------
(* The records of a range.                                                 *)

\* The record and the move that announce a state.
Entry(e, state, at) ==
  [state |-> state, at |-> at, direction |-> e.direction, swing |-> e.swing, internal |-> e.internal]

Step(e, state, at) == [from |-> e.state, to |-> state, at |-> at]

LEMMA Announces ==
  ASSUME NEW e, IsRange(e), NEW state, NEW at
  PROVE  LET g == R!Announced(e, state, at)
         IN /\ IsRange(g) /\ g.states = Append(e.states, Entry(e, state, at))
            /\ g.state = e.state /\ g.swing = e.swing /\ g.internal = e.internal
            /\ g.direction = e.direction /\ g.boundary = e.boundary /\ g.extreme = e.extreme
            /\ g.transitions = e.transitions
BY DEF R!Announced, IsRange, RangeFields, Entry

LEMMA Enterings ==
  ASSUME NEW e, IsRange(e), NEW state, NEW at
  PROVE  LET g == R!Entered(e, state, at)
         IN /\ IsRange(g) /\ g.states = Append(e.states, Entry(e, state, at))
            /\ g.state = state /\ g.swing = e.swing /\ g.internal = e.internal
            /\ g.direction = e.direction /\ g.boundary = e.boundary /\ g.extreme = e.extreme
            /\ g.transitions = Append(e.transitions, Step(e, state, at))
<1> DEFINE f == [e EXCEPT !.state = state, !.transitions = Append(@, Step(e, state, at))]
<1>1. /\ IsRange(f) /\ f.states = e.states
      /\ f.state = state /\ f.swing = e.swing /\ f.internal = e.internal
      /\ f.direction = e.direction /\ f.boundary = e.boundary /\ f.extreme = e.extreme
      /\ f.transitions = Append(e.transitions, Step(e, state, at))
  BY DEF IsRange, RangeFields
<1>2. R!Entered(e, state, at) = R!Announced(f, state, at)
  BY DEF R!Entered, Step
<1> HIDE DEF f
<1>3. Entry(f, state, at) = Entry(e, state, at)
  BY <1>1 DEF Entry
<1> QED BY <1>1, <1>2, <1>3, Announces

\* Before a break, and in a leg, a record may be added.
RestsFrom(e, r, n) ==
  /\ IsSeq(e.states) /\ \A i \in 1..Len(e.states) : RecordRight(e.states, i)
  /\ r \in 0..Len(e.states) /\ LastEnd(e.states, r, Len(e.states))
  /\ Resting(e.states, r, Len(e.states)) /\ EndedAt(e.states, r) \in 0..n
  /\ AnchoredIn(e.swing, e.internal, EndedAt(e.states, r), n)

LegFromRecord(e, r, b, n) ==
  /\ IsSeq(e.states) /\ \A i \in 1..Len(e.states) : RecordRight(e.states, i)
  /\ r \in 0..Len(e.states) /\ LastEnd(e.states, r, Len(e.states))
  /\ b \in 1..Len(e.states) /\ FirstOfLeg(e.states, r, b, Len(e.states))
  /\ EndedAt(e.states, r) \in 0..n
  /\ AnchoredIn(e.swing, e.internal, EndedAt(e.states, r), e.states[b].at)

LEMMA RestGoesOn ==
  ASSUME NEW e, NEW r, NEW n, RestsFrom(e, r, n), NEW f, NEW state,
         f.states = Append(e.states, Entry(e, state, n)),
         f.swing = e.swing, f.internal = e.internal
  PROVE  /\ state = "CONSOLIDATION" => RestsFrom(f, r, n)
         /\ state \notin {"CONSOLIDATION", "REVERSAL"} =>
              LegFromRecord(f, r, Len(f.states), n)
<1> DEFINE rec == Entry(e, state, n)
           s == e.states
           t == f.states
<1>1. rec.state = state /\ rec.at = n /\ rec.swing = e.swing /\ rec.internal = e.internal
  BY DEF Entry
<1> HIDE DEF rec
<1>2. Follows(s, r, rec)
  BY <1>1 DEF Follows, RestsFrom
<1>3. /\ IsSeq(s) /\ (\A i \in 1..Len(s) : RecordRight(s, i)) /\ r \in 0..Len(s)
      /\ LastEnd(s, r, Len(s)) /\ t = Append(s, rec)
  BY DEF RestsFrom, rec
<1> HIDE DEF s, t
<1>4. Added(s, r, rec, t)
  BY <1>2, <1>3, RecordAdded
<1>5. r \in 0..Len(t) /\ Len(t) \in 1..Len(t)
  <2>1. r \in 0..Len(s)
    BY DEF RestsFrom, s
  <2> QED BY <1>4, <2>1 DEF Added
<1> QED BY <1>1, <1>4, <1>5 DEF Added, RestsFrom, LegFromRecord, s, t

LEMMA LegGoesOn ==
  ASSUME NEW e, NEW r, NEW b, NEW n, LegFromRecord(e, r, b, n), NEW f, NEW state,
         NEW g, g.swing = e.swing, g.internal = e.internal, NEW at,
         f.states = Append(e.states, Entry(g, state, at)),
         state # "CONSOLIDATION"
  PROVE  /\ state # "REVERSAL" /\ f.swing = e.swing /\ f.internal = e.internal
              => LegFromRecord(f, r, b, n)
         /\ state = "REVERSAL" =>
              /\ IsSeq(f.states) /\ \A i \in 1..Len(f.states) : RecordRight(f.states, i)
              /\ LastEnd(f.states, Len(f.states), Len(f.states))
              /\ Len(f.states) \in 0..Len(f.states)
              /\ Resting(f.states, Len(f.states), Len(f.states))
              /\ EndedAt(f.states, Len(f.states)) = at
<1> DEFINE rec == Entry(g, state, at)
           s == e.states
           t == f.states
<1>1. rec.state = state /\ rec.at = at /\ rec.swing = e.swing /\ rec.internal = e.internal
  BY DEF Entry
<1> HIDE DEF rec
<1>2. Follows(s, r, rec)
  BY <1>1 DEF Follows, LegFromRecord
<1>3. /\ IsSeq(s) /\ (\A i \in 1..Len(s) : RecordRight(s, i)) /\ r \in 0..Len(s)
      /\ LastEnd(s, r, Len(s)) /\ t = Append(s, rec)
  BY DEF LegFromRecord, rec
<1> HIDE DEF s, t
<1>4. Added(s, r, rec, t)
  BY <1>2, <1>3, RecordAdded
<1>5. /\ r \in 0..Len(t) /\ b \in 1..Len(t) /\ b \in 1..Len(s)
      /\ Len(t) \in 0..Len(t) /\ Len(t) \in Nat /\ Len(t) # 0
  <2>1. r \in 0..Len(s) /\ b \in 1..Len(s)
    BY DEF LegFromRecord, s
  <2> QED BY <1>4, <2>1 DEF Added
<1>6. ASSUME state # "REVERSAL", f.swing = e.swing, f.internal = e.internal
      PROVE  LegFromRecord(f, r, b, n)
  <2>1. FirstOfLeg(s, r, b, Len(s)) /\ EndedAt(s, r) \in 0..n
        /\ AnchoredIn(e.swing, e.internal, EndedAt(s, r), s[b].at)
    BY DEF LegFromRecord, s
  <2> QED BY <1>1, <1>4, <1>5, <1>6, <2>1 DEF Added, LegFromRecord, t
<1>7. state = "REVERSAL" =>
        LastEnd(t, Len(t), Len(t)) /\ Resting(t, Len(t), Len(t)) /\ EndedAt(t, Len(t)) = at
  BY <1>1, <1>4, <1>5, EndIsLast DEF Added
<1> QED BY <1>4, <1>5, <1>6, <1>7 DEF Added, t

-----------------------------------------------------------------------------
(* The extreme of a leg.                                                   *)

LEMMA TipsAreBodies ==
  /\ \A d, bar : R!LegTip(d, bar) = BodyTip(Leading(d), bar)
  /\ \A bar : R!LegTip("UP", bar) = R!BodyHigh(bar) /\ R!LegTip("DOWN", bar) = R!BodyLow(bar)
  /\ \A d : \A bar \in Bars(Int) : R!LegTip(d, bar) \in Int
<1>1. \A bar : R!BodyHigh(bar) = BodyHigh(bar) /\ R!BodyLow(bar) = BodyLow(bar)
  BY DEF R!BodyHigh, BodyHigh, R!BodyLow, BodyLow, R!Larger, Larger, R!Smaller, Smaller
<1>2. \A d, bar : R!LegTip(d, bar) = BodyTip(Leading(d), bar)
  BY <1>1 DEF R!LegTip, BodyTip, Leading
<1>3. \A bar \in Bars(Int) : BodyHigh(bar) \in Int /\ BodyLow(bar) \in Int
  BY DEF Bars, BodyHigh, BodyLow, Larger, Smaller
<1>4. \A d : \A bar \in Bars(Int) : R!LegTip(d, bar) \in Int
  BY <1>1, <1>3 DEF R!LegTip
<1> QED BY <1>1, <1>2, <1>4 DEF R!LegTip

\* A leg begins with its first bar as its extreme.
LEMMA LegBegins ==
  ASSUME NEW e, NEW all, NEW n \in Nat, n # 0, e.extreme \in Int,
         e.extreme = TipOf(e, all[n]), e.state = "EXPANSION"
  PROVE  LegSince(e, all, n, n)
<1>1. n..n = {n} /\ n \in 1..n
  OBVIOUS
<1>2. TipBars(e, all, n, n) = {n}
  BY <1>1 DEF TipBars
<1>3. ~R!Further(e.direction, e.extreme, e.extreme)
  BY DEF R!Further
<1> QED BY <1>1, <1>2, <1>3 DEF LegSince

\* What a bar makes of a leg that it does not end.
NextOfLeg(e, f, bar) ==
  /\ f.direction = e.direction /\ f.boundary = e.boundary
  /\ \/ /\ ~R!Reclaimed(e, bar) /\ R!Further(e.direction, TipOf(e, bar), e.extreme)
        /\ f.extreme = TipOf(e, bar) /\ f.state = "EXPANSION"
     \/ /\ R!Reclaimed(e, bar) \/ ~R!Further(e.direction, TipOf(e, bar), e.extreme)
        /\ f.extreme = e.extreme /\ f.state = "RETRACEMENT"

LEMMA LegLasts ==
  ASSUME NEW e, NEW all, all \in Seq(Bars(Int)), NEW n \in Nat, Len(all) = n + 1,
         NEW began, LegSince(e, all, n, began), NEW f, NextOfLeg(e, f, all[n + 1])
  PROVE  LegSince(f, all, n + 1, began)
<1> DEFINE x == e.extreme
           d == e.direction
           tip == TipOf(e, all[n + 1])
           old == TipBars(e, all, began, n)
           new == TipBars(f, all, began, n + 1)
           Fur(p, q) == R!Further(d, p, q)
<1>1. /\ began \in 1..n /\ began \in Nat /\ began # n + 1 /\ x \in Int
      /\ n + 1 - 1 = n /\ began \in 1..(n + 1)
  BY DEF LegSince
<1>2. \A j : TipOf(f, all[j]) = TipOf(e, all[j])
             /\ R!Reclaimed(f, all[j]) = R!Reclaimed(e, all[j])
  BY DEF NextOfLeg, TipOf, R!Reclaimed
<1>3. ASSUME NEW j \in 1..(n + 1) PROVE TipOf(e, all[j]) \in Int
  <2>1. all[j] \in Bars(Int)
    BY <1>3, ElementOfSeq
  <2> QED BY <2>1, TipsAreBodies DEF TipOf
<1>4. /\ \A j \in old : j \in 1..(n + 1)
      /\ \A j \in new : j \in old \/ (j = n + 1 /\ ~R!Reclaimed(e, all[n + 1]))
      /\ \A j \in old : j \in new
      /\ ~R!Reclaimed(e, all[n + 1]) => n + 1 \in new
      /\ TipBars(f, all, began, n) = old
  <2>1. /\ \A j \in began..n : j \in 1..(n + 1) /\ j \in began..(n + 1)
        /\ \A j \in began..(n + 1) : j \in began..n \/ j = n + 1
        /\ n + 1 \in began..(n + 1)
    BY <1>1
  <2> QED BY <1>1, <1>2, <2>1 DEF TipBars
<1>5. /\ \E j \in old : TipOf(e, all[j]) = x
      /\ \A j \in old : ~Fur(TipOf(e, all[j]), x)
  BY DEF LegSince
<1>6. tip \in Int /\ \A j \in old : TipOf(e, all[j]) \in Int
  <2>1. n + 1 \in 1..(n + 1)
    OBVIOUS
  <2> QED BY <1>3, <1>4, <2>1
<1>7. /\ \A p \in Int : ~Fur(p, p)
      /\ \A p, q \in Int : Fur(p, q) => ~Fur(q, p)
      /\ \A p, q, r \in Int : ~Fur(p, q) /\ Fur(r, q) => Fur(r, p)
  BY DEF R!Further
<1>8. f.direction = d
  BY DEF NextOfLeg
<1>9. HasFurthest(f, all, began, n + 1 - 1)
  <2>1. PICK i \in old : TipOf(e, all[i]) = x
    BY <1>5
  <2>2. TipBars(f, all, began, n + 1 - 1) = old
    BY <1>1, <1>4
  <2> HIDE DEF old
  <2>3. \A j \in old : ~R!Further(f.direction, TipOf(f, all[j]), TipOf(f, all[i]))
    BY <1>2, <1>5, <1>8, <2>1
  <2> QED BY <2>1, <2>2, <2>3 DEF HasFurthest
<1> HIDE DEF old, new, x, d, tip, Fur
<1>10. CASE ~R!Reclaimed(e, all[n + 1]) /\ Fur(tip, x) /\ f.extreme = tip /\ f.state = "EXPANSION"
  <2>1. f.extreme \in Int /\ \E j \in new : TipOf(f, all[j]) = f.extreme
    BY <1>2, <1>4, <1>6, <1>10 DEF tip
  <2>2. ASSUME NEW j \in old PROVE Fur(tip, TipOf(e, all[j]))
    <3>1. ~Fur(TipOf(e, all[j]), x) /\ TipOf(e, all[j]) \in Int
      BY <1>5, <1>6
    <3> QED BY <1>1, <1>6, <1>7, <1>10, <3>1
  <2>3. ASSUME NEW j \in new PROVE ~Fur(TipOf(f, all[j]), f.extreme)
    <3>1. CASE j \in old
      <4>1. Fur(tip, TipOf(e, all[j])) /\ TipOf(e, all[j]) \in Int
        BY <1>6, <2>2, <3>1
      <4>2. ~Fur(TipOf(e, all[j]), tip)
        BY <1>6, <1>7, <4>1
      <4> QED BY <1>2, <1>10, <4>2
    <3>2. CASE j = n + 1
      BY <1>2, <1>6, <1>7, <1>10, <3>2 DEF tip
    <3> QED BY <1>4, <3>1, <3>2
  <2>4. \A j \in TipBars(f, all, began, n + 1 - 1) : Fur(f.extreme, TipOf(f, all[j]))
    BY <1>1, <1>2, <1>4, <1>10, <2>2
  <2> QED BY <1>1, <1>8, <1>9, <1>10, <2>1, <2>3, <2>4 DEF LegSince, new, Fur, d
<1>11. CASE /\ R!Reclaimed(e, all[n + 1]) \/ ~Fur(tip, x)
            /\ f.extreme = x /\ f.state = "RETRACEMENT"
  <2>1. f.extreme \in Int /\ \E j \in new : TipOf(f, all[j]) = f.extreme
    BY <1>1, <1>2, <1>4, <1>5, <1>11
  <2>2. ASSUME NEW j \in new PROVE ~Fur(TipOf(f, all[j]), f.extreme)
    BY <1>2, <1>4, <1>5, <1>11, <2>2 DEF tip
  <2>3. ~(\A j \in TipBars(f, all, began, n + 1 - 1) : Fur(f.extreme, TipOf(f, all[j])))
    <3>1. PICK j \in old : TipOf(e, all[j]) = x
      BY <1>5
    <3>2. ~Fur(f.extreme, TipOf(f, all[j]))
      BY <1>1, <1>2, <1>7, <1>11, <3>1
    <3> QED BY <1>1, <1>4, <3>2
  <2> QED BY <1>1, <1>8, <1>9, <1>11, <2>1, <2>2, <2>3 DEF LegSince, new, Fur, d
<1> QED BY <1>10, <1>11 DEF NextOfLeg, Fur, tip, x, d

\* One move more, which does not end the leg.
LEMMA MovesOn ==
  ASSUME NEW s, IsSeq(s), NEW k, LegFromMove(s, k), NEW move, move.to # "REVERSAL"
  PROVE  LET t == Append(s, move)
         IN IsSeq(t) /\ k \in 1..Len(t) /\ LegFromMove(t, k) /\ t[k] = s[k]
<1> DEFINE t == Append(s, move)
           n == Len(s)
<1>1. /\ n \in Nat /\ IsSeq(t) /\ Len(t) = n + 1 /\ t[n + 1] = move
      /\ \A j \in 1..n : t[j] = s[j]
  BY AppendTo
<1> HIDE DEF t
<1>2. k \in 1..n /\ (k = 1 \/ s[k - 1].to = "REVERSAL") /\ \A j \in k..n : s[j].to # "REVERSAL"
  BY DEF LegFromMove
<1> HIDE DEF n
<1>3. /\ k \in 1..(n + 1) /\ (k # 1 => k - 1 \in 1..n)
      /\ \A j \in k..(n + 1) : (j \in k..n /\ j \in 1..n) \/ j = n + 1
  BY <1>1, <1>2
<1> QED BY <1>1, <1>2, <1>3 DEF LegFromMove, t

\* The first move since a range ended.
LEMMA MovesOff ==
  ASSUME NEW s, IsSeq(s), Len(s) = 0 \/ s[Len(s)].to = "REVERSAL",
         NEW move, move.to # "REVERSAL"
  PROVE  LET t == Append(s, move)
         IN /\ IsSeq(t) /\ Len(t) \in 1..Len(t) /\ LegFromMove(t, Len(t))
            /\ t[Len(t)] = move
<1> DEFINE t == Append(s, move)
           n == Len(s)
<1>1. /\ n \in Nat /\ IsSeq(t) /\ Len(t) = n + 1 /\ t[n + 1] = move
      /\ \A j \in 1..n : t[j] = s[j]
  BY AppendTo
<1> HIDE DEF t
<1>2. n = 0 \/ s[n].to = "REVERSAL"
  OBVIOUS
<1> HIDE DEF n
<1>3. /\ n + 1 \in 1..(n + 1) /\ n + 1 - 1 = n /\ (n # 0 => n \in 1..n) /\ (n = 0 => n + 1 = 1)
      /\ \A j \in (n + 1)..(n + 1) : j = n + 1
  BY <1>1
<1> QED BY <1>1, <1>2, <1>3 DEF LegFromMove, t

-----------------------------------------------------------------------------
(* One more bar.                                                           *)

LEMMA RestIsSound ==
  ASSUME NEW e, NEW r, NEW n \in Nat, RestsFrom(e, r, n), IsRange(e), e.state = "CONSOLIDATION",
         IsSeq(e.transitions),
         Len(e.transitions) = 0 \/ e.transitions[Len(e.transitions)].to = "REVERSAL", NEW all
  PROVE  RangeSound(e, all, n)
<1>1. AnchorsFrom(e, EndedAt(e.states, r), n)
  BY DEF RestsFrom, AnchorsFrom, AnchoredIn
<1>2. RecordsSince(e, r, n)
  BY <1>1 DEF RestsFrom, RecordsSince
<1>3. Logged(e, n)
  BY <1>2 DEF RestsFrom, Logged
<1>4. LegSound(e, all, n)
  BY DEF LegSound
<1> QED BY <1>3, <1>4 DEF RangeSound

LEMMA LegIsSound ==
  ASSUME NEW e, NEW r, NEW b, NEW n \in Nat, LegFromRecord(e, r, b, n), IsRange(e),
         e.state \in {"EXPANSION", "RETRACEMENT"}, IsSeq(e.transitions), NEW all,
         NEW k, k \in 1..Len(e.transitions), LegFromMove(e.transitions, k),
         LegSince(e, all, n, e.transitions[k].at)
  PROVE  RangeSound(e, all, n)
<1>1. e.state # "CONSOLIDATION"
  OBVIOUS
<1>2. RecordsSince(e, r, n)
  BY <1>1 DEF LegFromRecord, RecordsSince
<1>3. Logged(e, n)
  BY <1>2 DEF LegFromRecord, Logged
<1>4. LegSound(e, all, n)
  BY <1>1 DEF LegSound
<1> QED BY <1>3, <1>4 DEF RangeSound

\* The bar that may break a range with both its anchors.
LEMMA BreakSound ==
  ASSUME NEW all, all \in Seq(Bars(Int)), NEW n \in Nat, n # 0, Len(all) = n,
         NEW e, NEW r, RestsFrom(e, r, n), IsRange(e), e.state = "CONSOLIDATION",
         IsSeq(e.transitions),
         Len(e.transitions) = 0 \/ e.transitions[Len(e.transitions)].to = "REVERSAL"
  PROVE  RangeSound(R!Break(e, all[n], n), all, n)
<1> DEFINE bar == all[n]
<1>1. bar \in Bars(Int)
  BY ElementOfSeq
<1>2. ASSUME NEW d, NEW boundary, NEW extreme, extreme = R!LegTip(d, bar)
      PROVE  RangeSound(R!LegFrom(e, d, boundary, extreme, n), all, n)
  <2> DEFINE g == [e EXCEPT !.direction = d, !.boundary = boundary, !.extreme = extreme]
             f == R!Entered(g, "EXPANSION", n)
             move == Step(g, "EXPANSION", n)
  <2>1. /\ IsRange(g) /\ g.states = e.states /\ g.transitions = e.transitions
        /\ g.swing = e.swing /\ g.internal = e.internal /\ g.state = e.state
        /\ g.direction = d /\ g.extreme = extreme
    BY DEF IsRange, RangeFields
  <2>2. R!LegFrom(e, d, boundary, extreme, n) = f
    BY DEF R!LegFrom
  <2>3. RestsFrom(g, r, n)
    BY <2>1 DEF RestsFrom
  <2> HIDE DEF g
  <2>4. /\ IsRange(f) /\ f.states = Append(g.states, Entry(g, "EXPANSION", n))
        /\ f.state = "EXPANSION" /\ f.swing = g.swing /\ f.internal = g.internal
        /\ f.direction = d /\ f.extreme = extreme
        /\ f.transitions = Append(g.transitions, move)
    BY <2>1, Enterings
  <2> HIDE DEF f
  <2>5. LegFromRecord(f, r, Len(f.states), n)
    BY <2>3, <2>4, RestGoesOn
  <2>6. move.to = "EXPANSION" /\ move.at = n
    BY DEF Step
  <2> HIDE DEF move
  <2>7. /\ IsSeq(f.transitions) /\ Len(f.transitions) \in 1..Len(f.transitions)
        /\ LegFromMove(f.transitions, Len(f.transitions))
        /\ f.transitions[Len(f.transitions)] = move
    BY <2>1, <2>4, <2>6, MovesOff
  <2>8. f.extreme \in Int /\ f.extreme = TipOf(f, bar)
    BY <1>1, <1>2, <2>4, TipsAreBodies DEF TipOf
  <2>9. LegSince(f, all, n, n)
    BY <2>4, <2>8, LegBegins
  <2>10. RangeSound(f, all, n)
    BY <2>4, <2>5, <2>6, <2>7, <2>9, LegIsSound
  <2> QED BY <2>2, <2>10
<1>3. RangeSound(e, all, n)
  BY RestIsSound
<1>4. \/ R!Break(e, bar, n) = e
      \/ \E boundary : R!Break(e, bar, n) = R!LegFrom(e, "UP", boundary, R!BodyHigh(bar), n)
      \/ \E boundary : R!Break(e, bar, n) = R!LegFrom(e, "DOWN", boundary, R!BodyLow(bar), n)
  BY DEF R!Break
<1> QED BY <1>2, <1>3, <1>4, TipsAreBodies

LEMMA EstablishSound ==
  ASSUME NEW all, all \in Seq(Bars(Int)), NEW n \in Nat, n # 0, Len(all) = n,
         NEW e, NEW r, RestsFrom(e, r, n), IsRange(e), e.state = "CONSOLIDATION",
         IsSeq(e.transitions),
         Len(e.transitions) = 0 \/ e.transitions[Len(e.transitions)].to = "REVERSAL"
  PROVE  RangeSound(R!Establish(e, all[n], n), all, n)
<1> DEFINE g == [e EXCEPT !.announced = TRUE]
           f == R!Announced(g, "CONSOLIDATION", n)
           known == IF e.announced THEN e ELSE f
<1>1. /\ IsRange(g) /\ g.states = e.states /\ g.transitions = e.transitions
      /\ g.swing = e.swing /\ g.internal = e.internal /\ g.state = e.state
  BY DEF IsRange, RangeFields
<1>2. R!Establish(e, all[n], n) = R!Break(known, all[n], n)
  BY DEF R!Establish
<1>3. RestsFrom(g, r, n)
  BY <1>1 DEF RestsFrom
<1> HIDE DEF g
<1>4. /\ IsRange(f) /\ f.states = Append(g.states, Entry(g, "CONSOLIDATION", n))
      /\ f.state = g.state /\ f.swing = g.swing /\ f.internal = g.internal
      /\ f.transitions = g.transitions
  BY <1>1, Announces
<1> HIDE DEF f
<1>5. RestsFrom(f, r, n)
  BY <1>3, <1>4, RestGoesOn
<1>6. RangeSound(R!Break(e, all[n], n), all, n) /\ RangeSound(R!Break(f, all[n], n), all, n)
  BY <1>1, <1>4, <1>5, BreakSound
<1> QED BY <1>2, <1>6

LEMMA RestingBarSound ==
  ASSUME NEW all, all \in Seq(Bars(Int)), NEW n \in Nat, Len(all) = n + 1,
         NEW e, RangeSound(e, all, n), e.state = "CONSOLIDATION",
         NEW swings, AllAt(swings, n + 1), NEW internals, AllAt(internals, n + 1)
  PROVE  RangeSound(R!Ranged(e, all, swings, internals), all, n + 1)
<1> DEFINE g == R!UpdateAnchors(e, swings, internals)
<1>1. PICK r \in 0..Len(e.states) : RecordsSince(e, r, n)
  BY DEF RangeSound, Logged
<1> DEFINE from == EndedAt(e.states, r)
<1>2. /\ LastEnd(e.states, r, Len(e.states)) /\ from \in 0..n
      /\ Resting(e.states, r, Len(e.states)) /\ AnchorsFrom(e, from, n)
  BY <1>1 DEF RecordsSince
<1>3. from \in Nat /\ from <= n /\ from \in 0..(n + 1) /\ n + 1 \in Nat /\ n + 1 # 0
  BY <1>2
<1>4. IsRange(e) /\ IsSeq(e.states) /\ \A i \in 1..Len(e.states) : RecordRight(e.states, i)
  BY DEF RangeSound, Logged
<1>5. /\ IsSeq(e.transitions)
      /\ Len(e.transitions) = 0 \/ e.transitions[Len(e.transitions)].to = "REVERSAL"
  BY DEF RangeSound, LegSound
<1> HIDE DEF from
<1>6. SameButAnchors(e, g) /\ AnchorsFrom(g, from, n + 1)
  BY <1>2, <1>3, <1>4, AnchorsUpdated
<1>7. R!Ranged(e, all, swings, internals) =
        IF g.swing = None \/ g.internal = None THEN g ELSE R!Establish(g, all[n + 1], n + 1)
  BY DEF R!Ranged, R!Last
<1> HIDE DEF g
<1>8. /\ IsRange(g) /\ g.state = "CONSOLIDATION" /\ g.states = e.states
      /\ g.transitions = e.transitions
  BY <1>6 DEF SameButAnchors
<1>9. CASE g.swing = None \/ g.internal = None
  <2>1. RecordsSince(g, r, n + 1)
    BY <1>2, <1>3, <1>6, <1>8 DEF RecordsSince, from
  <2>2. Logged(g, n + 1)
    BY <1>4, <1>8, <2>1 DEF Logged
  <2>3. LegSound(g, all, n + 1)
    BY <1>5, <1>8 DEF LegSound
  <2> QED BY <1>7, <1>8, <1>9, <2>2, <2>3 DEF RangeSound
<1>10. CASE ~(g.swing = None \/ g.internal = None)
  <2>1. AnchoredIn(g.swing, g.internal, from, n + 1)
    BY <1>6, <1>10 DEF AnchorsFrom
  <2>2. RestsFrom(g, r, n + 1)
    BY <1>2, <1>3, <1>4, <1>8, <2>1 DEF RestsFrom, from
  <2>3. RangeSound(R!Establish(g, all[n + 1], n + 1), all, n + 1)
    BY <1>3, <1>5, <1>8, <2>2, EstablishSound
  <2> QED BY <1>7, <1>10, <2>3
<1> QED BY <1>9, <1>10

LEMMA ReversalSound ==
  ASSUME NEW all, NEW n \in Nat, NEW e, NEW r, NEW b, NEW m \in Nat, LegFromRecord(e, r, b, m),
         IsRange(e), IsSeq(e.transitions)
  PROVE  RangeSound(R!EnterReversal(e, n), all, n)
<1> DEFINE g == R!Entered(e, "REVERSAL", n)
           f == R!EnterReversal(e, n)
           z == Len(f.states)
           move == Step(e, "REVERSAL", n)
<1>1. /\ g.states = Append(e.states, Entry(e, "REVERSAL", n))
      /\ g.transitions = Append(e.transitions, move)
  BY Enterings
<1>2. /\ IsRange(f) /\ f.states = g.states /\ f.transitions = g.transitions
      /\ f.state = "CONSOLIDATION" /\ f.swing = None
  BY DEF R!EnterReversal, R!NewRange, IsRange, RangeFields
<1>3. move.to = "REVERSAL"
  BY DEF Step
<1> HIDE DEF f, g, move
<1>4. /\ IsSeq(f.states) /\ \A i \in 1..Len(f.states) : RecordRight(f.states, i)
      /\ LastEnd(f.states, z, z) /\ z \in 0..z /\ Resting(f.states, z, z)
      /\ EndedAt(f.states, z) = n
  <2>1. f.states = Append(e.states, Entry(e, "REVERSAL", n))
    BY <1>1, <1>2
  <2> QED BY <2>1, LegGoesOn
<1>5. n \in 0..n
  OBVIOUS
<1>6. AnchorsFrom(f, n, n)
  BY <1>2 DEF AnchorsFrom
<1>7. RecordsSince(f, z, n)
  BY <1>2, <1>4, <1>5, <1>6 DEF RecordsSince
<1>8. Logged(f, n)
  BY <1>4, <1>7 DEF Logged
<1>9. LegSound(f, all, n)
  <2>1. f.transitions = Append(e.transitions, move)
    BY <1>1, <1>2
  <2>2. /\ IsSeq(f.transitions) /\ Len(f.transitions) = Len(e.transitions) + 1
        /\ f.transitions[Len(e.transitions) + 1] = move
    BY <2>1, AppendTo
  <2> QED BY <1>2, <1>3, <2>2 DEF LegSound
<1> QED BY <1>2, <1>8, <1>9 DEF RangeSound, f

LEMMA LegBarSound ==
  ASSUME NEW all, all \in Seq(Bars(Int)), NEW n \in Nat, Len(all) = n + 1,
         NEW e, RangeSound(e, all, n), e.state # "CONSOLIDATION"
  PROVE  RangeSound(R!AdvanceLeg(e, all), all, n + 1)
<1> DEFINE bar == all[n + 1]
           tip == R!LegTip(e.direction, bar)
           x == [e EXCEPT !.extreme = tip]
           ends == R!Reclaimed(e, bar) /\ R!InefficiencyConfirms(e, all)
           goes == ~R!Reclaimed(e, bar) /\ R!Further(e.direction, tip, e.extreme)
           f == R!AdvanceLeg(e, all)
<1>1. PICK r \in 0..Len(e.states) : RecordsSince(e, r, n)
  BY DEF RangeSound, Logged
<1>2. PICK b : LegFromRecord(e, r, b, n)
  <2>1. IsSeq(e.states) /\ \A i \in 1..Len(e.states) : RecordRight(e.states, i)
    BY DEF RangeSound, Logged
  <2> QED BY <1>1, <2>1 DEF RecordsSince, LegFromRecord
<1>3. PICK k \in 1..Len(e.transitions) :
        LegFromMove(e.transitions, k) /\ LegSince(e, all, n, e.transitions[k].at)
  BY DEF RangeSound, LegSound
<1>4. /\ IsRange(e) /\ IsSeq(e.transitions) /\ e.state \in {"EXPANSION", "RETRACEMENT"}
  BY DEF RangeSound, LegSound
<1>5. f = IF ends THEN R!EnterReversal(e, n + 1)
          ELSE IF goes THEN R!EnterUnless(x, "EXPANSION", n + 1)
          ELSE R!EnterUnless(e, "RETRACEMENT", n + 1)
  BY DEF R!AdvanceLeg, R!Last
<1>6. tip = TipOf(e, bar)
  BY TipsAreBodies DEF TipOf
<1>7. /\ IsRange(x) /\ x.states = e.states /\ x.transitions = e.transitions
      /\ x.swing = e.swing /\ x.internal = e.internal /\ x.state = e.state
      /\ x.direction = e.direction /\ x.boundary = e.boundary /\ x.extreme = tip
  BY <1>4 DEF IsRange, RangeFields
<1> HIDE DEF tip, x, f
<1>8. ASSUME NEW y, NEW state \in {"EXPANSION", "RETRACEMENT"},
             IsRange(y), y.states = e.states, y.transitions = e.transitions,
             y.swing = e.swing, y.internal = e.internal, y.state = e.state,
             y.direction = e.direction, y.boundary = e.boundary,
             \/ ~R!Reclaimed(e, bar) /\ R!Further(e.direction, TipOf(e, bar), e.extreme)
                /\ y.extreme = TipOf(e, bar) /\ state = "EXPANSION"
             \/ (R!Reclaimed(e, bar) \/ ~R!Further(e.direction, TipOf(e, bar), e.extreme))
                /\ y.extreme = e.extreme /\ state = "RETRACEMENT"
      PROVE  RangeSound(R!EnterUnless(y, state, n + 1), all, n + 1)
  <2> DEFINE h == R!EnterUnless(y, state, n + 1)
             g == R!Entered(y, state, n + 1)
             move == Step(y, state, n + 1)
  <2>1. h = IF y.state = state THEN y ELSE g
    BY DEF R!EnterUnless
  <2>2. /\ IsRange(g) /\ g.states = Append(y.states, Entry(y, state, n + 1))
        /\ g.state = state /\ g.swing = y.swing /\ g.internal = y.internal
        /\ g.direction = y.direction /\ g.boundary = y.boundary /\ g.extreme = y.extreme
        /\ g.transitions = Append(y.transitions, move)
    <3>1. IsRange(y)
      BY <1>8
    <3> QED BY <3>1, Enterings
  <2>3. move.to = state
    BY DEF Step
  <2> HIDE DEF h, g, move
  <2>4. LegFromRecord(y, r, b, n) /\ state # "CONSOLIDATION" /\ state # "REVERSAL"
    BY <1>2, <1>8 DEF LegFromRecord
  <2>5. LegFromRecord(g, r, b, n)
    BY <2>2, <2>4, LegGoesOn
  <2>6. LegFromRecord(h, r, b, n) /\ IsRange(h) /\ h.state = state
        /\ h.direction = e.direction /\ h.boundary = e.boundary /\ h.extreme = y.extreme
    BY <1>8, <2>1, <2>2, <2>4, <2>5
  <2>7. LegFromRecord(h, r, b, n + 1)
    <3>1. \A z \in 0..n : z \in 0..(n + 1)
      OBVIOUS
    <3> QED BY <2>6, <3>1 DEF LegFromRecord
  <2>8. /\ IsSeq(h.transitions) /\ k \in 1..Len(h.transitions) /\ LegFromMove(h.transitions, k)
        /\ h.transitions[k] = e.transitions[k]
    <3>1. CASE h = y
      BY <1>3, <1>4, <1>8, <3>1
    <3>2. CASE h = g
      <4>1. move.to # "REVERSAL"
        BY <2>3, <2>4
      <4>2. h.transitions = Append(e.transitions, move)
        BY <1>8, <2>2, <3>2
      <4> QED BY <1>3, <1>4, <4>1, <4>2, MovesOn
    <3> QED BY <2>1, <3>1, <3>2
  <2>9. NextOfLeg(e, h, bar)
    BY <1>8, <2>6 DEF NextOfLeg
  <2>10. LegSince(h, all, n + 1, h.transitions[k].at)
    BY <1>3, <2>8, <2>9, LegLasts
  <2>11. n + 1 \in Nat
    OBVIOUS
  <2>12. RangeSound(h, all, n + 1)
    BY <1>8, <2>6, <2>7, <2>8, <2>10, <2>11, LegIsSound
  <2> QED BY <2>12 DEF h
<1>9. CASE ends
  <2>1. n + 1 \in Nat
    OBVIOUS
  <2>2. RangeSound(R!EnterReversal(e, n + 1), all, n + 1)
    BY <1>2, <1>4, <2>1, ReversalSound
  <2> QED BY <1>5, <1>9, <2>2 DEF f
<1>10. CASE ~ends /\ goes
  <2>1. RangeSound(R!EnterUnless(x, "EXPANSION", n + 1), all, n + 1)
    BY <1>6, <1>7, <1>8, <1>10
  <2> QED BY <1>5, <1>10, <2>1 DEF f
<1>11. CASE ~ends /\ ~goes
  <2>1. RangeSound(R!EnterUnless(e, "RETRACEMENT", n + 1), all, n + 1)
    BY <1>4, <1>6, <1>8, <1>11
  <2> QED BY <1>5, <1>11, <2>1 DEF f
<1> QED BY <1>9, <1>10, <1>11

LEMMA RangedSound ==
  ASSUME NEW all, all \in Seq(Bars(Int)), NEW n \in Nat, Len(all) = n + 1,
         NEW e, RangeSound(e, all, n),
         NEW swings, AllAt(swings, n + 1), NEW internals, AllAt(internals, n + 1)
  PROVE  RangeSound(R!Ranged(e, all, swings, internals), all, n + 1)
<1>1. CASE e.state = "CONSOLIDATION"
  BY <1>1, RestingBarSound
<1>2. CASE e.state # "CONSOLIDATION"
  BY <1>2, LegBarSound DEF R!Ranged
<1> QED BY <1>1, <1>2

\* Only the bars that had closed count.
LEMMA BarsCount ==
  ASSUME NEW e, NEW all, NEW other, NEW n \in Nat, RangeSound(e, all, n),
         \A j \in 1..n : other[j] = all[j]
  PROVE  RangeSound(e, other, n)
<1>1. ASSUME NEW began, LegSince(e, all, n, began) PROVE LegSince(e, other, n, began)
  <2>1. began \in 1..n
    BY <1>1 DEF LegSince
  <2>2. \A j \in began..n : other[j] = all[j]
    BY <2>1
  <2>3. \A j \in began..(n - 1) : j \in began..n
    BY <2>1
  <2>4. /\ \A j \in TipBars(e, all, began, n) : other[j] = all[j]
        /\ \A j \in TipBars(e, all, began, n - 1) : other[j] = all[j]
        /\ TipBars(e, other, began, n) = TipBars(e, all, began, n)
        /\ TipBars(e, other, began, n - 1) = TipBars(e, all, began, n - 1)
    BY <2>2, <2>3 DEF TipBars
  <2> QED BY <1>1, <2>4 DEF LegSince, HasFurthest
<1>2. LegSound(e, other, n)
  BY <1>1 DEF RangeSound, LegSound
<1> QED BY <1>2 DEF RangeSound

LEMMA NewRangeSound ==
  ASSUME NEW n \in Nat, NEW all PROVE RangeSound(R!NewRange, all, n)
<1> DEFINE e == R!NewRange
<1>1. /\ IsRange(e) /\ e.state = "CONSOLIDATION" /\ e.swing = None /\ e.states = <<>>
      /\ e.transitions = <<>>
  BY DEF R!NewRange, IsRange, RangeFields
<1> HIDE DEF e
<1>2. IsSeq(<<>>) /\ Len(<<>>) = 0 /\ 1..0 = {} /\ 0 \in 0..0 /\ 0 \in 0..n
  BY DEF IsSeq
<1>3. LastEnd(<<>>, 0, 0) /\ EndedAt(<<>>, 0) = 0 /\ Resting(<<>>, 0, 0)
  BY DEF LastEnd, EndedAt, Resting
<1>4. AnchorsFrom(e, 0, n)
  BY <1>1 DEF AnchorsFrom
<1>5. RecordsSince(e, 0, n)
  BY <1>1, <1>2, <1>3, <1>4 DEF RecordsSince
<1>6. Logged(e, n)
  BY <1>1, <1>2, <1>5 DEF Logged
<1>7. LegSound(e, all, n)
  BY <1>1, <1>2 DEF LegSound
<1> QED BY <1>1, <1>6, <1>7 DEF RangeSound, e

LEMMA InitRanges == ObservationInit => RangeInv
<1> SUFFICES ASSUME ObservationInit PROVE RangeInv
  OBVIOUS
<1>1. SwingInv
  BY InitAgrees DEF ObservationInit
<1>2. ClosedBars \in Nat
  BY <1>1 DEF SwingInv, ClosedBars
<1>3. range = R!NewRange
  BY DEF ObservationInit
<1> QED BY <1>1, <1>2, <1>3, NewRangeSound DEF RangeInv

LEMMA ShapeRanges == ASSUME RangeInv, Shape, UNCHANGED observed PROVE RangeInv'
<1> DEFINE n == ClosedBars
<1>1. /\ SwingInv' /\ n \in Nat /\ ClosedBars' = n
      /\ \A i \in 1..n : bars'[i] = bars[i]
  BY ShapeKeepsClosed DEF RangeInv
<1>2. range' = range
  BY DEF observed
<1>3. RangeSound(range, bars, n)
  BY DEF RangeInv
<1> HIDE DEF n
<1>4. RangeSound(range', bars', n)
  BY <1>1, <1>2, <1>3, BarsCount
<1> QED BY <1>1, <1>4 DEF RangeInv

LEMMA ObserveRanges == ASSUME RangeInv, NextBar, Observe PROVE RangeInv'
<1> DEFINE n == ClosedBars
<1>1. /\ SwingInv' /\ n \in Nat /\ ClosedBars' = n + 1
      /\ IsSeq(bars) /\ Len(bars) = n + 1 /\ \A i \in 1..(n + 1) : bars'[i] = bars[i]
  BY NextBarCloses DEF RangeInv
<1>2. AllAt(Confirming("swing"), n + 1) /\ AllAt(Confirming("internal"), n + 1)
  BY <1>1, EventsAreOfTheBar DEF Confirming
<1>3. range' = R!Ranged(range, bars, Confirming("swing"), Confirming("internal"))
  BY DEF Observe
<1>4. RangeSound(range, bars, n)
  BY DEF RangeInv
<1>5. bars \in Seq(Bars(Int))
  BY DEF RangeInv, SwingInv
<1> HIDE DEF n
<1>6. RangeSound(range', bars, n + 1)
  BY <1>1, <1>2, <1>3, <1>4, <1>5, RangedSound
<1>7. RangeSound(range', bars', n + 1)
  <2>1. n + 1 \in Nat
    BY <1>1
  <2> QED BY <1>1, <1>6, <2>1, BarsCount
<1> QED BY <1>1, <1>7 DEF RangeInv

-----------------------------------------------------------------------------
(* What it says.                                                           *)

LEMMA OwnAnchors == ASSUME RangeInv PROVE RangesDoNotShareAnchors
<1> DEFINE s == range.states
<1>1. Len(s) \in Nat /\ DOMAIN s = 1..Len(s) /\ \A i \in 1..Len(s) : RecordRight(s, i)
  BY DEF RangeInv, RangeSound, Logged, IsSeq
<1> SUFFICES ASSUME NEW i \in 1..Len(s)
             PROVE  LET record == s[i]
                        ended == {j \in 1..(i - 1) : s[j].state = "REVERSAL"}
                        from == IF ended = {} THEN 0 ELSE s[Max(ended)].at
                        broke == {j \in 1..i : (ended = {} \/ j > Max(ended)) /\ j \in LegRecords}
                        to == IF broke = {} THEN record.at ELSE s[Min(broke)].at
                    IN /\ {record.swing.at, record.internal.at} \subseteq (from + 1)..to
                       /\ record.internal.type = R!Facing(record.swing.type)
  BY <1>1 DEF RangesDoNotShareAnchors
<1> DEFINE ended == {j \in 1..(i - 1) : s[j].state = "REVERSAL"}
           broke == {j \in 1..i : (ended = {} \/ j > Max(ended)) /\ j \in LegRecords}
           from == IF ended = {} THEN 0 ELSE s[Max(ended)].at
           to == IF broke = {} THEN s[i].at ELSE s[Min(broke)].at
<1>2. PICK r \in 0..(i - 1) :
        /\ LastEnd(s, r, i - 1)
        /\ \/ /\ Resting(s, r, i)
              /\ AnchoredIn(s[i].swing, s[i].internal, EndedAt(s, r), s[i].at)
           \/ \E b \in 1..i : /\ FirstOfLeg(s, r, b, i)
                              /\ AnchoredIn(s[i].swing, s[i].internal, EndedAt(s, r), s[b].at)
  BY <1>1 DEF RecordRight
<1>3. i \in Nat /\ r \in Nat /\ (\A j \in 1..i : j \in Nat /\ j \in DOMAIN s)
  BY <1>1
<1>4. /\ r = 0 => ended = {}
      /\ r # 0 => ended # {} /\ Max(ended) = r
  <2>1. r # 0 => r \in ended
    BY <1>2 DEF LastEnd
  <2>2. \A j \in ended : j <= r /\ j \in Nat /\ j # 0
    <3>1. \A j \in (r + 1)..(i - 1) : s[j].state # "REVERSAL"
      BY <1>2 DEF LastEnd
    <3>2. \A j \in 1..(i - 1) : j \in Nat /\ j # 0 /\ (j <= r \/ j \in (r + 1)..(i - 1))
      BY <1>3
    <3> QED BY <3>1, <3>2
  <2>3. ended \subseteq 1..i /\ i \in Nat
    BY <1>3
  <2> HIDE DEF ended
  <2>4. ended # {} => Max(ended) \in ended /\ \A j \in ended : j <= Max(ended)
    BY <2>3, HighestOf
  <2> QED BY <1>3, <2>1, <2>2, <2>4
<1>5. from = EndedAt(s, r)
  BY <1>4 DEF EndedAt
<1>6. \A j \in 1..i : j \in broke <=> j \in (r + 1)..i /\ s[j].state # "CONSOLIDATION"
  <2>1. \A j \in 1..i : (ended = {} \/ j > Max(ended)) <=> j \in (r + 1)..i
    BY <1>3, <1>4
  <2> QED BY <1>3, <2>1 DEF LegRecords
<1>7. broke \subseteq 1..i
  OBVIOUS
<1> HIDE DEF from, broke, ended
<1>8. CASE /\ Resting(s, r, i)
           /\ AnchoredIn(s[i].swing, s[i].internal, EndedAt(s, r), s[i].at)
  <2>1. broke = {}
    BY <1>6, <1>7, <1>8 DEF Resting
  <2>2. to = s[i].at
    BY <2>1
  <2> QED BY <1>5, <1>8, <2>2 DEF AnchoredIn, from, to, broke, ended
<1>9. ASSUME NEW b \in 1..i, FirstOfLeg(s, r, b, i),
             AnchoredIn(s[i].swing, s[i].internal, EndedAt(s, r), s[b].at)
      PROVE  AnchoredIn(s[i].swing, s[i].internal, from, to)
  <2>1. b \in broke /\ \A j \in broke : b <= j /\ j \in Nat
    <3>1. /\ b \in (r + 1)..i /\ s[b].state # "CONSOLIDATION"
          /\ \A j \in (r + 1)..(b - 1) : s[j].state = "CONSOLIDATION"
      BY <1>9 DEF FirstOfLeg
    <3>2. \A j \in (r + 1)..i : b <= j \/ j \in (r + 1)..(b - 1)
      BY <1>3, <3>1
    <3> QED BY <1>3, <1>6, <1>7, <3>1, <3>2
  <2>2. Min(broke) = b
    <3>1. Min(broke) \in broke /\ \A j \in broke : Min(broke) <= j
      BY <2>1 DEF Min
    <3>2. Min(broke) \in Nat /\ b \in Nat /\ b <= Min(broke) /\ Min(broke) <= b
      BY <1>3, <2>1, <3>1
    <3> QED BY <3>2
  <2>3. broke # {}
    BY <2>1
  <2> QED BY <1>5, <1>9, <2>2, <2>3
<1> QED BY <1>2, <1>8, <1>9 DEF AnchoredIn, from, to, broke, ended

LEMMA OwnExtreme == ASSUME RangeInv PROVE LegFollowsItsBars
<1> DEFINE moves == range.transitions
           n == ClosedBars
           d == range.direction
<1> SUFFICES ASSUME range.state \in {"EXPANSION", "RETRACEMENT"}
             PROVE  LET ended == {i \in DOMAIN moves : moves[i].to = "REVERSAL"}
                        began == moves[IF ended = {} THEN 1 ELSE Max(ended) + 1].at
                        Tips(to) == {BodyTip(Leading(d), bars[j]) :
                                       j \in {j \in began..to : j = began \/ ~R!Reclaimed(range, bars[j])}}
                        Best(to) == IF d = "UP" THEN Max(Tips(to)) ELSE Min(Tips(to))
                        now == Len(Closed)
                    IN /\ range.extreme = Best(now)
                       /\ range.state = "EXPANSION" <=> now = began \/ Best(now) # Best(now - 1)
  BY DEF LegFollowsItsBars
<1> DEFINE ended == {i \in DOMAIN moves : moves[i].to = "REVERSAL"}
           began == moves[IF ended = {} THEN 1 ELSE Max(ended) + 1].at
           Tips(to) == {BodyTip(Leading(d), bars[j]) :
                          j \in {j \in began..to : j = began \/ ~R!Reclaimed(range, bars[j])}}
           Best(to) == IF d = "UP" THEN Max(Tips(to)) ELSE Min(Tips(to))
<1>1. bars \in Seq(Bars(Int)) /\ n \in Nat /\ Len(Closed) = n /\ Len(bars) = n + 1
  <2>1. bars \in Seq(Bars(Int)) /\ Len(bars) \in Nat /\ Len(bars) # 0
    BY DEF RangeInv, SwingInv
  <2>2. Len(Closed) = Len(bars) - 1
    BY <2>1, AllButLast DEF Closed
  <2> QED BY <2>1, <2>2 DEF ClosedBars
<1>2. range.state # "CONSOLIDATION"
  OBVIOUS
<1>3. PICK k \in 1..Len(moves) : LegFromMove(moves, k) /\ LegSince(range, bars, n, moves[k].at)
  BY <1>2 DEF RangeInv, RangeSound, LegSound
<1>4. Len(moves) \in Nat /\ DOMAIN moves = 1..Len(moves)
  BY DEF RangeInv, RangeSound, LegSound, IsSeq
<1>5. began = moves[k].at
  <2>1. /\ k \in Nat /\ k # 0 /\ (k = 1 \/ moves[k - 1].to = "REVERSAL")
        /\ \A j \in k..Len(moves) : moves[j].to # "REVERSAL"
    BY <1>3, <1>4 DEF LegFromMove
  <2>2. \A j \in ended : j \in Nat /\ j <= k - 1 /\ j # 0
    <3>1. \A j \in 1..Len(moves) : j \in Nat /\ j # 0 /\ (j <= k - 1 \/ j \in k..Len(moves))
      BY <1>4, <2>1
    <3> QED BY <1>4, <2>1, <3>1
  <2>3. k # 1 => k - 1 \in ended
    BY <1>4, <2>1
  <2>4. k = 1 => ended = {}
    BY <2>2
  <2>5. ended \subseteq 1..Len(moves)
    BY <1>4
  <2> HIDE DEF ended
  <2>6. k # 1 => Max(ended) + 1 = k
    <3>1. ASSUME k # 1 PROVE Max(ended) \in ended /\ \A j \in ended : j <= Max(ended)
      BY <1>4, <2>3, <2>5, <3>1, HighestOf
    <3> QED BY <2>1, <2>2, <2>3, <3>1
  <2> QED BY <2>3, <2>4, <2>6
<1> HIDE DEF began, ended
<1>6. LegSince(range, bars, n, began)
  BY <1>3, <1>5
<1>7. ASSUME NEW to PROVE Tips(to) = {TipOf(range, bars[j]) : j \in TipBars(range, bars, began, to)}
  BY DEF TipOf, TipBars
<1> HIDE DEF Tips
<1> DEFINE x == range.extreme
<1>8. began \in 1..n /\ x \in Int
  BY <1>6 DEF LegSince
<1>9. ASSUME NEW to \in {n, n - 1}, NEW p \in Tips(to) PROVE p \in Int
  <2>1. PICK j \in TipBars(range, bars, began, to) : p = TipOf(range, bars[j])
    BY <1>7
  <2>2. j \in began..to
    BY <2>1 DEF TipBars
  <2>3. j \in 1..Len(bars)
    BY <1>1, <1>8, <2>2
  <2>4. bars[j] \in Bars(Int)
    BY <1>1, <2>3, ElementOfSeq
  <2> QED BY <2>1, <2>4, TipsAreBodies DEF TipOf
<1>10. x \in Tips(n) /\ \A p \in Tips(n) : ~R!Further(d, p, x)
  BY <1>6, <1>7 DEF LegSince
<1> HIDE DEF x, d
<1>11. ASSUME NEW y, NEW S, S \subseteq Int, y \in S, \A p \in S : ~R!Further(d, p, y)
       PROVE  y = IF d = "UP" THEN Max(S) ELSE Min(S)
  <2>1. y \in Int /\ \A p \in S : p \in Int
    BY <1>11
  <2>2. CASE d = "UP"
    <3>1. \A p \in S : y >= p
      BY <1>11, <2>1, <2>2 DEF R!Further
    <3>2. Max(S) \in S /\ \A p \in S : Max(S) >= p
      BY <1>11, <3>1 DEF Max
    <3>3. Max(S) \in Int /\ Max(S) >= y /\ y >= Max(S)
      BY <1>11, <2>1, <3>1, <3>2
    <3>4. Max(S) = y
      BY <2>1, <3>3
    <3> QED BY <2>2, <3>4
  <2>3. CASE d # "UP"
    <3>1. \A p \in S : y <= p
      BY <1>11, <2>1, <2>3 DEF R!Further
    <3>2. Min(S) \in S /\ \A p \in S : Min(S) <= p
      BY <1>11, <3>1 DEF Min
    <3>3. Min(S) \in Int /\ Min(S) <= y /\ y <= Min(S)
      BY <1>11, <2>1, <3>1, <3>2
    <3>4. Min(S) = y
      BY <2>1, <3>3
    <3> QED BY <2>3, <3>4
  <2> QED BY <2>2, <2>3
<1>12. Tips(n) \subseteq Int /\ Tips(n - 1) \subseteq Int
  BY <1>9
<1>13. x = Best(n)
  BY <1>10, <1>11, <1>12
<1>14. range.state = "EXPANSION" <=>
         n = began \/ \A p \in Tips(n - 1) : R!Further(d, x, p)
  <2>1. (\A p \in Tips(n - 1) : R!Further(d, x, p)) <=>
          \A j \in TipBars(range, bars, began, n - 1) : R!Further(d, x, TipOf(range, bars[j]))
    BY <1>7
  <2> QED BY <1>6, <2>1 DEF LegSince, x, d
<1>15. n # began => Tips(n - 1) # {} /\ Tips(n - 1) \subseteq Tips(n)
  <2>1. n # began => began \in began..(n - 1)
    BY <1>1, <1>8
  <2>2. \A j \in began..(n - 1) : j \in began..n
    BY <1>1, <1>8
  <2>3. /\ n # began => began \in TipBars(range, bars, began, n - 1)
        /\ \A j \in TipBars(range, bars, began, n - 1) : j \in TipBars(range, bars, began, n)
    BY <2>1, <2>2 DEF TipBars
  <2> QED BY <1>7, <2>3
<1>16. n # began =>
         (Best(n) # Best(n - 1) <=> \A p \in Tips(n - 1) : R!Further(d, x, p))
  <2> SUFFICES ASSUME n # began
               PROVE  Best(n) # Best(n - 1) <=> \A p \in Tips(n - 1) : R!Further(d, x, p)
    OBVIOUS
  <2> DEFINE S == Tips(n - 1)
  <2>1. S # {} /\ S \subseteq Tips(n) /\ S \subseteq Int
    BY <1>12, <1>15
  <2>2. x \in S => Best(n - 1) = x
    <3>1. ASSUME x \in S PROVE \A p \in S : ~R!Further(d, p, x)
      BY <1>10, <2>1
    <3> HIDE DEF S
    <3>2. ASSUME x \in S PROVE x = IF d = "UP" THEN Max(S) ELSE Min(S)
      BY <1>11, <2>1, <3>1, <3>2
    <3> QED BY <3>2 DEF S
  <2>3. x \in S => ~R!Further(d, x, x)
    BY <1>8 DEF R!Further
  <2>4. ASSUME x \notin S, NEW p \in S PROVE R!Further(d, x, p)
    <3>1. p \in Int /\ x \in Int /\ p # x /\ ~R!Further(d, p, x)
      BY <1>8, <1>10, <2>1, <2>4 DEF x
    <3> QED BY <3>1 DEF R!Further
  <2>5. x \notin S => Best(n - 1) # x
    <3>1. PICK i \in TipBars(range, bars, began, n - 1) :
            \A j \in TipBars(range, bars, began, n - 1) :
              ~R!Further(d, TipOf(range, bars[j]), TipOf(range, bars[i]))
      BY <1>6 DEF LegSince, HasFurthest, d
    <3> DEFINE y == TipOf(range, bars[i])
    <3>2. y \in S /\ \A p \in S : ~R!Further(d, p, y)
      BY <1>7, <3>1
    <3> HIDE DEF y, S
    <3>3. y = IF d = "UP" THEN Max(S) ELSE Min(S)
      BY <1>11, <2>1, <3>2
    <3> QED BY <3>2, <3>3 DEF S
  <2> QED BY <1>13, <2>2, <2>3, <2>4, <2>5
<1> QED BY <1>1, <1>13, <1>14, <1>16 DEF x, d, Tips, began, ended

\* Of whatever bars, tiers and history, the anchors of a range are its own and its leg has the
\* extreme of its own bars (structure_range.py:245, :314).
THEOREM RangesAreTheirBars == ObservationSpec => []RangesFollowTheirBars
<1>1. ObservationInit => RangeInv
  BY InitRanges
<1>2. RangeInv /\ [ObservationNext]_<<vars, observed>> => RangeInv'
  <2> SUFFICES ASSUME RangeInv, [ObservationNext]_<<vars, observed>> PROVE RangeInv'
    OBVIOUS
  <2>1. CASE Shape /\ UNCHANGED observed
    BY <2>1, ShapeRanges
  <2>2. CASE NextBar /\ Observe
    BY <2>2, ObserveRanges
  <2>3. CASE UNCHANGED <<vars, observed>>
    <3>1. bars' = bars /\ engines' = engines /\ range' = range
      BY <2>3 DEF vars, observed
    <3> QED BY <3>1 DEF RangeInv, SwingInv, Closed, ClosedBars
  <2> QED BY <2>1, <2>2, <2>3 DEF ObservationNext
<1>3. RangeInv => RangesFollowTheirBars
  BY OwnAnchors, OwnExtreme DEF RangesFollowTheirBars
<1> QED BY <1>1, <1>2, <1>3, PTL DEF ObservationSpec

-----------------------------------------------------------------------------
(* What an engine has said last is what it holds.                          *)

Speaks(r) ==
  /\ IsEngine(r) /\ IsSeq(r.states)
  /\ r.direction = None <=> r.regime = "CONSOLIDATION"
  /\ Len(r.states) = 0 => r.regime = "CONSOLIDATION"
  /\ Len(r.states) # 0 => /\ r.states[Len(r.states)].regime = r.regime
                          /\ r.states[Len(r.states)].direction = r.direction

\* The last record of f, which r did not have, says what f holds.
SaysMore(r, f) ==
  /\ IsEngine(f)
  /\ f.direction = None <=> f.regime = "CONSOLIDATION"
  /\ \E rec : /\ f.states = Append(r.states, rec)
              /\ rec.regime = f.regime /\ rec.direction = f.direction

LEMMA MoreIsSaid ==
  ASSUME NEW r, IsSeq(r.states), NEW f, SaysMore(r, f)
  PROVE  Speaks(f)
<1>1. PICK rec : /\ f.states = Append(r.states, rec)
                 /\ rec.regime = f.regime /\ rec.direction = f.direction
  BY DEF SaysMore
<1>2. /\ Len(r.states) \in Nat /\ IsSeq(f.states) /\ Len(f.states) = Len(r.states) + 1
      /\ f.states[Len(r.states) + 1] = rec
  BY <1>1, AppendTo
<1>3. Len(f.states) # 0
  BY <1>2
<1> QED BY <1>1, <1>2, <1>3 DEF SaysMore, Speaks

LEMMA ExpansionSays ==
  ASSUME NEW r, IsEngine(r), NEW direction, direction # None, NEW extreme, NEW at
  PROVE  SaysMore(r, EnterExpansion(r, direction, extreme, at))
<1> DEFINE f == EnterExpansion(r, direction, extreme, at)
           rec == [regime |-> "EXPANSION", at |-> at, direction |-> direction,
                   lean |-> None, pivot |-> None, supersedes |-> None]
<1>1. /\ IsEngine(f) /\ f.regime = "EXPANSION" /\ f.direction = direction
      /\ f.states = Append(r.states, rec)
  BY DEF IsEngine, Fields, EnterExpansion, Emitted, Moved
<1> HIDE DEF f
<1>2. rec.regime = "EXPANSION" /\ rec.direction = direction
  OBVIOUS
<1> HIDE DEF rec
<1> QED BY <1>1, <1>2 DEF SaysMore, f

LEMMA PullbackSays ==
  ASSUME NEW r, IsEngine(r), r.direction # None, NEW swing, NEW bar, NEW at, NEW er
  PROVE  SaysMore(r, EnterPullback(r, swing, bar, at, er))
<1> DEFINE f == EnterPullback(r, swing, bar, at, er)
           rec == [regime |-> "PULLBACK_UNRESOLVED", at |-> at, direction |-> r.direction,
                   lean |-> Lean(r, bar, er), pivot |-> swing.pivot, supersedes |-> None]
<1>1. /\ IsEngine(f) /\ f.regime = "PULLBACK_UNRESOLVED" /\ f.direction = r.direction
      /\ f.states = Append(r.states, rec)
  BY DEF IsEngine, Fields, EnterPullback, Emitted, Moved, Lean, PullbackDepth
<1> HIDE DEF f
<1>2. rec.regime = "PULLBACK_UNRESOLVED" /\ rec.direction = r.direction
  OBVIOUS
<1> HIDE DEF rec
<1> QED BY <1>1, <1>2 DEF SaysMore, f

LEMMA ResolutionSays ==
  ASSUME NEW r, IsEngine(r), NEW to, NEW at, r.direction = None <=> to = "CONSOLIDATION"
  PROVE  SaysMore(r, Resolved(r, to, at)) /\ Resolved(r, to, at).direction = r.direction
<1> DEFINE f == Resolved(r, to, at)
           rec == [regime |-> to, at |-> at, direction |-> r.direction,
                   lean |-> None, pivot |-> None, supersedes |-> Id(r.unresolved)]
<1>1. /\ IsEngine(f) /\ f.regime = to /\ f.direction = r.direction
      /\ f.states = Append(r.states, rec)
  BY DEF IsEngine, Fields, Resolved, Emitted, Moved
<1> HIDE DEF f
<1>2. rec.regime = to /\ rec.direction = r.direction
  OBVIOUS
<1> HIDE DEF rec
<1> QED BY <1>1, <1>2 DEF SaysMore, f

LEMMA ResolvedExpands ==
  ASSUME NEW r, Speaks(r), r.regime = "PULLBACK_UNRESOLVED", NEW at, NEW to \in {"RETRACEMENT", "REVERSAL"},
         NEW direction, direction # None, NEW extreme
  PROVE  Speaks(EnterExpansion(Resolved(r, to, at), direction, extreme, at))
<1> DEFINE g == Resolved(r, to, at)
<1>1. SaysMore(r, g)
  BY ResolutionSays DEF Speaks
<1>2. Speaks(g)
  BY <1>1, MoreIsSaid DEF Speaks
<1> HIDE DEF g
<1>3. SaysMore(g, EnterExpansion(g, direction, extreme, at))
  BY <1>2, ExpansionSays DEF Speaks
<1>4. Speaks(EnterExpansion(g, direction, extreme, at))
  BY <1>2, <1>3, MoreIsSaid DEF Speaks
<1> QED BY <1>4 DEF g

LEMMA StallSays ==
  ASSUME NEW r, Speaks(r), NEW at
  PROVE  Speaks(ResolveConsolidation(r, at))
<1> DEFINE g == [r EXCEPT !.direction = None, !.extreme = None, !.defining = None]
<1>1. IsEngine(g) /\ g.direction = None /\ g.states = r.states
  BY DEF Speaks, IsEngine, Fields
<1> HIDE DEF g
<1>2. SaysMore(g, Resolved(g, "CONSOLIDATION", at))
  BY <1>1, ResolutionSays
<1>3. Speaks(Resolved(g, "CONSOLIDATION", at))
  BY <1>1, <1>2, MoreIsSaid DEF Speaks
<1> QED BY <1>3 DEF ResolveConsolidation, g

LEMMA AnchorSays ==
  ASSUME NEW r, Speaks(r), NEW swing
  PROVE  Speaks(RecordAnchor(r, swing))
<1>1. LET f == RecordAnchor(r, swing)
      IN IsEngine(f) /\ f.regime = r.regime /\ f.direction = r.direction /\ f.states = r.states
  BY DEF Speaks, IsEngine, Fields, RecordAnchor
<1> QED BY <1>1 DEF Speaks

LEMMA SwingSays ==
  ASSUME NEW r, Speaks(r), NEW swing, NEW bar, NEW at, NEW er
  PROVE  Speaks(OnSwing(r, swing, bar, at, er))
<1> DEFINE f == OnSwing(r, swing, bar, at, er)
           leads == swing.type = Leading(r.direction)
           moved == [r EXCEPT !.extreme = swing.body,
                              !.defining = IF r.last[Trailing(r.direction)] = None THEN @
                                           ELSE r.last[Trailing(r.direction)]]
           up == IF swing.type = "HIGH" THEN "UP" ELSE "DOWN"
<1>1. \/ f = r
      \/ f = moved
      \/ f = EnterExpansion(r, up, swing.body, at)
      \/ f = EnterPullback(r, swing, bar, at, er) /\ r.regime = "EXPANSION"
      \/ f = ResolveRetracement(r, swing, at) /\ r.regime = "PULLBACK_UNRESOLVED"
      \/ f = ResolveConsolidation(r, at)
  BY DEF OnSwing
<1>2. up # None
  BY DirectionAssumption DEF Directions
<1>3. Speaks(moved)
  <2>1. /\ IsEngine(moved) /\ moved.regime = r.regime /\ moved.direction = r.direction
        /\ moved.states = r.states
    BY DEF Speaks, IsEngine, Fields
  <2> HIDE DEF moved
  <2> QED BY <2>1 DEF Speaks
<1> HIDE DEF f, moved, up
<1>4. Speaks(EnterExpansion(r, up, swing.body, at))
  <2>1. SaysMore(r, EnterExpansion(r, up, swing.body, at))
    BY <1>2, ExpansionSays DEF Speaks
  <2> QED BY <2>1, MoreIsSaid DEF Speaks
<1>5. r.regime = "EXPANSION" => Speaks(EnterPullback(r, swing, bar, at, er))
  <2> SUFFICES ASSUME r.regime = "EXPANSION" PROVE Speaks(EnterPullback(r, swing, bar, at, er))
    OBVIOUS
  <2>1. SaysMore(r, EnterPullback(r, swing, bar, at, er))
    BY PullbackSays DEF Speaks
  <2> QED BY <2>1, MoreIsSaid DEF Speaks
<1>6. r.regime = "PULLBACK_UNRESOLVED" => Speaks(ResolveRetracement(r, swing, at))
  <2> SUFFICES ASSUME r.regime = "PULLBACK_UNRESOLVED" PROVE Speaks(ResolveRetracement(r, swing, at))
    OBVIOUS
  <2>1. r.direction # None
    BY DEF Speaks
  <2> QED BY <2>1, ResolvedExpands DEF ResolveRetracement
<1>7. Speaks(ResolveConsolidation(r, at))
  BY StallSays
<1>8. Speaks(f)
  BY <1>1, <1>3, <1>4, <1>5, <1>6, <1>7
<1> QED BY <1>8 DEF f

\* However many swings a bar has.
LEMMA SwingsSay ==
  ASSUME NEW r, Speaks(r), NEW events, Len(events) \in Nat, NEW bar, NEW at, NEW er
  PROVE  Speaks(Swung(r, events, bar, at, er))
<1> DEFINE swung == Swung(r, events, bar, at, er)
<1>1. PICK f : /\ f[0] = r
               /\ \A i \in 1..Len(events) : f[i] = Taking(f, i, events, bar, at, er)
               /\ swung = f[Len(events)]
  <2>1. swung = Swung(r, events, bar, at, er)
    OBVIOUS
  <2> HIDE DEF swung
  <2> QED BY <2>1, TakenOneByOne
<1> HIDE DEF swung
<1> DEFINE Bad == {i \in 0..Len(events) : ~Speaks(f[i])}
<1>2. ASSUME NEW i \in 1..Len(events), Speaks(f[i - 1]) PROVE Speaks(f[i])
  <2>1. \/ f[i] = f[i - 1]
        \/ f[i] = OnSwing(RecordAnchor(f[i - 1], events[i]), events[i], bar, at, er)
    BY <1>1 DEF Taking
  <2>2. Speaks(OnSwing(RecordAnchor(f[i - 1], events[i]), events[i], bar, at, er))
    BY <1>2, AnchorSays, SwingSays
  <2> QED BY <1>2, <2>1, <2>2
<1>3. Bad = {}
  <2> SUFFICES ASSUME Bad # {} PROVE FALSE
    OBVIOUS
  <2>1. PICK n \in Bad : \A m \in Bad : n <= m
    <3>1. Bad \subseteq Nat
      OBVIOUS
    <3> HIDE DEF Bad
    <3> QED BY <3>1, LeastOf
  <2>2. n \in 0..Len(events) /\ ~Speaks(f[n])
    BY <2>1
  <2>3. n # 0
    BY <1>1, <2>2
  <2>4. n \in 1..Len(events) /\ n - 1 \in 0..Len(events) /\ ~(n <= n - 1)
    BY <2>2, <2>3
  <2>5. Speaks(f[n - 1])
    BY <2>1, <2>4
  <2> QED BY <1>2, <2>2, <2>4, <2>5
<1>4. Len(events) \in 0..Len(events)
  OBVIOUS
<1> QED BY <1>1, <1>3, <1>4 DEF swung

LEMMA BarSays ==
  ASSUME NEW r, Speaks(r), NEW all, NEW er, NEW events, Len(events) \in Nat
  PROVE  Speaks(Classified(r, all, er, events))
<1> DEFINE at == Len(all)
           bar == Last(all)
           reverses == r.regime = "PULLBACK_UNRESOLVED" /\ DefiningBroken(r, bar)
           broke == IF reverses THEN ResolveReversal(r, bar, at) ELSE r
           swung == Swung(broke, events, bar, at, er)
           f == Classified(r, all, er, events)
           renews == swung.regime = "PULLBACK_UNRESOLVED" /\ swung.states = r.states
<1>1. f = IF renews THEN RefreshLean(swung, bar, at, er) ELSE swung
  BY DEF Classified
<1>2. Speaks(broke)
  <2>1. Against(r.direction) # None
    BY DirectionAssumption DEF Against, Directions
  <2>2. reverses => Speaks(ResolveReversal(r, bar, at))
    BY <2>1, ResolvedExpands DEF ResolveReversal
  <2> QED BY <2>2
<1> HIDE DEF broke, at, bar, f
<1>3. Speaks(swung)
  BY <1>2, SwingsSay
<1> HIDE DEF swung, renews
<1>4. ASSUME swung.regime = "PULLBACK_UNRESOLVED"
      PROVE  Speaks(RefreshLean(swung, bar, at, er))
  <2> DEFINE lean == Lean(swung, bar, er)
             g == RefreshLean(swung, bar, at, er)
             rec == [regime |-> "PULLBACK_UNRESOLVED", at |-> at, direction |-> swung.direction,
                     lean |-> lean, pivot |-> swung.unresolved.pivot,
                     supersedes |-> Id(swung.unresolved)]
  <2> HIDE DEF lean
  <2>1. \/ g = swung
        \/ /\ IsEngine(g) /\ g.regime = swung.regime /\ g.direction = swung.direction
           /\ g.states = Append(swung.states, rec)
    <3>1. IsEngine(swung)
      BY <1>3 DEF Speaks
    <3> QED BY <3>1 DEF RefreshLean, Emitted, IsEngine, Fields, lean
  <2>2. rec.regime = "PULLBACK_UNRESOLVED" /\ rec.direction = swung.direction
    OBVIOUS
  <2> HIDE DEF g, rec
  <2>3. CASE g = swung
    BY <1>3, <2>3 DEF g
  <2>4. CASE /\ IsEngine(g) /\ g.regime = swung.regime /\ g.direction = swung.direction
             /\ g.states = Append(swung.states, rec)
    <3>1. SaysMore(swung, g)
      BY <1>3, <1>4, <2>2, <2>4 DEF SaysMore, Speaks
    <3>2. Speaks(g)
      BY <1>3, <3>1, MoreIsSaid DEF Speaks
    <3> QED BY <3>2 DEF g
  <2> QED BY <2>1, <2>3, <2>4
<1>5. Speaks(f)
  BY <1>1, <1>3, <1>4 DEF renews
<1> QED BY <1>5 DEF f

LEMMA NewRegimeSays == Speaks(NewRegime)
<1>1. /\ IsEngine(NewRegime) /\ NewRegime.regime = "CONSOLIDATION"
      /\ NewRegime.direction = None /\ NewRegime.states = <<>>
  BY DEF IsEngine, Fields, NewRegime
<1>2. IsSeq(<<>>) /\ Len(<<>>) = 0
  BY DEF IsSeq
<1> QED BY <1>1, <1>2 DEF Speaks

-----------------------------------------------------------------------------
(* The longer bars.  Of n bars those from some bar a on are in the bucket   *)
(* that is open (OpenFrom), and of those before it each bucket has made one *)
(* (EndedBars).                                                             *)

OpenFrom(f, a, n) ==
  /\ a \in 1..(n + 1) /\ (n # 0 => a <= n)
  /\ \A i \in 1..n : BucketOf[f][i] = BucketOf[f][n] <=> a <= i

OpenBars(open, f, all, n) ==
  \E a : /\ OpenFrom(f, a, n)
         /\ IsSeq(open) /\ Len(open) = n + 1 - a
         /\ \A i \in 1..Len(open) : open[i] = all[a + i - 1]

EndedBars(longer, f, all, n) ==
  LET over == Over(f, n)
  IN /\ IsFiniteSet(over)
     /\ IsSeq(longer) /\ Len(longer) = Cardinality(over)
     /\ \A b \in over : longer[Cardinality({c \in over : c <= b})] = LongerBar(f, b, all, n)

LEMMA GrowsThroughout ==
  ASSUME NEW b, \A k \in 1..MaxBars : b[k] \in Int,
         \A k \in 1..(MaxBars - 1) : b[k] <= b[k + 1],
         NEW i \in 1..MaxBars, NEW j \in i..MaxBars
  PROVE  b[i] <= b[j]
<1> DEFINE Bad == {k \in i..MaxBars : ~(b[i] <= b[k])}
<1>1. MaxBars \in Nat
  BY ChartAssumption
<1>2. Bad = {}
  <2> SUFFICES ASSUME Bad # {} PROVE FALSE
    OBVIOUS
  <2>1. PICK k \in Bad : \A m \in Bad : k <= m
    <3>1. Bad \subseteq Nat
      BY <1>1
    <3> HIDE DEF Bad
    <3> QED BY <3>1, LeastOf
  <2>2. k \in i..MaxBars /\ k \in 1..MaxBars /\ ~(b[i] <= b[k])
    BY <1>1, <2>1
  <2>3. k # i
    BY <2>2
  <2>4. k - 1 \in i..MaxBars /\ k - 1 \in 1..(MaxBars - 1) /\ k - 1 \in 1..MaxBars
        /\ ~(k <= k - 1) /\ (k - 1) + 1 = k
    BY <1>1, <2>2, <2>3
  <2>5. b[i] <= b[k - 1]
    BY <2>1, <2>4
  <2>6. b[k - 1] <= b[k]
    BY <2>4
  <2> QED BY <2>2, <2>4, <2>5, <2>6
<1> QED BY <1>1, <1>2

LEMMA BucketsGrow ==
  ASSUME NEW f \in DOMAIN BucketOf, NEW i \in 1..MaxBars, NEW j \in i..MaxBars
  PROVE  BucketOf[f][i] \in Int /\ BucketOf[f][j] \in Int /\ BucketOf[f][i] <= BucketOf[f][j]
<1>1. /\ \A k \in 1..MaxBars : BucketOf[f][k] \in Int
      /\ \A k \in 1..(MaxBars - 1) : BucketOf[f][k] <= BucketOf[f][k + 1]
  BY BucketAssumption
<1>2. j \in 1..MaxBars
  BY ChartAssumption
<1> QED BY <1>1, <1>2, GrowsThroughout

LEMMA MergedIsLonger ==
  ASSUME NEW f, NEW n \in Nat, n # 0, NEW all, NEW open, OpenBars(open, f, all, n)
  PROVE  MergedBar(open) = LongerBar(f, BucketOf[f][n], all, n)
<1>1. PICK a : /\ OpenFrom(f, a, n)
               /\ IsSeq(open) /\ Len(open) = n + 1 - a
               /\ \A i \in 1..Len(open) : open[i] = all[a + i - 1]
  BY DEF OpenBars
<1>2. a \in 1..n /\ \A i \in 1..n : BucketOf[f][i] = BucketOf[f][n] <=> a <= i
  <2>1. a \in 1..(n + 1) /\ a <= n
    BY <1>1 DEF OpenFrom
  <2>2. a \in 1..n
    BY <2>1
  <2> QED BY <1>1, <2>2 DEF OpenFrom
<1> DEFINE group == InBucket(f, BucketOf[f][n], n)
<1>3. group = a..n
  <2>1. \A i : i \in group <=> i \in 1..n /\ a <= i
    BY <1>2 DEF InBucket
  <2>2. \A i : i \in a..n <=> i \in 1..n /\ a <= i
    BY <1>2
  <2> HIDE DEF group
  <2> QED BY <2>1, <2>2
<1>4. Min(a..n) = a /\ Max(a..n) = n
  <2>1. a \in a..n /\ \A k \in a..n : a <= k
    BY <1>2
  <2>2. n \in a..n /\ \A k \in a..n : n >= k
    BY <1>2
  <2>3. \A x \in a..n : (\A k \in a..n : x <= k) => x = a
    BY <1>2, <2>1
  <2>4. \A x \in a..n : (\A k \in a..n : x >= k) => x = n
    BY <1>2, <2>2
  <2>5. Min(a..n) = a
    BY <2>1, <2>3 DEF Min
  <2>6. Max(a..n) = n
    BY <2>2, <2>4 DEF Max
  <2> QED BY <2>5, <2>6
<1>5. DOMAIN open = 1..Len(open) /\ Len(open) \in Nat
  BY <1>1 DEF IsSeq
<1>6. open[1] = all[a] /\ Last(open) = all[n]
  <2>1. 1 \in 1..Len(open) /\ a + 1 - 1 = a
    BY <1>1, <1>2, <1>5
  <2>2. Len(open) \in 1..Len(open) /\ a + Len(open) - 1 = n
    BY <1>1, <1>2, <1>5
  <2> QED BY <1>1, <2>1, <2>2 DEF Last
<1>7. /\ \A i \in 1..Len(open) : a + i - 1 \in a..n
      /\ \A j \in a..n : j - a + 1 \in 1..Len(open) /\ a + (j - a + 1) - 1 = j
  BY <1>1, <1>2, <1>5
<1>8. {open[i].high : i \in 1..Len(open)} = {all[i].high : i \in a..n}
  <2>1. ASSUME NEW i \in 1..Len(open) PROVE open[i].high \in {all[j].high : j \in a..n}
    <3>1. open[i] = all[a + i - 1] /\ a + i - 1 \in a..n
      BY <1>1, <1>7
    <3> QED BY <3>1
  <2>2. ASSUME NEW j \in a..n PROVE all[j].high \in {open[i].high : i \in 1..Len(open)}
    <3>1. open[j - a + 1] = all[j] /\ j - a + 1 \in 1..Len(open)
      BY <1>1, <1>7
    <3> QED BY <3>1
  <2> QED BY <2>1, <2>2
<1>9. {open[i].low : i \in 1..Len(open)} = {all[i].low : i \in a..n}
  <2>1. ASSUME NEW i \in 1..Len(open) PROVE open[i].low \in {all[j].low : j \in a..n}
    <3>1. open[i] = all[a + i - 1] /\ a + i - 1 \in a..n
      BY <1>1, <1>7
    <3> QED BY <3>1
  <2>2. ASSUME NEW j \in a..n PROVE all[j].low \in {open[i].low : i \in 1..Len(open)}
    <3>1. open[j - a + 1] = all[j] /\ j - a + 1 \in 1..Len(open)
      BY <1>1, <1>7
    <3> QED BY <3>1
  <2> QED BY <2>1, <2>2
<1>10. LongerBar(f, BucketOf[f][n], all, n) =
         [open |-> all[a].open, close |-> all[n].close,
          high |-> Max({all[i].high : i \in a..n}), low |-> Min({all[i].low : i \in a..n})]
  <2>1. LongerBar(f, BucketOf[f][n], all, n) =
          [open |-> all[Min(group)].open, close |-> all[Max(group)].close,
           high |-> Max({all[i].high : i \in group}), low |-> Min({all[i].low : i \in group})]
    BY DEF LongerBar
  <2> HIDE DEF group
  <2> QED BY <1>3, <1>4, <2>1
<1>11. MergedBar(open) =
         [open |-> open[1].open, close |-> Last(open).close,
          high |-> Max({open[i].high : i \in 1..Len(open)}),
          low |-> Min({open[i].low : i \in 1..Len(open)})]
  BY <1>5 DEF MergedBar
<1> QED BY <1>6, <1>8, <1>9, <1>10, <1>11

\* A bar more in the bucket that is open.
LEMMA OpenGoesOn ==
  ASSUME NEW f, NEW n \in Nat, NEW all, NEW open, OpenBars(open, f, all, n),
         n # 0 => BucketOf[f][n + 1] = BucketOf[f][n]
  PROVE  OpenBars(Append(open, all[n + 1]), f, all, n + 1)
<1> DEFINE more == Append(open, all[n + 1])
<1>1. PICK a : /\ OpenFrom(f, a, n)
               /\ IsSeq(open) /\ Len(open) = n + 1 - a
               /\ \A i \in 1..Len(open) : open[i] = all[a + i - 1]
  BY DEF OpenBars
<1>2. /\ a \in 1..(n + 1) /\ (n # 0 => a <= n)
      /\ \A i \in 1..n : BucketOf[f][i] = BucketOf[f][n] <=> a <= i
  BY <1>1 DEF OpenFrom
<1>3. /\ IsSeq(more) /\ Len(more) = Len(open) + 1 /\ Len(open) \in Nat
      /\ more[Len(open) + 1] = all[n + 1] /\ \A i \in 1..Len(open) : more[i] = open[i]
  BY <1>1, AppendTo
<1> HIDE DEF more
<1>4. OpenFrom(f, a, n + 1)
  <2>1. a \in 1..(n + 1 + 1) /\ a <= n + 1
    BY <1>2
  <2>2. ASSUME NEW i \in 1..(n + 1)
        PROVE  BucketOf[f][i] = BucketOf[f][n + 1] <=> a <= i
    <3>1. CASE i = n + 1
      BY <2>1, <3>1
    <3>2. CASE i # n + 1
      <4>1. i \in 1..n /\ n # 0
        BY <3>2
      <4> QED BY <1>2, <4>1
    <3> QED BY <3>1, <3>2
  <2> QED BY <2>1, <2>2 DEF OpenFrom
<1>5. Len(more) = (n + 1) + 1 - a
  BY <1>1, <1>2, <1>3
<1>6. ASSUME NEW i \in 1..Len(more) PROVE more[i] = all[a + i - 1]
  <2>1. CASE i = Len(open) + 1
    <3>1. a + i - 1 = n + 1
      BY <1>1, <1>2, <2>1
    <3> QED BY <1>3, <2>1, <3>1
  <2>2. CASE i # Len(open) + 1
    <3>1. i \in 1..Len(open)
      BY <1>3, <2>2
    <3> QED BY <1>1, <1>3, <3>1
  <2> QED BY <2>1, <2>2
<1>7. OpenBars(more, f, all, n + 1)
  BY <1>3, <1>4, <1>5, <1>6 DEF OpenBars
<1> QED BY <1>7 DEF more

\* A bar that opens a bucket.
LEMMA OpensAnew ==
  ASSUME NEW f \in DOMAIN BucketOf, NEW n \in Nat, n # 0, n + 1 <= MaxBars, NEW all,
         BucketOf[f][n + 1] # BucketOf[f][n]
  PROVE  /\ OpenBars(<<all[n + 1]>>, f, all, n + 1)
         /\ \A i \in 1..n : BucketOf[f][i] < BucketOf[f][n + 1]
<1>1. MaxBars \in Nat
  BY ChartAssumption
<1>2. n \in 1..MaxBars /\ n + 1 \in n..MaxBars /\ \A i \in 1..n : i \in 1..MaxBars /\ n \in i..MaxBars
  BY <1>1
<1>3. ASSUME NEW i \in 1..n
      PROVE  BucketOf[f][i] < BucketOf[f][n + 1]
  <2>1. BucketOf[f][i] \in Int /\ BucketOf[f][n] \in Int /\ BucketOf[f][i] <= BucketOf[f][n]
    BY <1>2, BucketsGrow
  <2>2. BucketOf[f][n + 1] \in Int /\ BucketOf[f][n] <= BucketOf[f][n + 1]
    BY <1>2, BucketsGrow
  <2> QED BY <2>1, <2>2
<1>4. OpenFrom(f, n + 1, n + 1)
  <2>1. n + 1 \in 1..(n + 1 + 1)
    OBVIOUS
  <2>2. ASSUME NEW i \in 1..(n + 1)
        PROVE  BucketOf[f][i] = BucketOf[f][n + 1] <=> n + 1 <= i
    <3>1. CASE i = n + 1
      BY <3>1
    <3>2. CASE i # n + 1
      <4>1. i \in 1..n /\ ~(n + 1 <= i) /\ i \in 1..MaxBars /\ n + 1 \in i..MaxBars
        BY <1>1, <3>2
      <4>2. BucketOf[f][i] \in Int /\ BucketOf[f][n + 1] \in Int
        BY <4>1, BucketsGrow
      <4> QED BY <1>3, <4>1, <4>2
    <3> QED BY <3>1, <3>2
  <2> QED BY <2>1, <2>2 DEF OpenFrom
<1> DEFINE one == <<all[n + 1]>>
<1>5. IsSeq(one) /\ Len(one) = 1 /\ one[1] = all[n + 1]
  <2>1. one = [i \in 1..1 |-> one[i]] /\ \A i \in 1..1 : one[i] \in {one[j] : j \in 1..1}
    OBVIOUS
  <2>2. Len(one) = 1 /\ one \in Seq({one[j] : j \in 1..1})
    OBVIOUS
  <2> HIDE DEF one
  <2>3. IsSeq(one)
    BY <2>2 DEF IsSeq
  <2>4. one[1] = all[n + 1]
    BY DEF one
  <2> QED BY <2>2, <2>3, <2>4
<1> HIDE DEF one
<1>6. \A i \in 1..Len(one) : one[i] = all[n + 1 + i - 1]
  <2>1. \A i \in 1..1 : i = 1 /\ n + 1 + i - 1 = n + 1
    OBVIOUS
  <2> QED BY <1>5, <2>1
<1>7. Len(one) = n + 1 + 1 - (n + 1)
  BY <1>5
<1>8. OpenBars(one, f, all, n + 1)
  BY <1>4, <1>5, <1>6, <1>7 DEF OpenBars
<1> QED BY <1>3, <1>8 DEF one

\* Which buckets are over does not change while one is open.
LEMMA EndedStay ==
  ASSUME NEW f, NEW n \in Nat, NEW all, NEW longer, EndedBars(longer, f, all, n),
         n # 0 => BucketOf[f][n + 1] = BucketOf[f][n]
  PROVE  EndedBars(longer, f, all, n + 1)
<1> DEFINE over == Over(f, n)
           after == Over(f, n + 1)
<1>1. \A i : i \in 1..(n + 1) <=> i \in 1..n \/ i = n + 1
  OBVIOUS
<1>2. after = over
  <2>1. \A i \in 1..n : n # 0
    OBVIOUS
  <2>2. (1..(n + 1)) \ InBucket(f, BucketOf[f][n + 1], n + 1)
          = (1..n) \ InBucket(f, BucketOf[f][n], n)
    BY <1>1, <2>1 DEF InBucket
  <2> QED BY <2>2 DEF Over
<1>3. ASSUME NEW b \in over
      PROVE  LongerBar(f, b, all, n + 1) = LongerBar(f, b, all, n)
  <2>1. b # BucketOf[f][n + 1]
    <3>1. PICK i \in (1..n) \ InBucket(f, BucketOf[f][n], n) : b = BucketOf[f][i]
      BY <1>3 DEF Over
    <3>2. n # 0
      BY <3>1
    <3> QED BY <3>1, <3>2 DEF InBucket
  <2>2. InBucket(f, b, n + 1) = InBucket(f, b, n)
    BY <1>1, <2>1 DEF InBucket
  <2> QED BY <2>2 DEF LongerBar
<1> HIDE DEF over, after
<1> QED BY <1>2, <1>3 DEF EndedBars, over, after

\* A bucket that is over has made its bar.
LEMMA EndedGrow ==
  ASSUME NEW f \in DOMAIN BucketOf, NEW n \in Nat, n # 0, n + 1 <= MaxBars, NEW all,
         NEW open, OpenBars(open, f, all, n), NEW longer, EndedBars(longer, f, all, n),
         BucketOf[f][n + 1] # BucketOf[f][n]
  PROVE  EndedBars(Append(longer, MergedBar(open)), f, all, n + 1)
<1> DEFINE over == Over(f, n)
           after == Over(f, n + 1)
           last == BucketOf[f][n]
           bar == MergedBar(open)
           more == Append(longer, bar)
           Rank(s, b) == Cardinality({c \in s : c <= b})
<1>1. MaxBars \in Nat
  BY ChartAssumption
<1>2. \A i \in 1..n : BucketOf[f][i] \in Int /\ last \in Int /\ BucketOf[f][i] <= last
  <2>1. \A i \in 1..n : i \in 1..MaxBars /\ n \in i..MaxBars
    BY <1>1
  <2> QED BY <2>1, BucketsGrow
<1>3. \A i \in 1..n : BucketOf[f][i] < BucketOf[f][n + 1]
  BY OpensAnew
<1>4. n \in 1..n /\ last \in Int /\ \A i \in 1..(n + 1) : i \in 1..n \/ i = n + 1
  BY <1>2
<1>5. after = {BucketOf[f][i] : i \in 1..n}
  <2>1. \A i \in 1..n : BucketOf[f][i] # BucketOf[f][n + 1]
    <3> SUFFICES ASSUME NEW i \in 1..n, BucketOf[f][i] = BucketOf[f][n + 1] PROVE FALSE
      OBVIOUS
    <3>1. BucketOf[f][i] \in Int /\ BucketOf[f][i] < BucketOf[f][i]
      BY <1>2, <1>3
    <3> QED BY <3>1
  <2>2. \A i \in 1..n : i \in 1..(n + 1)
    OBVIOUS
  <2>3. (1..(n + 1)) \ InBucket(f, BucketOf[f][n + 1], n + 1) = 1..n
    BY <1>4, <2>1, <2>2 DEF InBucket
  <2> QED BY <2>3 DEF Over
<1>6. over = {BucketOf[f][i] : i \in {j \in 1..n : BucketOf[f][j] # last}}
  <2>1. (1..n) \ InBucket(f, last, n) = {j \in 1..n : BucketOf[f][j] # last}
    BY DEF InBucket
  <2> QED BY <2>1 DEF Over
<1>7. after = over \cup {last}
  BY <1>4, <1>5, <1>6
<1>8. \A b \in over : b \in Int /\ b < last
  <2> SUFFICES ASSUME NEW b \in over PROVE b \in Int /\ b < last
    OBVIOUS
  <2>1. PICK i \in 1..n : b = BucketOf[f][i] /\ b # last
    BY <1>6
  <2>2. b \in Int /\ b <= last /\ b # last
    BY <1>2, <2>1
  <2> HIDE DEF over, last
  <2> QED BY <1>4, <2>2
<1>9. /\ IsFiniteSet(over) /\ IsSeq(longer) /\ Len(longer) = Cardinality(over)
      /\ \A b \in over : longer[Rank(over, b)] = LongerBar(f, b, all, n)
  BY DEF EndedBars
<1>10. bar = LongerBar(f, last, all, n)
  BY MergedIsLonger
<1>11. ASSUME NEW b \in after
       PROVE  LongerBar(f, b, all, n + 1) = LongerBar(f, b, all, n)
  <2>1. PICK i \in 1..n : b = BucketOf[f][i]
    BY <1>5
  <2>2. BucketOf[f][n + 1] # b
    <3> SUFFICES ASSUME BucketOf[f][n + 1] = b PROVE FALSE
      OBVIOUS
    <3>1. b \in Int /\ b < b
      BY <1>2, <1>3, <2>1
    <3> QED BY <3>1
  <2>3. \A k \in 1..n : k \in 1..(n + 1)
    OBVIOUS
  <2>4. InBucket(f, b, n + 1) = InBucket(f, b, n)
    BY <1>4, <2>2, <2>3 DEF InBucket
  <2> QED BY <2>4 DEF LongerBar
<1> HIDE DEF over, after, last, bar, more
<1>12. IsFiniteSet(after) /\ Cardinality(after) = Cardinality(over) + 1 /\ Cardinality(over) \in Nat
  <2>1. last \notin over
    BY <1>4, <1>8
  <2> QED BY <1>7, <1>9, <2>1, FS_AddElement, FS_CardinalityType
<1>13. /\ IsSeq(more) /\ Len(more) = Len(longer) + 1 /\ more[Len(longer) + 1] = bar
       /\ \A i \in 1..Len(longer) : more[i] = longer[i]
  BY <1>9, AppendTo DEF more
<1>14. ASSUME NEW b \in after PROVE more[Rank(after, b)] = LongerBar(f, b, all, n + 1)
  <2>1. CASE b = last
    <3>1. {c \in after : c <= b} = after
      <4>1. ASSUME NEW c \in after PROVE c <= b
        <5>1. c \in over \/ c = last
          BY <1>7
        <5> QED BY <1>4, <1>8, <2>1, <5>1
      <4> QED BY <4>1
    <3>2. Rank(after, b) = Len(longer) + 1
      BY <1>9, <1>12, <3>1
    <3> QED BY <1>10, <1>11, <1>13, <2>1, <3>2
  <2>2. CASE b # last
    <3>1. b \in over
      BY <1>7, <2>2
    <3> DEFINE lower == {c \in over : c <= b}
    <3>2. {c \in after : c <= b} = lower
      BY <1>4, <1>7, <1>8, <3>1
    <3>3. Rank(after, b) = Cardinality(lower) /\ Rank(over, b) = Cardinality(lower)
      BY <3>2
    <3>4. b \in lower /\ lower \in SUBSET over
      BY <1>8, <3>1
    <3> HIDE DEF lower
    <3>5. IsFiniteSet(lower) /\ Cardinality(lower) <= Cardinality(over) /\ Cardinality(lower) \in Nat
      BY <1>9, <3>4, FS_Subset, FS_CardinalityType
    <3>6. Cardinality(lower) # 0
      BY <3>4, <3>5, FS_EmptySet
    <3>7. Cardinality(lower) \in 1..Len(longer)
      BY <1>9, <1>12, <3>5, <3>6
    <3>8. longer[Cardinality(lower)] = LongerBar(f, b, all, n)
      BY <1>9, <3>1, <3>3
    <3> QED BY <1>11, <1>13, <3>3, <3>7, <3>8
  <2> QED BY <2>1, <2>2
<1>15. Len(more) = Cardinality(after)
  BY <1>9, <1>12, <1>13
<1>16. EndedBars(more, f, all, n + 1)
  BY <1>12, <1>13, <1>14, <1>15 DEF EndedBars, after
<1> QED BY <1>16 DEF more, bar

\* What is so of a frame after n bars does not depend on those that follow.
LEMMA FrameBarsCount ==
  ASSUME NEW f, NEW n \in Nat, NEW all, NEW other, \A i \in 1..n : other[i] = all[i],
         NEW open, OpenBars(open, f, all, n), NEW longer, EndedBars(longer, f, all, n)
  PROVE  OpenBars(open, f, other, n) /\ EndedBars(longer, f, other, n)
<1>1. OpenBars(open, f, other, n)
  <2>1. PICK a : /\ OpenFrom(f, a, n)
                 /\ IsSeq(open) /\ Len(open) = n + 1 - a
                 /\ \A i \in 1..Len(open) : open[i] = all[a + i - 1]
    BY DEF OpenBars
  <2>2. a \in 1..(n + 1)
    BY <2>1 DEF OpenFrom
  <2>3. \A i \in 1..Len(open) : a + i - 1 \in 1..n
    BY <2>1, <2>2
  <2>4. \A i \in 1..Len(open) : open[i] = other[a + i - 1]
    BY <2>1, <2>3
  <2> QED BY <2>1, <2>4 DEF OpenBars
<1>2. ASSUME NEW b \in Over(f, n) PROVE LongerBar(f, b, other, n) = LongerBar(f, b, all, n)
  <2> DEFINE group == InBucket(f, b, n)
  <2>1. PICK k \in 1..n : b = BucketOf[f][k]
    BY DEF Over
  <2>2. group \subseteq 1..n /\ k \in group
    BY <2>1 DEF InBucket
  <2> HIDE DEF group
  <2>3. Min(group) \in 1..n /\ Max(group) \in 1..n
    <3>1. Max(group) \in group
      BY <2>2, HighestOf
    <3>2. Min(group) \in group
      <4>1. group \subseteq Nat /\ group # {}
        BY <2>2
      <4>2. \E x \in group : \A y \in group : x <= y
        BY <4>1, LeastOf
      <4> QED BY <4>2 DEF Min
    <3> QED BY <2>2, <3>1, <3>2
  <2>4. \A i \in group : other[i] = all[i]
    BY <2>2
  <2>5. /\ {other[i].high : i \in group} = {all[i].high : i \in group}
        /\ {other[i].low : i \in group} = {all[i].low : i \in group}
    BY <2>4
  <2> QED BY <2>3, <2>5 DEF LongerBar, group
<1>3. EndedBars(longer, f, other, n)
  BY <1>2 DEF EndedBars
<1> QED BY <1>1, <1>3

-----------------------------------------------------------------------------
(* A frame.                                                                *)

FrameFields == {"open", "bars", "swings", "regime"}

IsFrame(e) == e = [x \in FrameFields |-> e[x]]

FrameSound(e, f, all, n) ==
  /\ IsFrame(e) /\ IsSeq(e.swings.log)
  /\ OpenBars(e.open, f, all, n)
  /\ EndedBars(e.bars, f, all, n)
  /\ Speaks(e.regime)

LEMMA SeqJoined ==
  ASSUME NEW s, IsSeq(s), NEW S, NEW x \in Seq(S)
  PROVE  /\ IsSeq(s \o x) /\ Len(s \o x) \in Nat /\ Len(s) \in Nat
         /\ Len(SubSeq(s \o x, Len(s) + 1, Len(s \o x))) \in Nat
<1> DEFINE A == {s[i] : i \in 1..Len(s)}
           T == A \cup S
           t == s \o x
<1>1. s \in Seq(A) /\ Len(s) \in Nat /\ Len(x) \in Nat
  BY DEF IsSeq
<1>2. s \in Seq(T) /\ x \in Seq(T)
  <2>1. s = [i \in 1..Len(s) |-> s[i]] /\ \A i \in 1..Len(s) : s[i] \in T
    BY <1>1
  <2>2. x = [i \in 1..Len(x) |-> x[i]] /\ \A i \in 1..Len(x) : x[i] \in T
    OBVIOUS
  <2> HIDE DEF T
  <2> QED BY <1>1, <2>1, <2>2, SeqDef
<1> HIDE DEF T
<1>3. t \in Seq(T) /\ Len(t) \in Nat /\ Len(t) = Len(s) + Len(x)
  BY <1>1, <1>2, ConcatProperties
<1> HIDE DEF t
<1>4. IsSeq(t)
  BY <1>3, SeqIsSeq
<1>5. Len(SubSeq(t, Len(s) + 1, Len(t))) \in Nat
  <2> DEFINE m == Len(s) + 1
             n == Len(t)
  <2>1. m \in Int /\ n \in Int /\ \A i \in m..n : i \in 1..Len(t)
    BY <1>1, <1>3
  <2>2. \A i \in m..n : t[i] \in T
    BY <1>3, <2>1
  <2> HIDE DEF m, n
  <2>3. Len(SubSeq(t, m, n)) = IF m <= n THEN n - m + 1 ELSE 0
    BY <2>1, <2>2, SubSeqProperties
  <2>4. Len(SubSeq(t, m, n)) \in Nat
    BY <2>1, <2>3
  <2> QED BY <2>4 DEF m, n
<1> QED BY <1>1, <1>3, <1>4, <1>5 DEF t

LEMMA NewFrameSound ==
  ASSUME NEW f, NEW all
  PROVE  FrameSound(NewFrame, f, all, 0)
<1>1. /\ IsFrame(NewFrame) /\ NewFrame.open = <<>> /\ NewFrame.bars = <<>>
      /\ NewFrame.swings.log = <<>> /\ NewFrame.regime = NewRegime
  BY DEF NewFrame, IsFrame, FrameFields, NewEngine
<1>2. IsSeq(<<>>) /\ Len(<<>>) = 0 /\ 1..0 = {}
  BY DEF IsSeq
<1>3. OpenBars(<<>>, f, all, 0)
  <2>1. OpenFrom(f, 1, 0)
    BY <1>2 DEF OpenFrom
  <2> QED BY <1>2, <2>1 DEF OpenBars
<1>4. EndedBars(<<>>, f, all, 0)
  <2>1. Over(f, 0) = {}
    BY <1>2 DEF Over
  <2> QED BY <1>2, <2>1, FS_EmptySet DEF EndedBars
<1> QED BY <1>1, <1>2, <1>3, <1>4, NewRegimeSays DEF FrameSound

LEMMA GrownSays ==
  ASSUME NEW e, IsFrame(e), IsSeq(e.swings.log), Speaks(e.regime), NEW bar, NEW tier, NEW period, NEW er
  PROVE  LET g == Grown(e, bar, tier, period, er)
         IN /\ IsFrame(g) /\ IsSeq(g.swings.log) /\ Speaks(g.regime)
            /\ g.bars = Append(e.bars, bar) /\ g.open = e.open
<1> DEFINE grown == Append(e.bars, bar)
           swings == OnBar(tier, period, e.swings, grown)
           found == SubSeq(swings.log, Len(e.swings.log) + 1, Len(swings.log))
           events == NewEvents(tier, period, e.swings, grown)
           ratio == EfficiencyRatio(grown, Len(grown), er)
           g == Grown(e, bar, tier, period, er)
<1>1. g = [e EXCEPT !.bars = grown, !.swings = swings,
                    !.regime = Classified(e.regime, grown, ratio, found)]
  BY DEF Grown
<1>2. swings.log = e.swings.log \o events
  BY DEF OnBar
<1>3. \E S : events \in Seq(S)
  BY EventsAreOfTheBar
<1> HIDE DEF swings, events, grown, ratio, g
<1>4. IsSeq(swings.log) /\ Len(found) \in Nat
  BY <1>2, <1>3, SeqJoined
<1> HIDE DEF found
<1>5. Speaks(Classified(e.regime, grown, ratio, found))
  BY <1>4, BarSays
<1>6. /\ IsFrame(g) /\ g.swings = swings /\ g.bars = grown /\ g.open = e.open
      /\ g.regime = Classified(e.regime, grown, ratio, found)
  BY <1>1 DEF IsFrame, FrameFields
<1> QED BY <1>4, <1>5, <1>6 DEF g, grown

\* One bar more for a frame.
LEMMA PushedSound ==
  ASSUME NEW f \in DOMAIN BucketOf, NEW n \in Nat, n + 1 <= MaxBars, NEW all, Len(all) = n + 1,
         NEW e, FrameSound(e, f, all, n), NEW tier, NEW period, NEW er
  PROVE  FrameSound(Pushed(e, BucketOf[f], all, tier, period, er), f, all, n + 1)
<1> DEFINE done == Finished(e, BucketOf[f], all)
           turns == n # 0 /\ BucketOf[f][n + 1] # BucketOf[f][n]
           p == Pushed(e, BucketOf[f], all, tier, period, er)
<1>1. /\ IsFrame(e) /\ IsSeq(e.swings.log) /\ Speaks(e.regime)
      /\ OpenBars(e.open, f, all, n) /\ EndedBars(e.bars, f, all, n)
  BY DEF FrameSound
<1>2. e.open # <<>> <=> n # 0
  <2>1. PICK a : OpenFrom(f, a, n) /\ IsSeq(e.open) /\ Len(e.open) = n + 1 - a
    BY <1>1 DEF OpenBars
  <2>2. a \in 1..(n + 1) /\ (n # 0 => a <= n)
    BY <2>1 DEF OpenFrom
  <2>3. Len(e.open) = 0 <=> n = 0
    BY <2>1, <2>2
  <2>4. e.open = <<>> <=> Len(e.open) = 0
    BY <2>1, EmptySeq DEF IsSeq
  <2> QED BY <2>3, <2>4
<1>3. Last(all) = all[n + 1] /\ Len(all) - 1 = n
  BY DEF Last
<1>4. CASE turns
  <2>1. done = <<MergedBar(e.open)>>
    BY <1>2, <1>3, <1>4 DEF Finished
  <2>2. done # <<>> /\ done[1] = MergedBar(e.open)
    BY <2>1
  <2> DEFINE g == Grown(e, MergedBar(e.open), tier, period, er)
             open == <<all[n + 1]>>
  <2>3. p = [g EXCEPT !.open = open]
    BY <1>3, <2>2 DEF Pushed
  <2> HIDE DEF open
  <2>4. /\ IsFrame(g) /\ IsSeq(g.swings.log) /\ Speaks(g.regime)
        /\ g.bars = Append(e.bars, MergedBar(e.open))
    BY <1>1, GrownSays
  <2> HIDE DEF g, p, done
  <2>5. /\ IsFrame(p) /\ p.swings = g.swings /\ p.regime = g.regime /\ p.bars = g.bars
        /\ p.open = open
    BY <2>3, <2>4 DEF IsFrame, FrameFields
  <2>6. OpenBars(open, f, all, n + 1)
    BY <1>4, OpensAnew DEF open
  <2>7. EndedBars(Append(e.bars, MergedBar(e.open)), f, all, n + 1)
    BY <1>1, <1>4, EndedGrow
  <2>8. FrameSound(p, f, all, n + 1)
    BY <2>4, <2>5, <2>6, <2>7 DEF FrameSound
  <2> QED BY <2>8 DEF p
<1>5. CASE ~turns
  <2>1. done = <<>>
    BY <1>2, <1>3, <1>5 DEF Finished
  <2>2. p = [e EXCEPT !.open = Append(e.open, all[n + 1])]
    BY <1>3, <2>1 DEF Pushed
  <2> HIDE DEF p, done
  <2>3. /\ IsFrame(p) /\ p.swings = e.swings /\ p.regime = e.regime /\ p.bars = e.bars
        /\ p.open = Append(e.open, all[n + 1])
    BY <1>1, <2>2 DEF IsFrame, FrameFields
  <2>4. n # 0 => BucketOf[f][n + 1] = BucketOf[f][n]
    BY <1>5
  <2>5. OpenBars(p.open, f, all, n + 1)
    BY <1>1, <2>3, <2>4, OpenGoesOn
  <2>6. EndedBars(p.bars, f, all, n + 1)
    BY <1>1, <2>3, <2>4, EndedStay
  <2>7. FrameSound(p, f, all, n + 1)
    BY <1>1, <2>3, <2>5, <2>6 DEF FrameSound
  <2> QED BY <2>7 DEF p
<1> QED BY <1>4, <1>5

LEMMA FrameCounts ==
  ASSUME NEW f, NEW n \in Nat, NEW all, NEW other, \A i \in 1..n : other[i] = all[i],
         NEW e, FrameSound(e, f, all, n)
  PROVE  FrameSound(e, f, other, n)
BY FrameBarsCount DEF FrameSound

-----------------------------------------------------------------------------
(* Every bar.                                                              *)

PushedAt(g, f, i) ==
  IF i = 0 THEN NewFrame
  ELSE Pushed(g[i - 1], BucketOf[f], SubSeq(History, 1, i), Tiers[RegimeTier], AtrPeriod, ErPeriod)

LEMMA FrameGoesOn ==
  ASSUME NEW f, Len(History) \in Nat
  PROVE  \E g : /\ \A i \in 0..Len(History) : g[i] = PushedAt(g, f, i)
                /\ WarmedFrame(f) = g[Len(History)]
<1> DEFINE Goes(g, i) == PushedAt(g, f, i)
           Is(g, n) == g = [i \in 0..n |-> Goes(g, i)]
           Bad == {n \in Nat : ~ \E g : Is(g, n)}
<1>1. Bad = {}
  <2> SUFFICES ASSUME Bad # {} PROVE FALSE
    OBVIOUS
  <2>1. PICK n \in Bad : \A m \in Bad : n <= m
    BY LeastOf
  <2>2. CASE n = 0
    <3>1. Is([i \in 0..0 |-> NewFrame], 0)
      BY DEF PushedAt
    <3> QED BY <2>1, <2>2, <3>1
  <2>3. CASE n # 0
    <3>1. n \in Nat /\ n - 1 \in Nat /\ n - 1 \notin Bad
      <4>1. n \in Nat
        BY <2>1
      <4> HIDE DEF Bad
      <4>2. n - 1 \in Nat /\ ~(n <= n - 1)
        BY <2>3, <4>1
      <4> QED BY <2>1, <4>1, <4>2
    <3>2. PICK h : Is(h, n - 1)
      BY <3>1
    <3> DEFINE g == [i \in 0..n |-> IF i < n THEN h[i] ELSE Goes(h, n)]
    <3>3. ASSUME NEW i \in 0..n PROVE g[i] = Goes(g, i)
      <4>1. i # 0 => i - 1 \in 0..n /\ i - 1 < n
        BY <3>1
      <4>2. i # 0 => g[i - 1] = h[i - 1]
        BY <4>1
      <4>3. Goes(g, i) = Goes(h, i)
        BY <4>2 DEF PushedAt
      <4>4. g[i] = Goes(h, i)
        <5>1. CASE i < n
          <6>1. i \in 0..(n - 1) /\ g[i] = h[i]
            BY <3>1, <5>1
          <6> HIDE DEF g, Goes
          <6> QED BY <3>2, <6>1
        <5>2. CASE ~(i < n)
          <6>1. i = n
            BY <3>1, <5>2
          <6> QED BY <5>2, <6>1
        <5> QED BY <5>1, <5>2
      <4> QED BY <4>3, <4>4
    <3>4. Is(g, n)
      <4> HIDE DEF Goes
      <4>1. g = [i \in 0..n |-> g[i]]
        OBVIOUS
      <4> HIDE DEF g
      <4> QED BY <3>3, <4>1
    <3> QED BY <2>1, <3>4
  <2> QED BY <2>2, <2>3
<1>2. \E g : Is(g, Len(History))
  BY <1>1
<1> DEFINE Whole == CHOOSE g : Is(g, Len(History))
<1>3. Is(Whole, Len(History))
  BY <1>2
<1>4. WarmedFrame(f) = Whole[Len(History)]
  BY DEF WarmedFrame, PushedAt
<1> HIDE DEF Whole
<1>5. \A i \in 0..Len(History) : Whole[i] = Goes(Whole, i)
  <2> HIDE DEF Goes
  <2> QED BY <1>3
<1> QED BY <1>4, <1>5

LEMMA WarmedFrameSound ==
  ASSUME NEW f \in DOMAIN BucketOf
  PROVE  FrameSound(WarmedFrame(f), f, History, Len(History))
<1> DEFINE n == Len(History)
           S == Bars(Int)
<1>1. History \in Seq(S) /\ n \in Nat /\ n + 1 \in 1..MaxBars /\ MaxBars \in Nat
  BY HistoryIsBars, ChartAssumption
<1>2. PICK g : /\ \A i \in 0..n : g[i] = PushedAt(g, f, i)
               /\ WarmedFrame(f) = g[n]
  BY <1>1, FrameGoesOn
<1> DEFINE Bad == {i \in 0..n : ~FrameSound(g[i], f, History, i)}
<1> HIDE DEF S
<1>3. FrameSound(g[0], f, History, 0)
  <2>1. 0 \in 0..n
    BY <1>1
  <2>2. g[0] = NewFrame
    BY <1>2, <2>1 DEF PushedAt
  <2> QED BY <2>2, NewFrameSound
<1>4. ASSUME NEW i \in 1..n, FrameSound(g[i - 1], f, History, i - 1)
      PROVE  FrameSound(g[i], f, History, i)
  <2> DEFINE all == SubSeq(History, 1, i)
             m == i - 1
             e == g[i - 1]
  <2>1. m \in Nat /\ m + 1 = i /\ m + 1 <= MaxBars /\ i \in 0..n /\ i # 0
    BY <1>1
  <2>2. Len(all) = i /\ \A j \in 1..i : all[j] = History[j]
    <3>1. i \in Int /\ 1 <= i /\ \A j \in 1..i : j \in 1..n
      BY <1>1
    <3>2. \A j \in 1..i : History[j] \in S
      BY <1>1, <3>1
    <3>3. /\ Len(all) = IF 1 <= i THEN i - 1 + 1 ELSE 0
          /\ \A j \in 1..(i - 1 + 1) : all[j] = History[1 + j - 1]
      BY <3>1, <3>2, SubSeqProperties
    <3> HIDE DEF all
    <3> QED BY <3>1, <3>3
  <2>3. g[i] = Pushed(e, BucketOf[f], all, Tiers[RegimeTier], AtrPeriod, ErPeriod)
    BY <1>2, <2>1 DEF PushedAt
  <2>4. FrameSound(e, f, History, m)
    BY <1>4
  <2> HIDE DEF all, m, e
  <2>5. FrameSound(e, f, all, m)
    <3>1. \A j \in 1..m : all[j] = History[j]
      BY <2>1, <2>2
    <3> QED BY <2>1, <2>4, <3>1, FrameCounts
  <2>6. FrameSound(g[i], f, all, m + 1)
    BY <2>1, <2>2, <2>3, <2>5, PushedSound
  <2>7. \A j \in 1..i : History[j] = all[j]
    BY <2>2
  <2>8. i \in Nat
    BY <2>1
  <2> QED BY <2>1, <2>6, <2>7, <2>8, FrameCounts
<1>5. Bad = {}
  <2> SUFFICES ASSUME Bad # {} PROVE FALSE
    OBVIOUS
  <2>1. PICK k \in Bad : \A m \in Bad : k <= m
    <3>1. Bad \subseteq Nat
      BY <1>1
    <3> HIDE DEF Bad
    <3> QED BY <3>1, LeastOf
  <2>2. k \in 0..n /\ ~FrameSound(g[k], f, History, k)
    BY <2>1
  <2>3. k # 0
    BY <1>3, <2>2
  <2>4. k \in 1..n /\ k - 1 \in 0..n /\ ~(k <= k - 1)
    BY <1>1, <2>2, <2>3
  <2>5. FrameSound(g[k - 1], f, History, k - 1)
    BY <2>1, <2>4
  <2> QED BY <1>4, <2>2, <2>4, <2>5
<1>6. n \in 0..n
  BY <1>1
<1> QED BY <1>2, <1>5, <1>6

FrameInv ==
  /\ SwingInv
  /\ Speaks(regime)
  /\ DOMAIN frames = DOMAIN BucketOf
  /\ \A f \in DOMAIN BucketOf : FrameSound(frames[f], f, bars, ClosedBars)

LEMMA InitFrames == ObservationInit => FrameInv
<1> SUFFICES ASSUME ObservationInit PROVE FrameInv
  OBVIOUS
<1>1. SwingInv
  BY InitAgrees DEF ObservationInit
<1>2. PICK b : bars = Append(History, Opening(b.open))
  BY DEF ObservationInit, Init
<1>3. IsSeq(History) /\ Len(History) \in Nat
  <2>1. History \in Seq(ToSet(History)) /\ ToSet(History) = {History[i] : i \in 1..Len(History)}
    BY ChartAssumption DEF ToSet
  <2> QED BY <2>1 DEF IsSeq
<1>4. ClosedBars = Len(History) /\ \A i \in 1..Len(History) : bars[i] = History[i]
  BY <1>2, <1>3, AppendTo DEF ClosedBars
<1>5. regime = NewRegime /\ frames = [f \in DOMAIN BucketOf |-> WarmedFrame(f)]
  BY DEF ObservationInit
<1>6. ASSUME NEW f \in DOMAIN BucketOf PROVE FrameSound(frames[f], f, bars, ClosedBars)
  <2>1. FrameSound(WarmedFrame(f), f, History, Len(History))
    BY WarmedFrameSound
  <2> QED BY <1>3, <1>4, <1>5, <2>1, FrameCounts
<1> QED BY <1>1, <1>5, <1>6, NewRegimeSays DEF FrameInv

LEMMA ShapeFrames == ASSUME FrameInv, Shape, UNCHANGED observed PROVE FrameInv'
<1>1. /\ SwingInv' /\ ClosedBars \in Nat /\ ClosedBars' = ClosedBars
      /\ \A i \in 1..ClosedBars : bars'[i] = bars[i]
  BY ShapeKeepsClosed DEF FrameInv
<1>2. regime' = regime /\ frames' = frames
  BY DEF observed
<1>3. ASSUME NEW f \in DOMAIN BucketOf PROVE FrameSound(frames'[f], f, bars', ClosedBars')
  <2>1. FrameSound(frames[f], f, bars, ClosedBars)
    BY DEF FrameInv
  <2> QED BY <1>1, <1>2, <2>1, FrameCounts
<1> QED BY <1>1, <1>2, <1>3 DEF FrameInv

LEMMA ObserveFrames == ASSUME FrameInv, NextBar, Observe PROVE FrameInv'
<1> DEFINE n == ClosedBars
<1>1. /\ SwingInv' /\ n \in Nat /\ ClosedBars' = n + 1
      /\ Len(bars) = n + 1 /\ n + 1 <= MaxBars
      /\ \A i \in 1..(n + 1) : bars'[i] = bars[i]
  BY NextBarCloses DEF FrameInv
<1> HIDE DEF n
<1>6. Speaks(regime')
  <2>1. regime' = Classified(regime, bars, EfficiencyRatio(bars, Len(bars), ErPeriod),
                             Confirming(RegimeTier))
    BY DEF Observe
  <2>2. Len(Confirming(RegimeTier)) \in Nat
    BY EventsAreOfTheBar DEF Confirming, AllAt
  <2>3. Speaks(regime)
    BY DEF FrameInv
  <2> QED BY <2>1, <2>2, <2>3, BarSays
<1>7. frames' = [f \in DOMAIN BucketOf |->
                   Pushed(frames[f], BucketOf[f], bars, Tiers[RegimeTier], AtrPeriod, ErPeriod)]
  BY DEF Observe
<1>8. ASSUME NEW f \in DOMAIN BucketOf PROVE FrameSound(frames'[f], f, bars', ClosedBars')
  <2>1. FrameSound(frames[f], f, bars, n)
    BY DEF FrameInv, n
  <2>2. FrameSound(frames'[f], f, bars, n + 1)
    BY <1>1, <1>7, <2>1, PushedSound
  <2>3. n + 1 \in Nat
    BY <1>1
  <2> QED BY <1>1, <2>2, <2>3, FrameCounts
<1> QED BY <1>1, <1>6, <1>7, <1>8 DEF FrameInv

-----------------------------------------------------------------------------
(* What they say.                                                          *)

LEMMA BucketsAreOver == ASSUME FrameInv PROVE HigherBarsAreOver
<1>1. Len(Closed) = ClosedBars
  <2>1. Len(bars) \in Nat /\ Len(bars) # 0 /\ bars \in Seq(Bars(Int))
    BY DEF FrameInv, SwingInv
  <2> QED BY <2>1, AllButLast DEF Closed, ClosedBars
<1> SUFFICES ASSUME NEW f \in DOMAIN frames
             PROVE  LET over == Over(f, ClosedBars)
                    IN /\ Len(frames[f].bars) = Cardinality(over)
                       /\ \A b \in over :
                            frames[f].bars[Cardinality({c \in over : c <= b})]
                              = LongerBar(f, b, bars, ClosedBars)
  BY <1>1 DEF HigherBarsAreOver
<1>2. EndedBars(frames[f].bars, f, bars, ClosedBars)
  BY DEF FrameInv, FrameSound
<1> QED BY <1>2 DEF EndedBars

\* What a timeframe says of its engine.
LEMMA StructureSays ==
  ASSUME NEW r, Speaks(r), NEW completed
  PROVE  LET s == StructureOf(r, completed)
         IN /\ s.regime # None => s.regime = r.regime
            /\ s.direction = r.direction
<1>1. IsSeq(r.states) /\ Len(r.states) \in Nat /\ (r.states = <<>> <=> Len(r.states) = 0)
  BY EmptySeq DEF Speaks, IsSeq
<1>2. CASE Len(r.states) = 0
  <2>1. Said(r) = Unsaid /\ r.direction = None
    BY <1>1, <1>2 DEF Said, Speaks
  <2> QED BY <2>1 DEF StructureOf, Unsaid
<1>3. CASE Len(r.states) # 0
  <2>1. Said(r) = r.states[Len(r.states)]
    BY <1>1, <1>3 DEF Said, Last
  <2> QED BY <1>3, <2>1 DEF StructureOf, Speaks
<1> QED BY <1>2, <1>3

LEMMA ContextIsHeld == ASSUME FrameInv PROVE ContextSaysWhatIsHeld
<1> DEFINE snapshot == Snapshot(regime, Closed, frames)
           x == StructureOf(regime, Len(Closed))
           H(f) == StructureOf(frames[f].regime, Len(frames[f].bars))
<1>1. /\ snapshot.execution = x
      /\ \A f \in DOMAIN frames : /\ snapshot.higher[f] = H(f)
                                  /\ snapshot.alignment[f] = Alignment(x, H(f))
  BY DEF Snapshot
<1>2. Speaks(regime) /\ (x.regime # None => x.regime = regime.regime)
      /\ x.direction = regime.direction
  BY StructureSays DEF FrameInv
<1>3. ASSUME NEW f \in DOMAIN frames
      PROVE  /\ Speaks(frames[f].regime)
             /\ H(f).regime # None => H(f).regime = frames[f].regime.regime
             /\ H(f).direction = frames[f].regime.direction
  <2>1. Speaks(frames[f].regime)
    BY DEF FrameInv, FrameSound
  <2> QED BY <2>1, StructureSays
<1> HIDE DEF snapshot, x, H
<1>4. ASSUME NEW f \in DOMAIN frames
      PROVE  /\ snapshot.alignment[f] = "UNDEFINED" <=>
                  "CONSOLIDATION" \in {regime.regime, frames[f].regime.regime}
             /\ snapshot.alignment[f] = "ALIGNED" =>
                  regime.direction = frames[f].regime.direction
  <2>1. snapshot.alignment[f] = IF regime.direction = None \/ frames[f].regime.direction = None
                                THEN "UNDEFINED"
                                ELSE IF regime.direction = frames[f].regime.direction
                                THEN "ALIGNED" ELSE "COUNTER"
    BY <1>1, <1>2, <1>3 DEF Alignment
  <2>2. /\ regime.direction = None <=> regime.regime = "CONSOLIDATION"
        /\ frames[f].regime.direction = None <=> frames[f].regime.regime = "CONSOLIDATION"
    BY <1>2, <1>3 DEF Speaks
  <2> QED BY <2>1, <2>2
<1> QED BY <1>1, <1>2, <1>3, <1>4 DEF ContextSaysWhatIsHeld, snapshot

\* Of whatever bars, tiers and buckets, each longer timeframe has seen the bars of the
\* buckets that are over, each with all its bars, and the last record of each engine says
\* what it holds (structure_context.py:27, :127).
THEOREM LongerFramesAreOver == ObservationSpec => []LongerFramesAreRight
<1>1. ObservationInit => FrameInv
  BY InitFrames
<1>2. FrameInv /\ [ObservationNext]_<<vars, observed>> => FrameInv'
  <2> SUFFICES ASSUME FrameInv, [ObservationNext]_<<vars, observed>> PROVE FrameInv'
    OBVIOUS
  <2>1. CASE Shape /\ UNCHANGED observed
    BY <2>1, ShapeFrames
  <2>2. CASE NextBar /\ Observe
    BY <2>2, ObserveFrames
  <2>3. CASE UNCHANGED <<vars, observed>>
    <3>1. bars' = bars /\ engines' = engines /\ regime' = regime /\ frames' = frames
      BY <2>3 DEF vars, observed
    <3> QED BY <3>1 DEF FrameInv, SwingInv, Closed, ClosedBars
  <2> QED BY <2>1, <2>2, <2>3 DEF ObservationNext
<1>3. FrameInv => LongerFramesAreRight
  BY BucketsAreOver, ContextIsHeld DEF LongerFramesAreRight
<1> QED BY <1>1, <1>2, <1>3, PTL DEF ObservationSpec

-----------------------------------------------------------------------------
(* The first, the latest and the nearest of some swings.                   *)

\* The swings a sequence holds have a date, a pivot and a price.
Dated(swings, n) ==
  /\ IsSeq(swings) /\ Len(swings) \in Nat
  /\ \A m \in 1..Len(swings) :
       swings[m].at \in 1..n /\ swings[m].pivot \in Nat /\ swings[m].price \in Int

LEMMA FirstIsThere ==
  ASSUME NEW n, NEW swings, Dated(swings, n), NEW some, some \subseteq 1..Len(swings), some # {}, n \in Nat
  PROVE  \E m \in some : \A k \in some : L!Precedes(swings, m, k)
<1>1. \A m \in some : m \in Nat /\ swings[m].at \in Nat /\ swings[m].pivot \in Nat
  BY DEF Dated
<1> DEFINE dates == {swings[m].at : m \in some}
<1>2. dates \subseteq Nat /\ dates # {}
  BY <1>1
<1>3. PICK a \in dates : \A b \in dates : a <= b
  BY <1>2, LeastOf
<1> DEFINE early == {m \in some : swings[m].at = a}
           pivots == {swings[m].pivot : m \in early}
<1>4. pivots \subseteq Nat /\ pivots # {}
  BY <1>1, <1>3
<1>5. PICK p \in pivots : \A q \in pivots : p <= q
  BY <1>4, LeastOf
<1> DEFINE least == {m \in early : swings[m].pivot = p}
<1>6. least \subseteq Nat /\ least # {}
  BY <1>1, <1>5
<1>7. PICK m \in least : \A k \in least : m <= k
  BY <1>6, LeastOf
<1>8. m \in some /\ swings[m].at = a /\ swings[m].pivot = p
  BY <1>7
<1>9. ASSUME NEW k \in some PROVE L!Precedes(swings, m, k)
  <2>1. a <= swings[k].at /\ a \in Nat /\ swings[k].at \in Nat
    BY <1>1, <1>2, <1>3
  <2>2. CASE a < swings[k].at
    BY <1>8, <2>2 DEF L!Precedes
  <2>3. CASE a = swings[k].at
    <3>1. p <= swings[k].pivot /\ p \in Nat /\ swings[k].pivot \in Nat
      BY <1>1, <1>4, <1>5, <2>3
    <3>2. CASE p < swings[k].pivot
      BY <1>8, <2>3, <3>2 DEF L!Precedes
    <3>3. CASE p = swings[k].pivot
      <4>1. m <= k
        BY <1>7, <2>3, <3>3
      <4> QED BY <1>8, <2>3, <3>3, <4>1 DEF L!Precedes
    <3> QED BY <3>1, <3>2, <3>3
  <2> QED BY <2>1, <2>2, <2>3
<1> QED BY <1>8, <1>9

LEMMA FirstOfSome ==
  ASSUME NEW n \in Nat, NEW swings, Dated(swings, n), NEW some, some \subseteq 1..Len(swings), some # {}
  PROVE  /\ L!FirstOf(swings, some) \in some
         /\ \A k \in some : L!Precedes(swings, L!FirstOf(swings, some), k)
<1>1. \E m \in some : \A k \in some : L!Precedes(swings, m, k)
  BY FirstIsThere
<1>2. L!FirstOf(swings, some) = CHOOSE m \in some : \A k \in some : L!Precedes(swings, m, k)
  BY DEF L!FirstOf
<1> QED BY <1>1, <1>2

\* Of finitely many prices one is the nearest.
LEMMA NearestIsThere ==
  ASSUME NEW n \in Nat, NEW price, NEW some, some \subseteq 1..n, some # {},
         \A m \in some : price[m] \in Int, NEW type
  PROVE  \E m \in some : \A k \in some : ~Beyond(type, price[m], price[k])
<1> DEFINE Fits(S, i) == S \subseteq 1..i /\ S # {} /\ \A m \in S : price[m] \in Int
           Has(S) == \E m \in S : \A k \in S : ~Beyond(type, price[m], price[k])
           Bad == {i \in Nat : ~ \A S \in SUBSET (1..i) : Fits(S, i) => Has(S)}
<1>1. Bad = {}
  <2> SUFFICES ASSUME Bad # {} PROVE FALSE
    OBVIOUS
  <2>1. Bad \subseteq Nat
    OBVIOUS
  <2>2. PICK i \in Bad : \A j \in Bad : i <= j
    <3> HIDE DEF Bad
    <3> QED BY <2>1, LeastOf
  <2>3. PICK S \in SUBSET (1..i) : Fits(S, i) /\ ~Has(S)
    BY <2>2
  <2>4. i \in Nat /\ i # 0
    <3>1. i \in Nat
      BY <2>1, <2>2
    <3>2. i # 0
      <4>1. PICK m \in S : m \in 1..i
        BY <2>3
      <4> QED BY <3>1, <4>1
    <3> QED BY <3>1, <3>2
  <2>5. i - 1 \in Nat /\ ~(i <= i - 1)
    BY <2>4
  <2>6. i - 1 \notin Bad
    <3> HIDE DEF Bad
    <3> QED BY <2>2, <2>5
  <2>7. ASSUME NEW Q, Fits(Q, i - 1) PROVE Has(Q)
    <3>1. Q \in SUBSET (1..(i - 1))
      BY <2>7
    <3> QED BY <2>5, <2>6, <2>7, <3>1
  <2> HIDE DEF Bad
  <2> DEFINE Q == S \ {i}
  <2>8. Q \subseteq 1..(i - 1) /\ \A m \in Q : price[m] \in Int
    BY <2>3, <2>4
  <2>9. CASE Q = {}
    <3>1. S = {i} /\ price[i] \in Int
      BY <2>3, <2>9
    <3>2. ~Beyond(type, price[i], price[i])
      BY <3>1 DEF Beyond
    <3> QED BY <2>3, <3>1, <3>2
  <2>10. CASE Q # {}
    <3>1. PICK m \in Q : \A k \in Q : ~Beyond(type, price[m], price[k])
      <4>1. Fits(Q, i - 1)
        BY <2>8, <2>10
      <4>2. Has(Q)
        BY <2>7, <4>1
      <4> QED BY <4>2
    <3>2. CASE i \in S
      <4>1. price[i] \in Int /\ price[m] \in Int
        BY <2>3, <3>1, <3>2
      <4>2. CASE ~Beyond(type, price[m], price[i])
        <5>1. \A k \in S : ~Beyond(type, price[m], price[k])
          BY <3>1, <4>2
        <5> QED BY <2>3, <3>1, <5>1
      <4>3. CASE Beyond(type, price[m], price[i])
        <5>1. ~Beyond(type, price[i], price[i])
          BY <4>1 DEF Beyond
        <5>2. ASSUME NEW k \in Q PROVE ~Beyond(type, price[i], price[k])
          <6>1. price[k] \in Int /\ ~Beyond(type, price[m], price[k])
            BY <2>8, <3>1
          <6> QED BY <4>1, <4>3, <6>1 DEF Beyond
        <5>3. \A k \in S : ~Beyond(type, price[i], price[k])
          BY <5>1, <5>2
        <5> QED BY <2>3, <3>2, <5>3
      <4> QED BY <4>2, <4>3
    <3>3. CASE i \notin S
      <4>1. Q = S
        BY <3>3
      <4> QED BY <2>3, <3>1, <4>1
    <3> QED BY <3>2, <3>3
  <2> QED BY <2>9, <2>10
<1>2. Fits(some, n) /\ some \in SUBSET (1..n)
  OBVIOUS
<1>3. n \notin Bad
  BY <1>1
<1> QED BY <1>2, <1>3

-----------------------------------------------------------------------------
(* The swings that are known.                                              *)

\* What a bar adds is dated by it, at a pivot and a price.
IsDated(e, n) == e.at = n /\ e.pivot \in Nat /\ e.price \in Int

LEMMA EventsAreDated ==
  ASSUME NEW tier, tier.k \in Nat \ {0}, NEW period, NEW engine, NEW front, NEW all,
         Continues(front, all), Untouched(engine, front)
  PROVE  LET events == NewEvents(tier, period, engine, all)
         IN /\ \E S : events \in Seq(S)
            /\ Len(events) \in Nat /\ \A i \in 1..Len(events) : IsDated(events[i], Len(all))
<1> DEFINE a == Breaks(engine, all, "HIGH")
           b == Breaks(engine, all, "LOW")
           c == NewPivot(tier, period, all, "HIGH")
           d == NewPivot(tier, period, all, "LOW")
           n == Len(all)
           S == {e \in {a[1], b[1], c[1], d[1]} : IsDated(e, n)}
<1>1. n \in Nat
  BY DEF Continues
<1>2. ASSUME NEW type \in Types
      PROVE  \/ Breaks(engine, all, type) = <<>>
             \/ \E e : Breaks(engine, all, type) = <<e>> /\ IsDated(e, n)
  <2> DEFINE e == Broken(engine.active[type][1], n)
  <2>1. CASE Breaks(engine, all, type) # <<>>
    <3>1. Breaks(engine, all, type) = <<e>> /\ engine.active[type] # <<>>
      BY <2>1 DEF Breaks
    <3>2. engine.active[type][1].pivot \in Nat /\ engine.active[type][1].price \in Int
      BY <3>1 DEF Untouched
    <3>3. IsDated(e, n)
      BY <3>2 DEF IsDated, Broken
    <3> HIDE DEF e
    <3> QED BY <3>1, <3>3
  <2> QED BY <2>1
<1>3. ASSUME NEW type \in Types
      PROVE  \/ NewPivot(tier, period, all, type) = <<>>
             \/ \E e : NewPivot(tier, period, all, type) = <<e>> /\ IsDated(e, n)
  <2> DEFINE p == n - tier.k
             e == Confirmed(tier, all, n, type, Atr(all, p, period))
  <2>1. CASE NewPivot(tier, period, all, type) # <<>>
    <3>1. NewPivot(tier, period, all, type) = <<e>> /\ p > tier.k
      BY <2>1 DEF NewPivot
    <3>2. p \in 1..n
      BY <1>1, <3>1
    <3>3. e.at = n /\ e.pivot = p /\ e.price = Tip(type, all[p])
      BY DEF Confirmed
    <3> HIDE DEF e, p, n
    <3>4. Tip(type, all[p]) \in Int
      BY <3>2, PricesOf DEF Continues, n
    <3>5. IsDated(e, n)
      BY <1>1, <3>2, <3>3, <3>4 DEF IsDated
    <3> QED BY <3>1, <3>5
  <2> QED BY <2>1
<1>4. "HIGH" \in Types /\ "LOW" \in Types
  BY DEF Types
<1>5. /\ a = <<>> \/ \E e : a = <<e>> /\ IsDated(e, n)
      /\ b = <<>> \/ \E e : b = <<e>> /\ IsDated(e, n)
      /\ c = <<>> \/ \E e : c = <<e>> /\ IsDated(e, n)
      /\ d = <<>> \/ \E e : d = <<e>> /\ IsDated(e, n)
  <2> HIDE DEF a, b, c, d, n
  <2>1. a = <<>> \/ \E e : a = <<e>> /\ IsDated(e, n)
    BY <1>2, <1>4 DEF a, n
  <2>2. b = <<>> \/ \E e : b = <<e>> /\ IsDated(e, n)
    BY <1>2, <1>4 DEF b, n
  <2>3. c = <<>> \/ \E e : c = <<e>> /\ IsDated(e, n)
    BY <1>3, <1>4 DEF c, n
  <2>4. d = <<>> \/ \E e : d = <<e>> /\ IsDated(e, n)
    BY <1>3, <1>4 DEF d, n
  <2> QED BY <2>1, <2>2, <2>3, <2>4
<1>6. NewEvents(tier, period, engine, all) = ((a \o b) \o c) \o d
  BY DEF NewEvents
<1> HIDE DEF a, b, c, d, n
<1>7. a \in Seq(S) /\ b \in Seq(S) /\ c \in Seq(S) /\ d \in Seq(S)
  <2>1. ASSUME NEW T, NEW x, x = <<>> \/ \E e : x = <<e>> /\ IsDated(e, n), IsDated(x[1], n) => x[1] \in T
        PROVE  x \in Seq(T)
    <3>1. CASE x = <<>>
      BY <3>1
    <3>2. CASE \E e : x = <<e>> /\ IsDated(e, n)
      <4>1. PICK e : x = <<e>> /\ IsDated(e, n)
        BY <3>2
      <4>2. e \in T
        BY <2>1, <4>1
      <4> QED BY <4>1, <4>2
    <3> QED BY <2>1, <3>1, <3>2
  <2>2. ASSUME NEW x \in {a, b, c, d} PROVE IsDated(x[1], n) => x[1] \in S
    OBVIOUS
  <2> HIDE DEF S
  <2> QED BY <1>5, <2>1, <2>2
<1>8. \A e \in S : IsDated(e, n)
  OBVIOUS
<1> HIDE DEF S
<1>9. ((a \o b) \o c) \o d \in Seq(S)
  <2>1. a \o b \in Seq(S)
    BY <1>7, ConcatProperties
  <2>2. (a \o b) \o c \in Seq(S)
    BY <1>7, <2>1, ConcatProperties
  <2> QED BY <1>7, <2>2, ConcatProperties
<1> DEFINE z == ((a \o b) \o c) \o d
<1>10. z \in Seq(S)
  BY <1>9
<1> HIDE DEF z
<1>11. Len(z) \in Nat /\ \A i \in 1..Len(z) : z[i] \in S
  BY <1>10
<1>12. (\E T : z \in Seq(T)) /\ Len(z) \in Nat /\ \A i \in 1..Len(z) : IsDated(z[i], n)
  BY <1>8, <1>10, <1>11
<1> QED BY <1>6, <1>12 DEF z, n

\* The swings grow by some that are later than all the others.
Lengthens(swings, more, n) ==
  /\ IsSeq(more) /\ Len(swings) \in Nat /\ Len(more) \in Nat /\ Len(swings) <= Len(more)
  /\ \A m \in 1..Len(swings) : more[m] = swings[m]
  /\ \A m \in (Len(swings) + 1)..Len(more) : IsDated(more[m], n + 1)

LEMMA LengthenedIsDated ==
  ASSUME NEW n \in Nat, NEW swings, NEW more, Dated(swings, n), Lengthens(swings, more, n)
  PROVE  Dated(more, n + 1)
<1>1. ASSUME NEW m \in 1..Len(more)
      PROVE  more[m].at \in 1..(n + 1) /\ more[m].pivot \in Nat /\ more[m].price \in Int
  <2>1. CASE m \in 1..Len(swings)
    BY <2>1 DEF Dated, Lengthens
  <2>2. CASE m \notin 1..Len(swings)
    <3>1. m \in (Len(swings) + 1)..Len(more)
      BY <2>2 DEF Lengthens
    <3> QED BY <3>1 DEF Lengthens, IsDated
  <2> QED BY <2>1, <2>2
<1> QED BY <1>1 DEF Dated, Lengthens

LEMMA SwingsGrow ==
  ASSUME NEW S, NEW swings \in Seq(S), NEW n \in Nat,
         NEW T, NEW x \in Seq(T), \A i \in 1..Len(x) : IsDated(x[i], n + 1)
  PROVE  Lengthens(swings, swings \o x, n)
<1> DEFINE U == S \cup T
           more == swings \o x
<1>1. swings \in Seq(U) /\ x \in Seq(U)
  <2>1. S \subseteq U /\ T \subseteq U
    OBVIOUS
  <2> HIDE DEF U
  <2> QED BY <2>1
<1> HIDE DEF U
<1>2. /\ more \in Seq(U) /\ Len(more) = Len(swings) + Len(x)
      /\ \A i \in 1..(Len(swings) + Len(x)) :
           more[i] = IF i <= Len(swings) THEN swings[i] ELSE x[i - Len(swings)]
  BY <1>1, ConcatProperties
<1> HIDE DEF more
<1>3. Len(swings) \in Nat /\ Len(x) \in Nat
  OBVIOUS
<1>4. \A m \in 1..Len(swings) : more[m] = swings[m]
  <2> SUFFICES ASSUME NEW m \in 1..Len(swings) PROVE more[m] = swings[m]
    OBVIOUS
  <2>1. m \in 1..(Len(swings) + Len(x)) /\ m <= Len(swings)
    BY <1>3
  <2> QED BY <1>2, <2>1
<1>5. ASSUME NEW m \in (Len(swings) + 1)..Len(more) PROVE IsDated(more[m], n + 1)
  <2>1. m \in 1..(Len(swings) + Len(x)) /\ ~(m <= Len(swings)) /\ m - Len(swings) \in 1..Len(x)
    BY <1>2, <1>3
  <2>2. more[m] = x[m - Len(swings)]
    BY <1>2, <2>1
  <2> QED BY <2>1, <2>2
<1>6. Len(more) \in Nat /\ Len(swings) <= Len(more)
  BY <1>2, <1>3
<1>7. IsSeq(more)
  BY <1>2, SeqIsSeq
<1> QED BY <1>3, <1>4, <1>5, <1>6, <1>7 DEF Lengthens, more

LEMMA SameFirst ==
  ASSUME NEW n \in Nat, NEW swings, NEW more, Dated(swings, n), Lengthens(swings, more, n),
         NEW some, some \subseteq 1..Len(swings)
  PROVE  /\ L!FirstOf(more, some) = L!FirstOf(swings, some)
         /\ L!FirstOf(swings, some) = None \/ L!FirstOf(swings, some) \in some
<1>1. CASE some = {}
  BY <1>1 DEF L!FirstOf
<1>2. CASE some # {}
  <2> DEFINE m == L!FirstOf(swings, some)
             k == L!FirstOf(more, some)
  <2>1. Dated(more, n + 1) /\ n + 1 \in Nat
    BY LengthenedIsDated
  <2>2. some \subseteq 1..Len(more)
    BY DEF Lengthens
  <2>3. m \in some /\ \A i \in some : L!Precedes(swings, m, i)
    BY <1>2, FirstOfSome
  <2>4. k \in some /\ \A i \in some : L!Precedes(more, k, i)
    BY <1>2, <2>1, <2>2, FirstOfSome
  <2> HIDE DEF m, k
  <2>5. L!Precedes(swings, m, k) /\ L!Precedes(more, k, m)
    BY <2>3, <2>4
  <2>6. more[m] = swings[m] /\ more[k] = swings[k]
    BY <2>3, <2>4 DEF Lengthens
  <2>7. L!Precedes(swings, k, m)
    BY <2>5, <2>6 DEF L!Precedes
  <2>8. /\ m \in Nat /\ k \in Nat
        /\ swings[m].at \in Nat /\ swings[m].pivot \in Nat
        /\ swings[k].at \in Nat /\ swings[k].pivot \in Nat
    BY <2>3, <2>4 DEF Dated
  <2>9. m = k
    BY <2>5, <2>7, <2>8 DEF L!Precedes
  <2> QED BY <2>3, <2>9 DEF m, k
<1> QED BY <1>1, <1>2

\* The swing a shift must break stays the same, whatever is found after its leg began.
LEMMA SameSelection ==
  ASSUME NEW n \in Nat, NEW swings, NEW more, Dated(swings, n), Lengthens(swings, more, n),
         NEW leg, leg.start \in Nat, leg.start <= n, NEW s
  PROVE  /\ L!SelectSwing(more, leg, s) = L!SelectSwing(swings, leg, s)
         /\ \/ L!SelectSwing(swings, leg, s) = None
            \/ L!SelectSwing(swings, leg, s) \in 1..Len(swings)
<1> DEFINE Known(w) == {k \in L!Visible(w, leg.start) : w[k].type = L!Opposing(leg.direction)}
           known == Known(swings)
           N == 1..Len(swings)
           Newest(w) == {m \in known : \A k \in known : w[k].at <= w[m].at}
           type == L!Opposing(leg.direction)
           Past(w) == {m \in known : Beyond(type, w[m].price, leg.origin)}
           Near(w) == {m \in Past(w) : \A k \in Past(w) : ~Beyond(type, w[m].price, w[k].price)}
<1>1. DOMAIN swings = 1..Len(swings) /\ DOMAIN more = 1..Len(more)
  BY DEF Dated, Lengthens, IsSeq
<1>2. \A k \in N : more[k] = swings[k] /\ k \in 1..Len(more)
  BY DEF Lengthens
<1>3. L!Visible(more, leg.start) = L!Visible(swings, leg.start)
  <2>1. ASSUME NEW k \in 1..Len(more), k \notin N PROVE ~(more[k].at <= leg.start)
    <3>1. k \in (Len(swings) + 1)..Len(more)
      BY <2>1 DEF Lengthens
    <3>2. more[k].at = n + 1
      BY <3>1 DEF Lengthens, IsDated
    <3> QED BY <3>2
  <2> QED BY <1>1, <1>2, <2>1 DEF L!Visible
<1>4. L!Visible(swings, leg.start) \subseteq N
  BY <1>1 DEF L!Visible
<1>5. Known(more) = known /\ known \subseteq N
  BY <1>2, <1>3, <1>4
<1> HIDE DEF known, Known
<1>10. ASSUME NEW w PROVE L!NearestBeyond(w, known, leg.origin, leg.direction) = L!FirstOf(w, Near(w))
  BY DEF L!NearestBeyond, L!Beyond, Beyond
<1>6. Newest(more) = Newest(swings) /\ Newest(swings) \subseteq N
  BY <1>2, <1>5
<1>7. Past(more) = Past(swings) /\ Past(swings) \subseteq N
  BY <1>2, <1>5
<1> HIDE DEF Past
<1>8. Near(more) = Near(swings) /\ Near(swings) \subseteq N
  BY <1>2, <1>7
<1> HIDE DEF Newest, Near
<1>9. /\ L!MostRecent(more, known) = L!FirstOf(more, Newest(more))
      /\ L!MostRecent(swings, known) = L!FirstOf(swings, Newest(swings))
  BY DEF L!MostRecent, Newest
<1>11. \A w : L!SelectSwing(w, leg, s) =
         IF s.selection = "MOST_RECENT" THEN L!MostRecent(w, Known(w))
         ELSE L!NearestBeyond(w, Known(w), leg.origin, leg.direction)
  BY DEF L!SelectSwing, Known
<1>12. /\ L!FirstOf(more, Newest(swings)) = L!FirstOf(swings, Newest(swings))
       /\ L!FirstOf(swings, Newest(swings)) = None \/ L!FirstOf(swings, Newest(swings)) \in N
  BY <1>6, SameFirst
<1>13. /\ L!FirstOf(more, Near(swings)) = L!FirstOf(swings, Near(swings))
       /\ L!FirstOf(swings, Near(swings)) = None \/ L!FirstOf(swings, Near(swings)) \in N
  BY <1>8, SameFirst
<1>14. CASE s.selection = "MOST_RECENT"
  BY <1>5, <1>6, <1>9, <1>11, <1>12, <1>14 DEF known
<1>15. CASE s.selection # "MOST_RECENT"
  BY <1>5, <1>8, <1>10, <1>11, <1>13, <1>15 DEF known
<1> QED BY <1>14, <1>15

\* So does what breaks it.
LEMMA SameShift ==
  ASSUME NEW n \in Nat, NEW swings, NEW more, Dated(swings, n), Lengthens(swings, more, n),
         NEW leg, leg.start \in Nat, leg.start <= n, NEW s, NEW all, NEW i
  PROVE  /\ L!IsShift(all, i, leg, more, s) = L!IsShift(all, i, leg, swings, s)
         /\ L!IsShift(all, i, leg, swings, s) => L!Shift(i, leg, more, s) = L!Shift(i, leg, swings, s)
<1> DEFINE k == L!SelectSwing(swings, leg, s)
<1>1. L!SelectSwing(more, leg, s) = k /\ (k = None \/ k \in 1..Len(swings))
  BY SameSelection
<1> HIDE DEF k
<1>2. k # None => more[k] = swings[k]
  BY <1>1 DEF Lengthens
<1>3. L!IsShift(all, i, leg, more, s) = L!IsShift(all, i, leg, swings, s)
  BY <1>1, <1>2 DEF L!IsShift, k
<1>4. L!IsShift(all, i, leg, swings, s) => k # None
  BY DEF L!IsShift, k
<1> QED BY <1>1, <1>2, <1>3, <1>4 DEF L!Shift, k

-----------------------------------------------------------------------------
(* The breaks after a shift.                                               *)

\* The swings that may be broken on a bar, taken before or not.
Offered(swings, shift, i, s) ==
  L!EligibleSwings(swings, shift, IF s.cutoff = "AT_MSS" THEN shift.at ELSE i, s)

NearestLeft(swings, left, shift, k) ==
  \A m \in left : ~Beyond(L!Opposing(shift.leg.direction), swings[k].price, swings[m].price)

LEMMA TargetIsNearest ==
  ASSUME NEW n \in Nat, NEW swings, Dated(swings, n), NEW shift,
         NEW left, left \subseteq 1..Len(swings), left # {}
  PROVE  LET target == L!Target(swings, left, shift.leg.direction)
         IN target \in left /\ NearestLeft(swings, left, shift, target)
<1> DEFINE type == L!Opposing(shift.leg.direction)
           near == {m \in left : \A k \in left : ~Beyond(type, swings[m].price, swings[k].price)}
           price == [m \in 1..Len(swings) |-> swings[m].price]
<1>1. Len(swings) \in Nat /\ \A m \in left : price[m] = swings[m].price /\ price[m] \in Int
  BY DEF Dated
<1> HIDE DEF price
<1>2. \E m \in left : \A k \in left : ~Beyond(type, price[m], price[k])
  <2> HIDE DEF type
  <2> QED BY <1>1, NearestIsThere
<1>3. near # {} /\ near \subseteq 1..Len(swings)
  BY <1>1, <1>2
<1>4. L!Target(swings, left, shift.leg.direction) = L!FirstOf(swings, near)
  BY DEF L!Target, L!Beyond, Beyond
<1>5. L!FirstOf(swings, near) \in near
  <2> HIDE DEF near
  <2> QED BY <1>3, FirstOfSome
<1> QED BY <1>4, <1>5 DEF NearestLeft

\* What the breaks before one of a run had left of the swings offered on its bar.
LeftAt(run, a, swings, shift, s) ==
  {k \in Offered(swings, shift, run[a].at, s) : \A c \in 1..(a - 1) : run[c].id # k}

\* A break is of the nearest swing of those that were left.
BreakRight(run, a, swings, shift, i, s) ==
  LET b == run[a]
      left == LeftAt(run, a, swings, shift, s)
  IN /\ b.at \in Nat /\ shift.at < b.at /\ b.at <= i
     /\ b.id \in left /\ b.price = swings[b.id].price
     /\ NearestLeft(swings, left, shift, b.id)

RunSound(run, swings, shift, i, s) ==
  /\ IsSeq(run)
  /\ \A a \in 1..Len(run) : BreakRight(run, a, swings, shift, i, s)
  /\ \A b \in 1..Len(run) : \A a \in 1..(b - 1) : run[a].at < run[b].at

LEMMA BreakStays ==
  ASSUME NEW run, NEW more, NEW a \in Nat, \A c \in 1..a : more[c] = run[c], a # 0,
         NEW swings, NEW shift, NEW i \in Nat, NEW s, BreakRight(run, a, swings, shift, i - 1, s)
  PROVE  BreakRight(more, a, swings, shift, i, s)
<1>1. more[a] = run[a] /\ \A c \in 1..(a - 1) : more[c] = run[c]
  OBVIOUS
<1>2. run[a].at <= i
  BY DEF BreakRight
<1>3. LeftAt(more, a, swings, shift, s) = LeftAt(run, a, swings, shift, s)
  BY <1>1 DEF LeftAt
<1> QED BY <1>1, <1>2, <1>3 DEF BreakRight

LEMMA RunGoesOn ==
  ASSUME NEW n \in Nat, NEW swings, Dated(swings, n), NEW shift, NEW s, NEW all,
         NEW i \in Nat \ {0}, NEW run, RunSound(run, swings, shift, i - 1, s)
  PROVE  RunSound(L!Continue(all, i, shift, swings, run, s), swings, shift, i, s)
<1> DEFINE taken == {b.id : b \in L!Range(run)}
           left == Offered(swings, shift, i, s) \ taken
           target == L!Target(swings, left, shift.leg.direction)
           e == [at |-> i, id |-> target, price |-> swings[target].price]
           next == L!Continue(all, i, shift, swings, run, s)
           more == Append(run, e)
           m == Len(run)
<1>1. IsSeq(run) /\ m \in Nat /\ DOMAIN run = 1..m
  BY DEF RunSound, IsSeq
<1>2. next = run \/ (next = more /\ i > shift.at /\ left # {})
  BY DEF L!Continue, Offered
<1>3. ASSUME NEW a \in 1..m PROVE BreakRight(run, a, swings, shift, i - 1, s)
  BY <1>3 DEF RunSound
<1>4. CASE next = run
  <2>1. ASSUME NEW a \in 1..m PROVE BreakRight(run, a, swings, shift, i, s)
    <3>1. a \in Nat /\ a # 0 /\ i \in Nat
      BY <1>1
    <3> QED BY <1>3, <3>1, BreakStays
  <2> QED BY <1>4, <2>1 DEF RunSound
<1>5. CASE next = more /\ i > shift.at /\ left # {}
  <2>1. left \subseteq 1..Len(swings)
    BY DEF Offered, L!EligibleSwings, L!Visible, Dated, IsSeq
  <2>2. taken = {run[c].id : c \in 1..m}
    BY <1>1 DEF L!Range
  <2> HIDE DEF taken
  <2>3. left = {k \in Offered(swings, shift, i, s) : \A c \in 1..m : run[c].id # k}
    BY <2>2
  <2> HIDE DEF left
  <2>4. target \in left /\ NearestLeft(swings, left, shift, target)
    BY <1>5, <2>1, TargetIsNearest
  <2> HIDE DEF target, next
  <2>5. e.at = i /\ e.id = target /\ e.price = swings[target].price
    OBVIOUS
  <2> HIDE DEF e
  <2>6. /\ IsSeq(more) /\ Len(more) = m + 1 /\ more[m + 1] = e
        /\ \A c \in 1..m : more[c] = run[c]
    BY <1>1, AppendTo
  <2> HIDE DEF more
  <2>7. ASSUME NEW a \in 1..m PROVE BreakRight(more, a, swings, shift, i, s)
    <3>1. a \in Nat /\ a # 0 /\ i \in Nat /\ \A c \in 1..a : c \in 1..m
      BY <1>1
    <3>2. \A c \in 1..a : more[c] = run[c]
      BY <2>6, <3>1
    <3> QED BY <1>3, <3>1, <3>2, BreakStays
  <2>8. BreakRight(more, m + 1, swings, shift, i, s)
    <3>1. m + 1 - 1 = m /\ i <= i
      BY <1>1
    <3>2. left = {k \in Offered(swings, shift, i, s) : \A c \in 1..m : more[c].id # k}
      BY <2>3, <2>6
    <3>3. left = LeftAt(more, m + 1, swings, shift, s)
      BY <2>5, <2>6, <3>1, <3>2 DEF LeftAt
    <3>4. i \in Nat /\ shift.at < i
      BY <1>5
    <3> QED BY <2>4, <2>5, <2>6, <3>1, <3>3, <3>4 DEF BreakRight
  <2>9. ASSUME NEW b \in 1..(m + 1), NEW a \in 1..(b - 1) PROVE more[a].at < more[b].at
    <3>1. a \in 1..m
      BY <1>1
    <3>2. CASE b \in 1..m
      <4>1. run[a].at < run[b].at
        BY <3>2 DEF RunSound
      <4> QED BY <2>6, <3>1, <3>2, <4>1
    <3>3. CASE b = m + 1
      <4>1. run[a].at \in Nat /\ run[a].at <= i - 1
        BY <1>3, <3>1 DEF BreakRight
      <4>2. run[a].at < i
        BY <4>1
      <4> QED BY <2>5, <2>6, <3>1, <3>3, <4>2
    <3> QED BY <1>1, <3>2, <3>3
  <2>10. \A a \in 1..(m + 1) : a \in 1..m \/ a = m + 1
    BY <1>1
  <2>11. \A a \in 1..Len(more) : BreakRight(more, a, swings, shift, i, s)
    BY <2>6, <2>7, <2>8, <2>10
  <2> QED BY <1>5, <2>6, <2>9, <2>11 DEF RunSound, next
<1> QED BY <1>2, <1>4, <1>5

RunAt(f, all, shift, swings, s, i) ==
  IF i = 0 THEN <<>> ELSE L!Continue(all, i, shift, swings, f[i - 1], s)

LEMMA RunBarByBar ==
  ASSUME NEW all, Len(all) \in Nat, NEW shift, NEW swings, NEW s
  PROVE  \E f : /\ \A i \in 0..Len(all) : f[i] = RunAt(f, all, shift, swings, s, i)
                /\ L!BosRun(all, shift, swings, s) = f[Len(all)]
<1> DEFINE Goes(f, i) == RunAt(f, all, shift, swings, s, i)
           Is(f, n) == f = [i \in 0..n |-> Goes(f, i)]
           Bad == {n \in Nat : ~ \E f : Is(f, n)}
<1>1. Bad = {}
  <2> SUFFICES ASSUME Bad # {} PROVE FALSE
    OBVIOUS
  <2>1. PICK n \in Bad : \A m \in Bad : n <= m
    BY LeastOf
  <2>2. CASE n = 0
    <3>1. Is([i \in 0..0 |-> <<>>], 0)
      BY DEF RunAt
    <3> QED BY <2>1, <2>2, <3>1
  <2>3. CASE n # 0
    <3>1. n \in Nat /\ n - 1 \in Nat /\ n - 1 \notin Bad
      <4>1. n \in Nat
        BY <2>1
      <4> HIDE DEF Bad
      <4>2. n - 1 \in Nat /\ ~(n <= n - 1)
        BY <2>3, <4>1
      <4> QED BY <2>1, <4>1, <4>2
    <3>2. PICK h : Is(h, n - 1)
      BY <3>1
    <3> DEFINE f == [i \in 0..n |-> IF i < n THEN h[i] ELSE Goes(h, n)]
    <3>3. ASSUME NEW i \in 0..n PROVE f[i] = Goes(f, i)
      <4>1. i # 0 => i - 1 \in 0..n /\ i - 1 < n
        BY <3>1
      <4>2. i # 0 => f[i - 1] = h[i - 1]
        BY <4>1
      <4>3. Goes(f, i) = Goes(h, i)
        BY <4>2 DEF RunAt
      <4>4. f[i] = Goes(h, i)
        <5>1. CASE i < n
          <6>1. i \in 0..(n - 1) /\ f[i] = h[i]
            BY <3>1, <5>1
          <6> HIDE DEF f, Goes
          <6> QED BY <3>2, <6>1
        <5>2. CASE ~(i < n)
          <6>1. i = n
            BY <3>1, <5>2
          <6> QED BY <5>2, <6>1
        <5> QED BY <5>1, <5>2
      <4> QED BY <4>3, <4>4
    <3>4. Is(f, n)
      <4> HIDE DEF Goes
      <4>1. f = [i \in 0..n |-> f[i]]
        OBVIOUS
      <4> HIDE DEF f
      <4> QED BY <3>3, <4>1
    <3> QED BY <2>1, <3>4
  <2> QED BY <2>2, <2>3
<1>2. \E f : Is(f, Len(all))
  BY <1>1
<1> DEFINE Whole == CHOOSE f : Is(f, Len(all))
<1>3. Is(Whole, Len(all))
  BY <1>2
<1>4. L!BosRun(all, shift, swings, s) = Whole[Len(all)]
  BY DEF L!BosRun, RunAt
<1> HIDE DEF Whole
<1>5. \A i \in 0..Len(all) : Whole[i] = Goes(Whole, i)
  <2> HIDE DEF Goes
  <2> QED BY <1>3
<1> QED BY <1>4, <1>5

LEMMA RunIsSound ==
  ASSUME NEW n \in Nat, NEW swings, Dated(swings, n), NEW shift, NEW s,
         NEW all, Len(all) \in Nat
  PROVE  RunSound(L!BosRun(all, shift, swings, s), swings, shift, Len(all), s)
<1> DEFINE z == Len(all)
<1>1. PICK f : /\ \A i \in 0..z : f[i] = RunAt(f, all, shift, swings, s, i)
               /\ L!BosRun(all, shift, swings, s) = f[z]
  BY RunBarByBar
<1> DEFINE Bad == {i \in 0..z : ~RunSound(f[i], swings, shift, i, s)}
<1>2. z \in Nat /\ z \in 0..z
  OBVIOUS
<1> HIDE DEF z
<1>3. RunSound(f[0], swings, shift, 0, s)
  <2>1. f[0] = <<>>
    BY <1>1, <1>2 DEF RunAt
  <2>2. IsSeq(<<>>)
    BY DEF IsSeq
  <2> QED BY <2>1, <2>2 DEF RunSound
<1>4. ASSUME NEW i \in 1..z, RunSound(f[i - 1], swings, shift, i - 1, s)
      PROVE  RunSound(f[i], swings, shift, i, s)
  <2>1. i \in 0..z /\ i # 0 /\ i \in Nat \ {0}
    BY <1>2
  <2>2. f[i] = L!Continue(all, i, shift, swings, f[i - 1], s)
    BY <1>1, <2>1 DEF RunAt
  <2> QED BY <1>4, <2>1, <2>2, RunGoesOn
<1>5. Bad = {}
  <2> SUFFICES ASSUME Bad # {} PROVE FALSE
    OBVIOUS
  <2>1. PICK k \in Bad : \A m \in Bad : k <= m
    <3>1. Bad \subseteq Nat
      BY <1>2
    <3> HIDE DEF Bad
    <3> QED BY <3>1, LeastOf
  <2>2. k \in 0..z /\ ~RunSound(f[k], swings, shift, k, s)
    BY <2>1
  <2>3. k # 0
    BY <1>3, <2>2
  <2>4. k \in 1..z /\ k - 1 \in 0..z /\ ~(k <= k - 1)
    BY <1>2, <2>2, <2>3
  <2>5. RunSound(f[k - 1], swings, shift, k - 1, s)
    BY <2>1, <2>4
  <2> QED BY <1>4, <2>2, <2>4, <2>5
<1> QED BY <1>1, <1>2, <1>5 DEF z

\* The breaks of a sound run are in order.
LEMMA RunInOrder ==
  ASSUME NEW n \in Nat, NEW swings, Dated(swings, n), NEW shift, NEW s,
         NEW i, NEW run, RunSound(run, swings, shift, i, s)
  PROVE  \A b \in DOMAIN run : \A a \in 1..(b - 1) :
           /\ shift.at < run[a].at /\ run[a].at < run[b].at
           /\ run[a].id # run[b].id
           /\ swings[run[b].id].at <= run[a].at =>
                ~Beyond(L!Opposing(shift.leg.direction), run[a].price, run[b].price)
<1>1. Len(run) \in Nat /\ DOMAIN run = 1..Len(run)
  BY DEF RunSound, IsSeq
<1> SUFFICES ASSUME NEW b \in 1..Len(run), NEW a \in 1..(b - 1)
             PROVE  /\ shift.at < run[a].at /\ run[a].at < run[b].at
                    /\ run[a].id # run[b].id
                    /\ swings[run[b].id].at <= run[a].at =>
                         ~Beyond(L!Opposing(shift.leg.direction), run[a].price, run[b].price)
  BY <1>1
<1>2. a \in 1..Len(run) /\ \A c \in 1..(a - 1) : c \in 1..(b - 1)
  BY <1>1
<1>3. BreakRight(run, a, swings, shift, i, s) /\ BreakRight(run, b, swings, shift, i, s)
  BY <1>2 DEF RunSound
<1>4. run[b].id \in Offered(swings, shift, run[b].at, s) /\ \A c \in 1..(b - 1) : run[c].id # run[b].id
  BY <1>3 DEF BreakRight, LeftAt
<1>5. shift.at < run[a].at /\ run[a].at < run[b].at
  BY <1>3 DEF BreakRight, RunSound
<1>6. ASSUME swings[run[b].id].at <= run[a].at
      PROVE  ~Beyond(L!Opposing(shift.leg.direction), run[a].price, run[b].price)
  <2>1. run[b].id \in Offered(swings, shift, run[a].at, s)
    BY <1>4, <1>6 DEF Offered, L!EligibleSwings, L!Visible
  <2>2. run[b].id \in LeftAt(run, a, swings, shift, s)
    BY <1>2, <1>4, <2>1 DEF LeftAt
  <2>3. /\ run[a].price = swings[run[a].id].price /\ run[b].price = swings[run[b].id].price
        /\ NearestLeft(swings, LeftAt(run, a, swings, shift, s), shift, run[a].id)
    BY <1>3 DEF BreakRight
  <2> QED BY <2>2, <2>3 DEF NearestLeft
<1> QED BY <1>4, <1>5, <1>6

-----------------------------------------------------------------------------
(* The replay.                                                             *)

\* What a bar measures it measures of the bars so far.
LEMMA SameMeasures ==
  ASSUME NEW all, NEW more, NEW n \in Nat, \A j \in 1..n : more[j] = all[j],
         NEW i \in 1..n, NEW s, s.atrPeriod \in Nat \ {0}
  PROVE  /\ \A r : L!Measurable(more, i, r, s) = L!Measurable(all, i, r, s)
         /\ \A leg, swings : L!IsShift(more, i, leg, swings, s) = L!IsShift(all, i, leg, swings, s)
<1> DEFINE period == s.atrPeriod
           first == i - period + 1
           Ranges(w) == [j \in first..i |-> L!TrueRange(w, j)]
<1>1. L!Atr(more, i, period) = L!Atr(all, i, period)
  <2>1. CASE i < period
    BY <2>1 DEF L!Atr
  <2>2. CASE ~(i < period)
    <3>1. first \in Nat /\ first # 0
      BY <2>2
    <3>2. ASSUME NEW j \in first..i PROVE L!TrueRange(more, j) = L!TrueRange(all, j)
      <4>1. j \in 1..n /\ (j # 1 => j - 1 \in 1..n)
        BY <3>1
      <4>2. more[j] = all[j] /\ (j # 1 => more[j - 1] = all[j - 1])
        BY <4>1
      <4> QED BY <4>2 DEF L!TrueRange
    <3> HIDE DEF first
    <3>3. Ranges(more) = Ranges(all)
      BY <3>2
    <3>4. \A w : L!TrueRangeSum(w, i, period) = L!SumOver(Ranges(w), first, i)
      BY DEF L!TrueRangeSum, first
    <3> HIDE DEF Ranges
    <3>5. L!TrueRangeSum(more, i, period) = L!TrueRangeSum(all, i, period)
      BY <3>3, <3>4
    <3> QED BY <3>5 DEF L!Atr
  <2> QED BY <2>1, <2>2
<1>2. more[i] = all[i]
  OBVIOUS
<1>3. ASSUME NEW r PROVE L!Measurable(more, i, r, s) = L!Measurable(all, i, r, s)
  BY <1>1 DEF L!Measurable
<1>4. L!Least(more, i, s) = L!Least(all, i, s)
  BY <1>1 DEF L!Least
<1>5. ASSUME NEW price, NEW direction, NEW method, NEW min
      PROVE  L!BrokeLevel(more, i, price, direction, method, min)
               = L!BrokeLevel(all, i, price, direction, method, min)
  BY <1>2 DEF L!BrokeLevel
<1>6. ASSUME NEW leg, NEW swings
      PROVE  L!IsShift(more, i, leg, swings, s) = L!IsShift(all, i, leg, swings, s)
  <2> DEFINE least == L!Least(more, i, s)
             price == swings[L!SelectSwing(swings, leg, s)].price
  <2>1. L!BrokeLevel(more, i, price, leg.direction, s.method, least)
          = L!BrokeLevel(all, i, price, leg.direction, s.method, least)
    BY <1>5
  <2> QED BY <1>4, <2>1 DEF L!IsShift
<1> QED BY <1>3, <1>6

LEMMA LeastIsMin ==
  ASSUME NEW S, S \subseteq Nat, S # {}
  PROVE  Min(S) \in S /\ \A m \in S : Min(S) <= m
<1>1. \E n \in S : \A m \in S : n <= m
  BY LeastOf
<1> QED BY <1>1 DEF Min

\* A later one does not change which is the first.
LEMMA MinStays ==
  ASSUME NEW n \in Nat, NEW S, S \subseteq 1..n, S # {}, NEW T, T \subseteq {n + 1}
  PROVE  Min(S \cup T) = Min(S)
<1> DEFINE a == Min(S)
           b == Min(S \cup T)
<1>1. S \subseteq Nat /\ S \cup T \subseteq Nat /\ S \cup T # {}
  OBVIOUS
<1>2. a \in S /\ \A m \in S : a <= m
  BY <1>1, LeastIsMin
<1>3. b \in S \cup T /\ \A m \in S \cup T : b <= m
  BY <1>1, LeastIsMin
<1> HIDE DEF a, b
<1>4. a \in 1..n /\ b <= a /\ b \in Nat
  BY <1>1, <1>2, <1>3
<1>5. b \in S
  <2>1. b \notin T
    BY <1>4
  <2> QED BY <1>3, <2>1
<1>6. a <= b
  BY <1>2, <1>5
<1> QED BY <1>4, <1>6 DEF a, b

\* The bars that come within a horizon, up to the latest.
Window(a, h, n) == (a + 1)..Smaller(a + h, n)

LEMMA WindowGrows ==
  ASSUME NEW n \in Nat, NEW a \in 1..n, NEW h \in Nat
  PROVE  /\ Window(a, h, n) \subseteq 1..n
         /\ \A j : j \in Window(a, h, n + 1) <=>
                     j \in Window(a, h, n) \/ (j = n + 1 /\ n + 1 - a <= h)
BY DEF Window, Smaller

LEMMA WindowIsEmpty ==
  ASSUME NEW n \in Nat, NEW h \in Nat
  PROVE  Window(n, h, n) = {}
BY DEF Window, Smaller

\* The bars a raid's leg can be measured on, and those that break the swing of a leg.
MeasuringBars(r, all, n, s) ==
  {i \in Window(r.at, L!Horizon(s), n) : L!Measurable(all, i, r, s)}

BreakingBars(leg, all, n, swings, s) ==
  {i \in Window(leg.end, L!Horizon(s), n) : L!IsShift(all, i, leg, swings, s)}

Passed(leg) == leg.qualification = "PASS"

LEMMA OnlyIsMin == ASSUME NEW k \in Nat PROVE Min({k}) = k
<1>1. {k} \subseteq Nat /\ {k} # {}
  OBVIOUS
<1>2. Min({k}) \in {k}
  BY <1>1, LeastIsMin
<1> QED BY <1>2

\* What one more bar makes of the bars there were, if it can be one of them.
OneMore(now, more, can, n) ==
  /\ now \subseteq 1..n
  /\ (n + 1 \in more <=> can)
  /\ now = {} /\ can => more = {n + 1}
  /\ ~can => more = now
  /\ now # {} => more # {} /\ Min(more) = Min(now)

LEMMA MeasuringBarsGrow ==
  ASSUME NEW n \in Nat, NEW r, r.at \in 1..n, NEW s, L!Horizon(s) \in Nat, NEW all
  PROVE  OneMore(MeasuringBars(r, all, n, s), MeasuringBars(r, all, n + 1, s),
                 n + 1 - r.at <= L!Horizon(s) /\ L!Measurable(all, n + 1, r, s), n)
<1> DEFINE now == MeasuringBars(r, all, n, s)
           more == MeasuringBars(r, all, n + 1, s)
           can == n + 1 - r.at <= L!Horizon(s) /\ L!Measurable(all, n + 1, r, s)
           late == IF can THEN {n + 1} ELSE {}
           W == Window(r.at, L!Horizon(s), n)
<1>1. /\ W \subseteq 1..n
      /\ \A j : j \in Window(r.at, L!Horizon(s), n + 1) <=>
                  j \in W \/ (j = n + 1 /\ n + 1 - r.at <= L!Horizon(s))
  BY WindowGrows
<1>2. now \subseteq 1..n
  BY <1>1 DEF MeasuringBars
<1>3. more = now \cup late
  BY <1>1 DEF MeasuringBars
<1> HIDE DEF now, more, can
<1>4. n + 1 \notin now /\ late \subseteq {n + 1}
  BY <1>2
<1>5. now # {} => Min(now \cup late) = Min(now)
  BY <1>2, <1>4, MinStays
<1>6. /\ (n + 1 \in more <=> can) /\ (now = {} /\ can => more = {n + 1}) /\ (~can => more = now)
      /\ now # {} => more # {} /\ Min(more) = Min(now)
  BY <1>3, <1>4, <1>5
<1>7. OneMore(now, more, can, n)
  BY <1>2, <1>6 DEF OneMore
<1> QED BY <1>7 DEF now, more, can

LEMMA BreakingBarsGrow ==
  ASSUME NEW n \in Nat, NEW swings, NEW later, Dated(swings, n), Lengthens(swings, later, n),
         NEW leg, leg.start \in Nat, leg.start <= n, leg.end \in 1..n,
         NEW s, L!Horizon(s) \in Nat, NEW all
  PROVE  LET now == BreakingBars(leg, all, n, swings, s)
             more == BreakingBars(leg, all, n + 1, later, s)
             can == n + 1 - leg.end <= L!Horizon(s) /\ L!IsShift(all, n + 1, leg, later, s)
         IN /\ now \subseteq 1..n
            /\ now = {} /\ can => more = {n + 1}
            /\ ~can => more = now
            /\ now # {} =>
                 /\ more # {}
                 /\ L!Shift(Min(more), leg, later, s) = L!Shift(Min(now), leg, swings, s)
<1> DEFINE now == BreakingBars(leg, all, n, swings, s)
           more == BreakingBars(leg, all, n + 1, later, s)
           can == n + 1 - leg.end <= L!Horizon(s) /\ L!IsShift(all, n + 1, leg, later, s)
           late == IF can THEN {n + 1} ELSE {}
           W == Window(leg.end, L!Horizon(s), n)
<1>1. /\ W \subseteq 1..n
      /\ \A j : j \in Window(leg.end, L!Horizon(s), n + 1) <=>
                  j \in W \/ (j = n + 1 /\ n + 1 - leg.end <= L!Horizon(s))
  BY WindowGrows
<1>2. now \subseteq 1..n
  BY <1>1 DEF BreakingBars
<1>3. ASSUME NEW i
      PROVE  /\ L!IsShift(all, i, leg, later, s) = L!IsShift(all, i, leg, swings, s)
             /\ L!IsShift(all, i, leg, swings, s) =>
                  L!Shift(i, leg, later, s) = L!Shift(i, leg, swings, s)
  BY SameShift
<1>4. more = now \cup late
  BY <1>1, <1>3 DEF BreakingBars
<1>5. \A i \in now : L!Shift(i, leg, later, s) = L!Shift(i, leg, swings, s)
  BY <1>3 DEF BreakingBars
<1> HIDE DEF now, more, can
<1>6. n + 1 \notin now /\ late \subseteq {n + 1}
  BY <1>2
<1>7. (now = {} /\ can => more = {n + 1}) /\ (~can => more = now)
  BY <1>4, <1>6
<1>8. ASSUME now # {}
      PROVE  more # {} /\ L!Shift(Min(more), leg, later, s) = L!Shift(Min(now), leg, swings, s)
  <2>1. Min(more) = Min(now)
    BY <1>2, <1>4, <1>6, <1>8, MinStays
  <2>2. Min(now) \in now
    <3>1. now \subseteq Nat
      BY <1>2
    <3> QED BY <1>8, <3>1, LeastIsMin
  <2> QED BY <1>4, <1>5, <1>8, <2>1, <2>2
<1> QED BY <1>2, <1>7, <1>8 DEF now, more, can

\* The raids that wait for a leg have had no bar to measure one on, and may yet.
RaidsWait(p, all, n, s) ==
  /\ \A r \in p.raids : r.at \in 1..n
  /\ \A r : r \in p.pending <=>
              /\ r \in p.raids /\ n - r.at <= L!Horizon(s)
              /\ MeasuringBars(r, all, n, s) = {}

LegRight(l, all, n, s) ==
  /\ MeasuringBars(l.raid, all, n, s) # {} /\ l.end = Min(MeasuringBars(l.raid, all, n, s))
  /\ l.start = l.raid.at
  /\ l.end = l.raid.at + 1 => l.gap = None

\* Each of the others has one leg, if there ever was such a bar.
LegsRight(p, all, n, s) ==
  /\ \A l \in p.legs : l.raid \in p.raids /\ LegRight(l, all, n, s)
  /\ \A r \in p.raids : MeasuringBars(r, all, n, s) # {} => \E l \in p.legs : l.raid = r
  /\ \A l, m \in p.legs : l.raid = m.raid => l = m

\* The legs that wait for a shift have had no bar that breaks their swing.
LegsAwait(p, all, n, swings, s) ==
  \A l : l \in p.awaiting <=>
           /\ l \in p.legs /\ Passed(l) /\ n - l.end <= L!Horizon(s)
           /\ BreakingBars(l, all, n, swings, s) = {}

ShiftOf(l, all, n, swings, s) == L!Shift(Min(BreakingBars(l, all, n, swings, s)), l, swings, s)

\* Each of the others has its shift, if there ever was such a bar.
ShiftsRight(p, all, n, swings, s) ==
  \A h : h \in p.shifts <=>
           \E l \in p.legs : /\ Passed(l) /\ BreakingBars(l, all, n, swings, s) # {}
                             /\ h = ShiftOf(l, all, n, swings, s)

ReplaySound(p, all, n, swings, s) ==
  /\ RaidsWait(p, all, n, s) /\ LegsRight(p, all, n, s)
  /\ LegsAwait(p, all, n, swings, s) /\ ShiftsRight(p, all, n, swings, s)

\* A leg ends after its raid, on a bar there has been.
LEMMA LegsAreOver ==
  ASSUME NEW n \in Nat, NEW p, NEW all, NEW s, L!Horizon(s) \in Nat,
         RaidsWait(p, all, n, s), LegsRight(p, all, n, s), NEW l \in p.legs
  PROVE  l.start \in Nat /\ l.start <= n /\ l.end \in 1..n
<1> DEFINE M == MeasuringBars(l.raid, all, n, s)
<1>1. l.raid \in p.raids /\ M # {} /\ l.end = Min(M) /\ l.start = l.raid.at
  BY DEF LegsRight, LegRight
<1>2. l.raid.at \in 1..n
  BY <1>1 DEF RaidsWait
<1>3. M \subseteq 1..n
  BY <1>2, MeasuringBarsGrow DEF OneMore
<1> HIDE DEF M
<1>4. M \subseteq Nat
  BY <1>3
<1>5. Min(M) \in M
  BY <1>1, <1>4, LeastIsMin
<1>6. l.end \in 1..n
  BY <1>1, <1>3, <1>5
<1>7. l.start \in 1..n
  BY <1>1, <1>2
<1> QED BY <1>6, <1>7

\* A leg that is measured on the bar after its raid's is too short for a gap.
LEMMA NewLeg ==
  ASSUME NEW n \in Nat, NEW all, NEW r, r.at \in 1..n, NEW s
  PROVE  LET l == L!Measured(all, n + 1, r, s)
         IN /\ l.raid = r /\ l.start = r.at /\ l.end = n + 1
            /\ l.end = r.at + 1 => l.gap = None
<1> DEFINE l == L!Measured(all, n + 1, r, s)
           span == L!Span(all, n + 1, r)
<1>1. l.raid = r /\ l.start = span.start /\ l.end = span.end /\ l.gap = L!FirstGap(all, span)
  BY DEF L!Measured
<1>2. span.start = r.at /\ span.end = n + 1
  BY DEF L!Span
<1> HIDE DEF span, l
<1>3. ASSUME n + 1 = r.at + 1 PROVE L!FirstGap(all, span) = None
  <2>1. (span.start + 2)..span.end = {}
    BY <1>2, <1>3
  <2>2. L!GapsIn(all, span) = {}
    BY <2>1 DEF L!GapsIn
  <2> QED BY <2>2 DEF L!FirstGap
<1> QED BY <1>1, <1>2, <1>3 DEF l

LEMMA ReplayGoesOn ==
  ASSUME NEW n \in Nat, NEW all, Len(all) = n + 1, NEW swings, NEW later,
         Dated(swings, n), Lengthens(swings, later, n),
         NEW s, L!Horizon(s) \in Nat, NEW ref, NEW p, ReplaySound(p, all, n, swings, s)
  PROVE  ReplaySound(L!Replayed(p, all, ref, later, s), all, n + 1, later, s)
<1> DEFINE i == n + 1
           H == L!Horizon(s)
           raids == L!Raids(all, i, L!CollectLevels(ref), s)
           asked == {r \in p.pending : i - r.at <= H}
           able == {r \in asked : L!Measurable(all, i, r, s)}
           legs == {L!Measured(all, i, r, s) : r \in able}
           broke == {l \in p.awaiting : i - l.end <= H /\ L!IsShift(all, i, l, later, s)}
           q == L!Replayed(p, all, ref, later, s)
           Bars0(r) == MeasuringBars(r, all, n, s)
           Bars1(r) == MeasuringBars(r, all, n + 1, s)
           Broke0(l) == BreakingBars(l, all, n, swings, s)
           Broke1(l) == BreakingBars(l, all, n + 1, later, s)
<1>1. /\ q.raids = p.raids \cup raids
      /\ q.pending = (asked \ {l.raid : l \in legs}) \cup raids
      /\ q.legs = p.legs \cup legs
      /\ q.awaiting = {l \in p.awaiting \ broke : i - l.end <= H} \cup {l \in legs : Passed(l)}
      /\ q.shifts = p.shifts \cup {L!Shift(i, l, later, s) : l \in broke}
  BY DEF L!Replayed, L!StillPending, L!StillAwaiting, Passed
<1>2. RaidsWait(p, all, n, s) /\ LegsRight(p, all, n, s)
      /\ LegsAwait(p, all, n, swings, s) /\ ShiftsRight(p, all, n, swings, s)
  BY DEF ReplaySound
<1>3. \A r \in raids : r.at = i
  BY DEF L!Raids, L!Raid
<1>4. \A r \in p.raids : r.at \in 1..n
  BY <1>2 DEF RaidsWait
<1>5. \A r \in asked : r \in p.raids /\ n - r.at <= H /\ Bars0(r) = {}
  BY <1>2 DEF RaidsWait
<1>6. ASSUME NEW r \in p.raids
      PROVE  /\ Bars0(r) \subseteq 1..n
             /\ i \in Bars1(r) <=> i - r.at <= H /\ L!Measurable(all, i, r, s)
             /\ Bars0(r) = {} /\ i \in Bars1(r) => Bars1(r) = {i}
             /\ i \notin Bars1(r) => Bars1(r) = Bars0(r)
             /\ Bars0(r) # {} => Bars1(r) # {} /\ Min(Bars1(r)) = Min(Bars0(r))
  <2> DEFINE can == i - r.at <= H /\ L!Measurable(all, i, r, s)
  <2>1. r.at \in 1..n
    BY <1>4, <1>6
  <2>2. OneMore(Bars0(r), Bars1(r), can, n)
    BY <2>1, MeasuringBarsGrow
  <2> HIDE DEF Bars0, Bars1
  <2> QED BY <2>2 DEF OneMore
<1>7. ASSUME NEW r \in raids PROVE Bars1(r) = {} /\ i - r.at <= H /\ i - r.at = 0
  <2>1. r.at = i /\ i \in Nat /\ i - r.at = 0
    BY <1>3, <1>7
  <2>2. Window(r.at, H, n + 1) = {}
    BY <2>1, WindowIsEmpty
  <2> QED BY <2>1, <2>2 DEF MeasuringBars
<1>8. \A r \in able : /\ L!Measured(all, i, r, s) \in legs /\ r \in p.raids /\ r \in asked
                      /\ Bars0(r) = {} /\ Bars1(r) = {i}
  BY <1>5, <1>6
<1>9. ASSUME NEW l \in legs
      PROVE  /\ l.raid \in able /\ l = L!Measured(all, i, l.raid, s)
             /\ l.start = l.raid.at /\ l.end = i /\ (l.end = l.raid.at + 1 => l.gap = None)
  <2>1. PICK r \in able : l = L!Measured(all, i, r, s)
    BY <1>9
  <2>2. r.at \in 1..n
    BY <1>4, <1>8
  <2> QED BY <2>1, <2>2, NewLeg
<1>10. \A l \in p.legs : l.start \in Nat /\ l.start <= n /\ l.end \in 1..n
  BY <1>2, LegsAreOver
<1>11. ASSUME NEW l \in p.legs
       PROVE  LET can == i - l.end <= H /\ L!IsShift(all, i, l, later, s)
              IN /\ Broke0(l) = {} /\ can => Broke1(l) = {i}
                 /\ ~can => Broke1(l) = Broke0(l)
                 /\ Broke0(l) # {} =>
                      /\ Broke1(l) # {}
                      /\ ShiftOf(l, all, n + 1, later, s) = ShiftOf(l, all, n, swings, s)
  BY <1>10, BreakingBarsGrow DEF ShiftOf
<1>12. \A l \in legs : Broke1(l) = {}
  <2> SUFFICES ASSUME NEW l \in legs PROVE Broke1(l) = {}
    OBVIOUS
  <2>1. l.end = n + 1 /\ n + 1 \in Nat
    BY <1>9
  <2>2. Window(l.end, H, n + 1) = {}
    BY <2>1, WindowIsEmpty
  <2> QED BY <2>2 DEF BreakingBars
<1> HIDE DEF q, legs, able, raids
<1>13. RaidsWait(q, all, n + 1, s)
  <2> HIDE DEF asked
  <2>1. ASSUME NEW r \in q.raids PROVE r.at \in 1..(n + 1)
    BY <1>1, <1>3, <1>4, <2>1
  <2>2. ASSUME NEW r
        PROVE  r \in q.pending <=> r \in q.raids /\ i - r.at <= H /\ Bars1(r) = {}
    <3> HIDE DEF H, Bars0, Bars1
    <3>1. CASE r \in raids
      BY <1>1, <1>7, <3>1
    <3>2. CASE r \notin raids /\ r \in p.raids
      <4>1. r \in {l.raid : l \in legs} <=> r \in able
        <5>1. ASSUME r \in able PROVE r \in {l.raid : l \in legs}
          <6>1. L!Measured(all, i, r, s) \in legs /\ r.at \in 1..n
            BY <1>4, <1>8, <5>1
          <6>2. L!Measured(all, i, r, s).raid = r
            BY <6>1, NewLeg
          <6> QED BY <6>1, <6>2
        <5>2. \A l \in legs : l.raid \in able
          BY <1>9
        <5> QED BY <5>1, <5>2
      <4>2. r \in q.pending <=> r \in asked /\ r \notin able
        BY <1>1, <3>2, <4>1
      <4>3. r \in asked <=> i - r.at <= H /\ Bars0(r) = {}
        <5>1. i - r.at <= H => n - r.at <= H
          <6>1. r.at \in Nat /\ H \in Nat
            BY <1>4, <3>2 DEF H
          <6> QED BY <6>1
        <5>2. r \in p.pending <=> n - r.at <= H /\ Bars0(r) = {}
          BY <1>2, <3>2 DEF RaidsWait, H, Bars0
        <5> QED BY <5>1, <5>2 DEF asked, H
      <4>4. r \in able <=> r \in asked /\ L!Measurable(all, i, r, s)
        BY DEF able
      <4>5. /\ i \in Bars1(r) <=> i - r.at <= H /\ L!Measurable(all, i, r, s)
            /\ i \notin Bars1(r) => Bars1(r) = Bars0(r)
            /\ Bars0(r) # {} => Bars1(r) # {}
        BY <1>6, <3>2
      <4> QED BY <1>1, <3>2, <4>2, <4>3, <4>4, <4>5
    <3>3. CASE r \notin raids /\ r \notin p.raids
      BY <1>1, <1>5, <3>3
    <3> QED BY <3>1, <3>2, <3>3
  <2> QED BY <2>1, <2>2 DEF RaidsWait
<1>14. LegsRight(q, all, n + 1, s)
  <2> HIDE DEF asked
  <2>1. ASSUME NEW l \in q.legs PROVE l.raid \in q.raids /\ LegRight(l, all, n + 1, s)
    <3>1. CASE l \in p.legs
      <4>1. /\ l.raid \in p.raids /\ Bars0(l.raid) # {} /\ l.end = Min(Bars0(l.raid))
            /\ l.start = l.raid.at /\ (l.end = l.raid.at + 1 => l.gap = None)
        BY <1>2, <3>1 DEF LegsRight, LegRight
      <4>2. Bars1(l.raid) # {} /\ Min(Bars1(l.raid)) = Min(Bars0(l.raid))
        BY <1>6, <4>1
      <4> QED BY <1>1, <4>1, <4>2 DEF LegRight
    <3>2. CASE l \in legs
      <4>1. /\ l.raid \in p.raids /\ Bars1(l.raid) = {i}
            /\ l.start = l.raid.at /\ l.end = i /\ (l.end = l.raid.at + 1 => l.gap = None)
        BY <1>8, <1>9, <3>2
      <4>2. Min({i}) = i
        BY OnlyIsMin
      <4> QED BY <1>1, <4>1, <4>2 DEF LegRight
    <3> QED BY <1>1, <3>1, <3>2
  <2>2. ASSUME NEW r \in q.raids, Bars1(r) # {} PROVE \E l \in q.legs : l.raid = r
    <3>1. r \in p.raids
      BY <1>1, <1>7, <2>2
    <3>2. CASE Bars0(r) # {}
      <4>1. \E l \in p.legs : l.raid = r
        BY <1>2, <3>1, <3>2 DEF LegsRight
      <4> QED BY <1>1, <4>1
    <3>3. CASE Bars0(r) = {}
      <4>1. i \in Bars1(r)
        BY <1>6, <2>2, <3>1, <3>3
      <4>2. i - r.at <= H /\ L!Measurable(all, i, r, s)
        BY <1>6, <3>1, <4>1
      <4>3. n - r.at <= H
        BY <1>4, <3>1, <4>2
      <4>4. r \in p.pending
        BY <1>2, <3>1, <3>3, <4>3 DEF RaidsWait
      <4>5. r \in able
        BY <4>2, <4>4 DEF able, asked
      <4>6. L!Measured(all, i, r, s) \in legs /\ r.at \in 1..n
        BY <1>4, <1>8, <3>1, <4>5
      <4>7. L!Measured(all, i, r, s).raid = r
        BY <4>6, NewLeg
      <4> QED BY <1>1, <4>6, <4>7
    <3> QED BY <3>2, <3>3
  <2>3. ASSUME NEW l \in q.legs, NEW m \in q.legs, l.raid = m.raid PROVE l = m
    <3>1. \A k \in p.legs : Bars0(k.raid) # {}
      BY <1>2 DEF LegsRight, LegRight
    <3>2. \A k \in legs : Bars0(k.raid) = {} /\ k = L!Measured(all, i, k.raid, s)
      BY <1>8, <1>9
    <3>3. CASE l \in p.legs /\ m \in p.legs
      BY <1>2, <2>3, <3>3 DEF LegsRight
    <3> HIDE DEF Bars0
    <3>4. CASE l \in legs /\ m \in legs
      BY <2>3, <3>2, <3>4
    <3>5. (l \in p.legs \/ l \in legs) /\ (m \in p.legs \/ m \in legs)
      BY <1>1
    <3> QED BY <2>3, <3>1, <3>2, <3>3, <3>4, <3>5
  <2> QED BY <2>1, <2>2, <2>3 DEF LegsRight
<1>15. \A l \in legs : l \notin p.legs /\ l.end = i
  BY <1>9, <1>10
<1>16. \A l \in p.awaiting : l \in p.legs
  BY <1>2 DEF LegsAwait
<1>17. LegsAwait(q, all, n + 1, later, s)
  <2> SUFFICES ASSUME NEW l
               PROVE  l \in q.awaiting <=>
                        l \in q.legs /\ Passed(l) /\ i - l.end <= H /\ Broke1(l) = {}
    BY DEF LegsAwait
  <2>1. CASE l \in legs
    <3>1. i - l.end <= H /\ Broke1(l) = {} /\ l \notin p.awaiting
      BY <1>12, <1>15, <1>16, <2>1
    <3> QED BY <1>1, <2>1, <3>1
  <2>2. CASE l \notin legs /\ l \in p.legs
    <3>1. l \in p.awaiting <=> Passed(l) /\ n - l.end <= H /\ Broke0(l) = {}
      BY <1>2, <2>2 DEF LegsAwait
    <3>2. i - l.end <= H => n - l.end <= H
      BY <1>10, <2>2
    <3> DEFINE can == i - l.end <= H /\ L!IsShift(all, i, l, later, s)
    <3>3. /\ Broke0(l) = {} /\ can => Broke1(l) = {i}
          /\ ~can => Broke1(l) = Broke0(l)
          /\ Broke0(l) # {} => Broke1(l) # {}
      BY <1>11, <2>2
    <3>4. l \in q.awaiting <=> l \in p.awaiting /\ l \notin broke /\ i - l.end <= H
      BY <1>1, <2>2
    <3>5. l \in broke <=> l \in p.awaiting /\ can
      OBVIOUS
    <3> HIDE DEF broke, Broke0, Broke1, H
    <3>6. l \in q.legs
      BY <1>1, <2>2
    <3> QED BY <3>1, <3>2, <3>3, <3>4, <3>5, <3>6
  <2>3. CASE l \notin legs /\ l \notin p.legs
    BY <1>1, <1>16, <2>3
  <2> QED BY <2>1, <2>2, <2>3
<1>18. ShiftsRight(q, all, n + 1, later, s)
  <2> SUFFICES ASSUME NEW h
               PROVE  h \in q.shifts <=>
                        \E l \in q.legs : /\ Passed(l) /\ Broke1(l) # {}
                                          /\ h = ShiftOf(l, all, n + 1, later, s)
    BY DEF ShiftsRight
  <2>1. ASSUME NEW l \in broke
        PROVE  /\ l \in p.legs /\ Passed(l) /\ Broke0(l) = {} /\ Broke1(l) = {i}
               /\ ShiftOf(l, all, n + 1, later, s) = L!Shift(i, l, later, s)
    <3>1. l \in p.awaiting /\ i - l.end <= H /\ L!IsShift(all, i, l, later, s)
      BY <2>1
    <3>2. l \in p.legs /\ Passed(l) /\ Broke0(l) = {}
      BY <1>2, <3>1 DEF LegsAwait
    <3>3. Broke1(l) = {i}
      BY <1>11, <3>1, <3>2
    <3>4. Min({i}) = i
      BY OnlyIsMin
    <3> QED BY <3>2, <3>3, <3>4 DEF ShiftOf
  <2>2. ASSUME h \in q.shifts
        PROVE  \E l \in q.legs : /\ Passed(l) /\ Broke1(l) # {}
                                 /\ h = ShiftOf(l, all, n + 1, later, s)
    <3>1. CASE h \in p.shifts
      <4>1. PICK l \in p.legs : Passed(l) /\ Broke0(l) # {} /\ h = ShiftOf(l, all, n, swings, s)
        BY <1>2, <3>1 DEF ShiftsRight
      <4>2. Broke1(l) # {} /\ ShiftOf(l, all, n + 1, later, s) = ShiftOf(l, all, n, swings, s)
        BY <1>11, <4>1
      <4> QED BY <1>1, <4>1, <4>2
    <3>2. CASE h \in {L!Shift(i, l, later, s) : l \in broke}
      <4>1. PICK l \in broke : h = L!Shift(i, l, later, s)
        BY <3>2
      <4>2. /\ l \in p.legs /\ Passed(l) /\ Broke1(l) = {i}
            /\ ShiftOf(l, all, n + 1, later, s) = L!Shift(i, l, later, s)
        BY <2>1
      <4> HIDE DEF Broke1, broke
      <4> QED BY <1>1, <4>1, <4>2
    <3> QED BY <1>1, <2>2, <3>1, <3>2
  <2>3. ASSUME NEW l \in q.legs, Passed(l), Broke1(l) # {}, h = ShiftOf(l, all, n + 1, later, s)
        PROVE  h \in q.shifts
    <3>1. l \in p.legs
      BY <1>1, <1>12, <2>3
    <3>2. CASE Broke0(l) # {}
      <4>1. h = ShiftOf(l, all, n, swings, s)
        BY <1>11, <2>3, <3>1, <3>2
      <4>2. h \in p.shifts
        BY <1>2, <2>3, <3>1, <3>2, <4>1 DEF ShiftsRight
      <4> QED BY <1>1, <4>2
    <3>3. CASE Broke0(l) = {}
      <4>1. i - l.end <= H /\ L!IsShift(all, i, l, later, s)
        BY <1>11, <2>3, <3>1, <3>3
      <4>2. n - l.end <= H
        BY <1>10, <3>1, <4>1
      <4>3. l \in p.awaiting
        BY <1>2, <2>3, <3>1, <3>3, <4>2 DEF LegsAwait
      <4>4. l \in broke
        BY <4>1, <4>3
      <4>5. h = L!Shift(i, l, later, s)
        BY <2>1, <2>3, <4>4
      <4> QED BY <1>1, <4>4, <4>5
    <3> QED BY <3>2, <3>3
  <2> QED BY <2>2, <2>3
<1> QED BY <1>13, <1>14, <1>17, <1>18 DEF ReplaySound, q

\* Only the bars so far count.
LEMMA ReplayCounts ==
  ASSUME NEW n \in Nat, NEW all, NEW more, \A j \in 1..n : more[j] = all[j],
         NEW swings, NEW s, s.atrPeriod \in Nat \ {0}, L!Horizon(s) \in Nat,
         NEW p, ReplaySound(p, all, n, swings, s)
  PROVE  ReplaySound(p, more, n, swings, s)
<1>1. /\ RaidsWait(p, all, n, s) /\ LegsRight(p, all, n, s)
      /\ LegsAwait(p, all, n, swings, s) /\ ShiftsRight(p, all, n, swings, s)
  BY DEF ReplaySound
<1>2. ASSUME NEW i \in 1..n
      PROVE  /\ \A r : L!Measurable(more, i, r, s) = L!Measurable(all, i, r, s)
             /\ \A leg : L!IsShift(more, i, leg, swings, s) = L!IsShift(all, i, leg, swings, s)
  BY SameMeasures
<1>3. ASSUME NEW r \in p.raids
      PROVE  MeasuringBars(r, more, n, s) = MeasuringBars(r, all, n, s)
  <2>1. r.at \in 1..n
    BY <1>1 DEF RaidsWait
  <2>2. Window(r.at, L!Horizon(s), n) \subseteq 1..n
    BY <2>1, WindowGrows
  <2> QED BY <1>2, <2>2 DEF MeasuringBars
<1>4. ASSUME NEW l \in p.legs
      PROVE  BreakingBars(l, more, n, swings, s) = BreakingBars(l, all, n, swings, s)
  <2>1. l.end \in 1..n
    BY <1>1, LegsAreOver
  <2>2. Window(l.end, L!Horizon(s), n) \subseteq 1..n
    BY <2>1, WindowGrows
  <2> QED BY <1>2, <2>2 DEF BreakingBars
<1>5. RaidsWait(p, more, n, s)
  BY <1>1, <1>3 DEF RaidsWait
<1>6. LegsRight(p, more, n, s)
  <2>1. ASSUME NEW l \in p.legs PROVE l.raid \in p.raids /\ LegRight(l, more, n, s)
    <3>1. l.raid \in p.raids /\ LegRight(l, all, n, s)
      BY <1>1 DEF LegsRight
    <3>2. MeasuringBars(l.raid, more, n, s) = MeasuringBars(l.raid, all, n, s)
      BY <1>3, <3>1
    <3> QED BY <3>1, <3>2 DEF LegRight
  <2> QED BY <1>1, <1>3, <2>1 DEF LegsRight
<1>7. LegsAwait(p, more, n, swings, s)
  BY <1>1, <1>4 DEF LegsAwait
<1>8. ShiftsRight(p, more, n, swings, s)
  <2>1. \A l \in p.legs : ShiftOf(l, more, n, swings, s) = ShiftOf(l, all, n, swings, s)
    BY <1>4 DEF ShiftOf
  <2> QED BY <1>1, <1>4, <2>1 DEF ShiftsRight
<1> QED BY <1>5, <1>6, <1>7, <1>8 DEF ReplaySound

LEMMA NewReplaySound ==
  ASSUME NEW n \in Nat, NEW all, NEW swings, NEW s
  PROVE  ReplaySound(L!NewReplay, all, n, swings, s)
<1> DEFINE p == L!NewReplay
<1>1. p.raids = {} /\ p.pending = {} /\ p.legs = {} /\ p.awaiting = {} /\ p.shifts = {}
  BY DEF L!NewReplay
<1> HIDE DEF p
<1>2. RaidsWait(p, all, n, s)
  BY <1>1 DEF RaidsWait
<1>3. LegsRight(p, all, n, s)
  BY <1>1 DEF LegsRight
<1>4. LegsAwait(p, all, n, swings, s)
  BY <1>1 DEF LegsAwait
<1>5. ShiftsRight(p, all, n, swings, s)
  BY <1>1 DEF ShiftsRight
<1> QED BY <1>2, <1>3, <1>4, <1>5 DEF ReplaySound, p

\* Each raid is of a level the replay had on its bar.
RaidsOfLevels(p, all, n) ==
  \A r \in p.raids :
    /\ r.at \in 1..n
    /\ r.level \in L!CollectLevels(Reference(all, r.at, r.at, OpeningOf[DayOf[r.at]]))

\* The bars of a period before a bar's are all there on that bar.
LEMMA PeriodsAreOver ==
  ASSUME NEW P \in {DayOf, WeekOf}, NEW n \in 0..MaxBars, NEW i \in 1..n
  PROVE  /\ LastPeriod(P, P[i], n) = LastPeriod(P, P[i], i)
         /\ LastPeriod(P, P[i], i) \subseteq 1..i
<1>1. MaxBars \in Nat /\ n \in Nat /\ i \in Nat /\ i <= n /\ n <= MaxBars
  BY ChartAssumption
<1>2. P \in [1..MaxBars -> Int] /\ \A j \in 1..(MaxBars - 1) : P[j] <= P[j + 1]
  BY DayAssumption
<1>3. ASSUME NEW j \in i..MaxBars PROVE P[i] <= P[j]
  <2>1. i \in 1..MaxBars /\ \A k \in 1..MaxBars : P[k] \in Int
    BY <1>1, <1>2
  <2> QED BY <1>2, <2>1, GrowsThroughout
<1>4. {j \in 1..n : P[j] < P[i]} = {j \in 1..i : P[j] < P[i]}
  <2>1. ASSUME NEW j \in 1..n, P[j] < P[i] PROVE j <= i
    <3>1. CASE i < j
      <4>1. j \in i..MaxBars /\ P[j] \in Int /\ P[i] \in Int
        BY <1>1, <1>2, <3>1
      <4> QED BY <1>3, <2>1, <4>1
    <3> QED BY <1>1, <3>1
  <2> QED BY <1>1, <2>1
<1> QED BY <1>4 DEF LastPeriod

\* Only the bars up to its own count for the levels of a raid, but for a gap's edge.
LEMMA LevelsAreKnown ==
  ASSUME NEW n \in 0..MaxBars, NEW i \in 1..n, NEW all, NEW more,
         \A j \in 1..i : more[j] = all[j], NEW o, NEW u
  PROVE  /\ Reference(more, n, i, o).day = Reference(all, i, i, u).day
         /\ Reference(more, n, i, o).week = Reference(all, i, i, u).week
         /\ n = i /\ o = u => Reference(more, n, i, o) = Reference(all, i, i, u)
<1>1. PreviousDay(n, i) = PreviousDay(i, i) /\ PreviousDay(i, i) \subseteq 1..i
  BY PeriodsAreOver DEF PreviousDay
<1>2. PreviousWeek(n, i) = PreviousWeek(i, i) /\ PreviousWeek(i, i) \subseteq 1..i
  BY PeriodsAreOver DEF PreviousWeek
<1>5. ASSUME NEW some, some \subseteq 1..i PROVE some = {} \/ Max(some) \in 1..i
  <2> SUFFICES ASSUME some # {} PROVE Max(some) \in some
    BY <1>5
  <2>1. i \in Nat /\ some \subseteq 1..i
    BY <1>5, ChartAssumption
  <2> QED BY <2>1, HighestOf
<1>3. ASSUME NEW some, some \subseteq 1..i PROVE OhlcOf(more, some) = OhlcOf(all, some)
  <2>1. some = {} \/ Max(some) \in 1..i
    BY <1>3, <1>5
  <2>2. /\ {more[j].high : j \in some} = {all[j].high : j \in some}
        /\ {more[j].low : j \in some} = {all[j].low : j \in some}
    BY <1>3
  <2>3. some # {} => more[Max(some)] = all[Max(some)]
    BY <2>1
  <2> QED BY <2>2, <2>3 DEF OhlcOf
<1>4. n = i /\ o = u => OpeningGap(more, n, i, o) = OpeningGap(all, i, i, u)
  <2> SUFFICES ASSUME n = i, o = u PROVE OpeningGap(more, i, i, u) = OpeningGap(all, i, i, u)
    OBVIOUS
  <2> DEFINE before == PreviousDay(i, i) \cap Unsettled
  <2>1. before = {} \/ Max(before) \in 1..i
    BY <1>1, <1>5
  <2>2. before # {} => more[Max(before)] = all[Max(before)]
    BY <2>1
  <2> QED BY <2>2 DEF OpeningGap
<1> QED BY <1>1, <1>2, <1>3, <1>4 DEF Reference

LEMMA PastLevelsStay ==
  ASSUME NEW n \in 0..MaxBars, NEW i \in 1..n, NEW all, NEW o, NEW u
  PROVE  /\ Reference(all, n, i, o).day = Reference(all, i, i, u).day
         /\ Reference(all, n, i, o).week = Reference(all, i, i, u).week
<1>1. PreviousDay(n, i) = PreviousDay(i, i)
  BY PeriodsAreOver DEF PreviousDay
<1>2. PreviousWeek(n, i) = PreviousWeek(i, i)
  BY PeriodsAreOver DEF PreviousWeek
<1> QED BY <1>1, <1>2 DEF Reference

LEMMA LevelsStay ==
  ASSUME NEW n \in 0..MaxBars, NEW all, NEW more, \A j \in 1..n : more[j] = all[j],
         NEW p, RaidsOfLevels(p, all, n)
  PROVE  RaidsOfLevels(p, more, n)
<1> SUFFICES ASSUME NEW r \in p.raids
             PROVE  /\ r.at \in 1..n
                    /\ r.level \in L!CollectLevels(Reference(more, r.at, r.at, OpeningOf[DayOf[r.at]]))
  BY DEF RaidsOfLevels
<1>1. r.at \in 1..n
  BY DEF RaidsOfLevels
<1>2. r.at \in 0..MaxBars /\ r.at \in 1..r.at /\ \A j \in 1..r.at : j \in 1..n
  BY <1>1, ChartAssumption
<1>3. PICK i : i = r.at
  OBVIOUS
<1>4. Reference(more, i, i, OpeningOf[DayOf[i]]) = Reference(all, i, i, OpeningOf[DayOf[i]])
  BY <1>2, <1>3, LevelsAreKnown
<1> QED BY <1>1, <1>3, <1>4 DEF RaidsOfLevels

\* The bars that have closed are no more than there may be.
LEMMA ClosedWithin == ASSUME SwingInv PROVE ClosedBars \in 0..MaxBars
  BY ChartAssumption DEF SwingInv, ClosedBars

DetectorInv ==
  /\ SwingInv
  /\ Dated(points, ClosedBars)
  /\ DOMAIN replays = DOMAIN Setups
  /\ \A x \in DOMAIN Setups : /\ ReplaySound(replays[x], bars, ClosedBars, points, Setups[x])
                              /\ RaidsOfLevels(replays[x], bars, ClosedBars)

LEMMA HorizonsAreNumbers ==
  \A x \in DOMAIN Setups : Setups[x].atrPeriod \in Nat \ {0} /\ L!Horizon(Setups[x]) \in Nat
BY SetupAssumption DEF L!Horizon

LEMMA InitDetects == ObservationInit => DetectorInv
<1> SUFFICES ASSUME ObservationInit PROVE DetectorInv
  OBVIOUS
<1>1. SwingInv
  BY InitAgrees DEF ObservationInit
<1>2. ClosedBars \in Nat
  BY <1>1 DEF SwingInv, ClosedBars
<1>3. points = <<>> /\ replays = [x \in DOMAIN Setups |-> L!NewReplay]
  BY DEF ObservationInit
<1>4. Dated(points, ClosedBars)
  BY <1>3 DEF Dated, IsSeq
<1>5. \A x \in DOMAIN Setups : ReplaySound(replays[x], bars, ClosedBars, points, Setups[x])
  BY <1>2, <1>3, NewReplaySound
<1>6. \A x \in DOMAIN Setups : RaidsOfLevels(replays[x], bars, ClosedBars)
  BY <1>3 DEF RaidsOfLevels, L!NewReplay
<1> QED BY <1>1, <1>3, <1>4, <1>5, <1>6 DEF DetectorInv

LEMMA ShapeDetects == ASSUME DetectorInv, Shape, UNCHANGED observed PROVE DetectorInv'
<1> DEFINE n == ClosedBars
<1>1. /\ SwingInv' /\ n \in Nat /\ ClosedBars' = n
      /\ \A i \in 1..n : bars'[i] = bars[i]
  BY ShapeKeepsClosed DEF DetectorInv
<1>2. points' = points /\ replays' = replays
  BY DEF observed
<1>3. ASSUME NEW x \in DOMAIN Setups
      PROVE  ReplaySound(replays'[x], bars', n, points', Setups[x])
  <2>1. ReplaySound(replays[x], bars, n, points, Setups[x])
    BY DEF DetectorInv
  <2> HIDE DEF n
  <2>2. ReplaySound(replays[x], bars', n, points, Setups[x])
    BY <1>1, <2>1, HorizonsAreNumbers, ReplayCounts
  <2> QED BY <1>2, <2>2
<1>4. ASSUME NEW x \in DOMAIN Setups PROVE RaidsOfLevels(replays'[x], bars', n)
  <2>1. RaidsOfLevels(replays[x], bars, n) /\ n \in 0..MaxBars
    BY <1>1, ClosedWithin DEF DetectorInv
  <2> HIDE DEF n
  <2> QED BY <1>1, <1>2, <2>1, LevelsStay
<1> HIDE DEF n
<1> QED BY <1>1, <1>2, <1>3, <1>4 DEF DetectorInv, n

\* The points grow by what the two tiers find on the bar.
LEMMA PointsGrow ==
  ASSUME DetectorInv, NextBar, Observe
  PROVE  Lengthens(points, points', ClosedBars)
<1> DEFINE n == ClosedBars
           a == Confirming("swing")
           b == Confirming("internal")
           first == points \o a
           both == first \o b
<1>1. n \in Nat /\ Len(bars) = n + 1
  BY NextBarCloses DEF DetectorInv
<1>2. ASSUME NEW t \in DOMAIN Tiers
      PROVE  /\ \E S : Confirming(t) \in Seq(S)
             /\ \A i \in 1..Len(Confirming(t)) : IsDated(Confirming(t)[i], n + 1)
  <2>1. bars \in Seq(Bars(Int)) /\ Len(bars) # 0 /\ Agreed(t, engines[t], Closed)
    BY <1>1, <1>2 DEF DetectorInv, SwingInv
  <2>2. Continues(Closed, bars) /\ Untouched(engines[t], Closed)
    BY <2>1, ClosedGrows DEF Closed, Agreed
  <2>3. Tiers[t].k \in Nat \ {0}
    BY <1>2, ChartAssumption
  <2> QED BY <1>1, <2>2, <2>3, EventsAreDated DEF Confirming
<1>3. "swing" \in DOMAIN Tiers /\ "internal" \in DOMAIN Tiers
  BY TierAssumption
<1>4. points' = both
  BY DEF Observe
<1>5. Dated(points, n)
  BY DEF DetectorInv
<1> HIDE DEF n, a, b
<1>6. PICK S : a \in Seq(S)
  BY <1>2, <1>3 DEF a
<1>7. PICK T : b \in Seq(T)
  BY <1>2, <1>3 DEF b
<1>8. /\ \A i \in 1..Len(a) : IsDated(a[i], n + 1)
      /\ \A i \in 1..Len(b) : IsDated(b[i], n + 1)
  BY <1>2, <1>3 DEF a, b
<1>9. Lengthens(points, first, n)
  <2>1. PICK U : points \in Seq(U)
    BY <1>5 DEF Dated, IsSeq
  <2> QED BY <1>1, <1>6, <1>8, <2>1, SwingsGrow
<1> HIDE DEF first
<1>10. Lengthens(first, both, n)
  <2>1. PICK U : first \in Seq(U)
    BY <1>9 DEF Lengthens, IsSeq
  <2> QED BY <1>1, <1>7, <1>8, <2>1, SwingsGrow
<1> HIDE DEF both
<1>11. Lengthens(points, both, n)
  <2>1. /\ Len(points) \in Nat /\ Len(first) \in Nat /\ Len(both) \in Nat
        /\ Len(points) <= Len(first) /\ Len(first) <= Len(both)
    BY <1>9, <1>10 DEF Lengthens
  <2>2. ASSUME NEW m \in 1..Len(points) PROVE both[m] = points[m]
    <3>1. m \in 1..Len(first)
      BY <2>1
    <3> QED BY <1>9, <1>10, <3>1 DEF Lengthens
  <2>3. ASSUME NEW m \in (Len(points) + 1)..Len(both) PROVE IsDated(both[m], n + 1)
    <3>1. CASE m <= Len(first)
      <4>1. m \in 1..Len(first) /\ m \in (Len(points) + 1)..Len(first)
        BY <2>1, <3>1
      <4>2. both[m] = first[m]
        BY <1>10, <4>1 DEF Lengthens
      <4>3. IsDated(first[m], n + 1)
        BY <1>9, <4>1 DEF Lengthens
      <4> QED BY <4>2, <4>3
    <3>2. CASE ~(m <= Len(first))
      <4>1. m \in (Len(first) + 1)..Len(both)
        BY <2>1, <3>2
      <4> QED BY <1>10, <4>1 DEF Lengthens
    <3> QED BY <3>1, <3>2
  <2>4. IsSeq(both)
    BY <1>10 DEF Lengthens
  <2> QED BY <2>1, <2>2, <2>3, <2>4 DEF Lengthens
<1> QED BY <1>4, <1>11 DEF n

LEMMA ObserveDetects == ASSUME DetectorInv, NextBar, Observe PROVE DetectorInv'
<1> DEFINE n == ClosedBars
<1>1. /\ SwingInv' /\ n \in Nat /\ ClosedBars' = n + 1 /\ n + 1 \in Nat
      /\ Len(bars) = n + 1 /\ \A i \in 1..(n + 1) : bars'[i] = bars[i]
  BY NextBarCloses DEF DetectorInv
<1>2. Dated(points, n) /\ Lengthens(points, points', n)
  BY PointsGrow DEF DetectorInv
<1>3. replays' = [x \in DOMAIN Setups |->
                    L!Replayed(replays[x], bars, ReplayReference(Len(bars)), points', Setups[x])]
  BY DEF Observe
<1>4. \A x \in DOMAIN Setups : ReplaySound(replays[x], bars, n, points, Setups[x])
  BY DEF DetectorInv
<1> HIDE DEF n
<1>5. Dated(points', n + 1)
  BY <1>1, <1>2, LengthenedIsDated
<1>6. ASSUME NEW x \in DOMAIN Setups
      PROVE  ReplaySound(replays'[x], bars', n + 1, points', Setups[x])
  <2> DEFINE s == Setups[x]
             q == replays'[x]
  <2>1. s.atrPeriod \in Nat \ {0} /\ L!Horizon(s) \in Nat
    BY HorizonsAreNumbers
  <2>2. q = L!Replayed(replays[x], bars, ReplayReference(Len(bars)), points', s)
    BY <1>3
  <2>3. ReplaySound(replays[x], bars, n, points, s)
    BY <1>4
  <2> HIDE DEF s, q
  <2>4. ReplaySound(q, bars, n + 1, points', s)
    BY <1>1, <1>2, <2>1, <2>2, <2>3, ReplayGoesOn
  <2>5. ReplaySound(q, bars', n + 1, points', s)
    BY <1>1, <2>1, <2>4, ReplayCounts
  <2> QED BY <2>5 DEF s, q
<1>7. DOMAIN replays' = DOMAIN Setups
  BY <1>3
<1>8. ASSUME NEW x \in DOMAIN Setups PROVE RaidsOfLevels(replays'[x], bars', n + 1)
  <2> DEFINE levels == L!CollectLevels(ReplayReference(n + 1))
             p == replays[x]
             q == replays'[x]
  <2>1. RaidsOfLevels(p, bars, n) /\ n \in 0..MaxBars /\ n + 1 \in 0..MaxBars
    <3>1. SwingInv /\ RaidsOfLevels(replays[x], bars, ClosedBars)
      BY DEF DetectorInv
    <3>2. Len(bars) \in 1..MaxBars /\ MaxBars \in Nat
      BY <3>1, ChartAssumption DEF SwingInv
    <3> QED BY <1>1, <3>1, <3>2 DEF n
  <2>2. q = L!Replayed(p, bars, ReplayReference(n + 1), points', Setups[x])
    BY <1>1, <1>3
  <2>3. q.raids = p.raids \cup L!Raids(bars, n + 1, levels, Setups[x])
    BY <1>1, <2>2 DEF L!Replayed
  <2>4. ASSUME NEW r \in L!Raids(bars, n + 1, levels, Setups[x])
        PROVE  r.at = n + 1 /\ r.level \in levels
    BY DEF L!Raids, L!Raid
  <2>5. levels = L!CollectLevels(Reference(bars, n + 1, n + 1, OpeningOf[DayOf[n + 1]]))
    BY DEF ReplayReference
  <2> HIDE DEF levels, p, q
  <2>6. RaidsOfLevels(q, bars, n + 1)
    BY <1>1, <2>1, <2>3, <2>4, <2>5 DEF RaidsOfLevels
  <2>7. RaidsOfLevels(q, bars', n + 1)
    BY <1>1, <2>1, <2>6, LevelsStay
  <2> QED BY <2>7 DEF q
<1> QED BY <1>1, <1>5, <1>6, <1>7, <1>8 DEF DetectorInv

-----------------------------------------------------------------------------
(* What the detectors said.                                                *)

LEMMA ClosedCount ==
  ASSUME SwingInv
  PROVE  ClosedBars \in Nat /\ Len(Closed) = ClosedBars
<1>1. bars \in Seq(Bars(Int)) /\ Len(bars) # 0
  BY DEF SwingInv
<1>2. Len(bars) \in Nat /\ Len(bars) = Len(Closed) + 1 /\ Len(Closed) \in Nat
  BY <1>1, ClosedGrows DEF Closed, Continues
<1> QED BY <1>2 DEF ClosedBars

LEMMA ShiftsStand == ASSUME DetectorInv PROVE ShiftsStandInHindsight
<1> SUFFICES ASSUME NEW x \in DOMAIN Setups
             PROVE  LET s == Setups[x]
                        qualified == {l \in replays[x].legs : l.qualification = "PASS"}
                        Breaking(l) == {j \in ShiftBars(l, s) : L!IsShift(bars, j, l, points, s)}
                    IN replays[x].shifts =
                         {L!Shift(Min(Breaking(l)), l, points, s) :
                            l \in {q \in qualified : Breaking(q) # {}}}
  BY DEF ShiftsStandInHindsight
<1> DEFINE s == Setups[x]
           p == replays[x]
           n == ClosedBars
           qualified == {l \in p.legs : l.qualification = "PASS"}
           Breaking(l) == {j \in ShiftBars(l, s) : L!IsShift(bars, j, l, points, s)}
           shifts == {L!Shift(Min(Breaking(l)), l, points, s) :
                        l \in {q \in qualified : Breaking(q) # {}}}
<1>1. Len(Closed) = n
  BY ClosedCount DEF DetectorInv
<1>2. ShiftsRight(p, bars, n, points, s)
  BY DEF DetectorInv, ReplaySound
<1>3. ASSUME NEW l PROVE Breaking(l) = BreakingBars(l, bars, n, points, s)
  BY <1>1 DEF ShiftBars, BreakingBars, Window
<1> HIDE DEF Breaking, s, p, n
<1>4. ASSUME NEW h \in p.shifts PROVE h \in shifts
  <2>1. PICK l \in p.legs : /\ Passed(l) /\ BreakingBars(l, bars, n, points, s) # {}
                            /\ h = ShiftOf(l, bars, n, points, s)
    BY <1>2, <1>4 DEF ShiftsRight
  <2> QED BY <1>3, <2>1 DEF Passed, ShiftOf
<1>5. ASSUME NEW h \in shifts PROVE h \in p.shifts
  <2>1. PICK l \in qualified : Breaking(l) # {} /\ h = L!Shift(Min(Breaking(l)), l, points, s)
    BY <1>5
  <2>2. /\ l \in p.legs /\ Passed(l) /\ BreakingBars(l, bars, n, points, s) # {}
        /\ h = ShiftOf(l, bars, n, points, s)
    BY <1>3, <2>1 DEF Passed, ShiftOf
  <2> QED BY <1>2, <2>2 DEF ShiftsRight
<1>6. p.shifts = shifts
  BY <1>4, <1>5
<1> QED BY <1>6 DEF Breaking, s, p

LEMMA OneLegEach == ASSUME DetectorInv PROVE OneBarForEachRaid
<1> SUFFICES ASSUME NEW x \in DOMAIN Setups, NEW r \in replays[x].raids
             PROVE  LET legs == {l \in replays[x].legs : l.raid = r}
                        ends == LegBars(r, Setups[x])
                    IN IF ends = {} THEN legs = {}
                       ELSE /\ Cardinality(legs) = 1
                            /\ \A l \in legs : l.end = Min(ends) /\ (l.end = r.at + 1 => l.gap = None)
  BY DEF OneBarForEachRaid
<1> DEFINE s == Setups[x]
           p == replays[x]
           n == ClosedBars
           legs == {l \in p.legs : l.raid = r}
           ends == LegBars(r, s)
<1>1. Len(Closed) = n
  BY ClosedCount DEF DetectorInv
<1>2. LegsRight(p, bars, n, s)
  BY DEF DetectorInv, ReplaySound
<1>3. ends = MeasuringBars(r, bars, n, s)
  BY <1>1 DEF LegBars, MeasuringBars, Window
<1> HIDE DEF s, n, ends
<1>4. \A l \in legs : /\ ends # {} /\ l.end = Min(ends) /\ (l.end = r.at + 1 => l.gap = None)
  BY <1>2, <1>3 DEF LegsRight, LegRight
<1>5. ASSUME ends # {} PROVE Cardinality(legs) = 1
  <2>1. PICK l \in p.legs : l.raid = r
    BY <1>2, <1>3, <1>5 DEF LegsRight
  <2>2. \A m \in legs : m = l
    BY <1>2, <2>1 DEF LegsRight
  <2>3. legs = {l}
    BY <2>1, <2>2
  <2> HIDE DEF legs
  <2> QED BY <2>3, FS_Singleton
<1>6. ends = {} => legs = {}
  BY <1>4
<1> HIDE DEF legs
<1>7. IF ends = {} THEN legs = {}
      ELSE /\ Cardinality(legs) = 1
           /\ \A l \in legs : l.end = Min(ends) /\ (l.end = r.at + 1 => l.gap = None)
  BY <1>4, <1>5, <1>6
<1> QED BY <1>7 DEF legs, ends, s, p

LEMMA BreaksAreInOrder == ASSUME DetectorInv PROVE BreaksInOrder
<1> SUFFICES ASSUME NEW x \in DOMAIN Setups, NEW h \in replays[x].shifts
             PROVE  LET run == L!BosRun(Closed, h, points, Setups[x])
                    IN \A b \in DOMAIN run : \A a \in 1..(b - 1) :
                         /\ h.at < run[a].at /\ run[a].at < run[b].at
                         /\ run[a].id # run[b].id
                         /\ points[run[b].id].at <= run[a].at =>
                              ~Beyond(L!Opposing(h.leg.direction), run[a].price, run[b].price)
  BY DEF BreaksInOrder
<1> DEFINE run == L!BosRun(Closed, h, points, Setups[x])
<1>1. ClosedBars \in Nat /\ Len(Closed) \in Nat
  BY ClosedCount DEF DetectorInv
<1>2. Dated(points, ClosedBars)
  BY DEF DetectorInv
<1>3. RunSound(run, points, h, Len(Closed), Setups[x])
  BY <1>1, <1>2, RunIsSound
<1> HIDE DEF run
<1>4. \A b \in DOMAIN run : \A a \in 1..(b - 1) :
        /\ h.at < run[a].at /\ run[a].at < run[b].at
        /\ run[a].id # run[b].id
        /\ points[run[b].id].at <= run[a].at =>
             ~Beyond(L!Opposing(h.leg.direction), run[a].price, run[b].price)
  BY <1>1, <1>2, <1>3, RunInOrder
<1> QED BY <1>4 DEF run

LEMMA LevelsStand == ASSUME DetectorInv PROVE LevelsStandInHindsight
<1> SUFFICES ASSUME NEW x \in DOMAIN Setups, NEW r \in replays[x].raids,
                    r.level.kind \notin Range(L!OfGap)
             PROVE  RaidsALevelOfItsDay(r)
  BY DEF LevelsStandInHindsight
<1>1. Len(Closed) = ClosedBars /\ ClosedBars \in 0..MaxBars
  BY ClosedCount, ClosedWithin DEF DetectorInv
<1>2. /\ r.at \in 1..ClosedBars
      /\ r.level \in L!CollectLevels(Reference(bars, r.at, r.at, OpeningOf[DayOf[r.at]]))
  BY DEF DetectorInv, RaidsOfLevels
<1>3. PICK n \in 0..MaxBars, i \in 1..ClosedBars : n = ClosedBars /\ i = r.at
  BY <1>1, <1>2
<1> DEFINE was == Reference(bars, i, i, OpeningOf[DayOf[i]])
           is == Reference(bars, n, i, OpenedBy(bars, n, DayOf[i]))
<1>4. is.day = was.day /\ is.week = was.week
  <2>1. i \in 1..n
    BY <1>3
  <2>2. \A all, o, u : /\ Reference(all, n, i, o).day = Reference(all, i, i, u).day
                      /\ Reference(all, n, i, o).week = Reference(all, i, i, u).week
    BY <1>3, <2>1, PastLevelsStay
  <2> QED BY <2>2 DEF was, is
<1>5. r.level \in L!CollectLevels(was)
  BY <1>2, <1>3
<1> HIDE DEF was, is
<1>6. r.level \notin L!LevelsOf(was.gap, L!OfGap)
  <2>1. \A f \in DOMAIN L!OfGap : L!OfGap[f] \in Range(L!OfGap)
    BY DEF Range
  <2> QED BY <2>1 DEF L!LevelsOf
<1>7. r.level \in L!CollectLevels(is)
  BY <1>4, <1>5, <1>6 DEF L!CollectLevels
<1> QED BY <1>1, <1>3, <1>7 DEF RaidsALevelOfItsDay, is

\* Of whatever bars, days, setups and levels, every shift is what repeating the walk with all the
\* swings known later finds, every raid has one leg, up to the first bar it can be measured
\* on, the breaks after a shift are in order, nearest first, and the level of a raid is that
\* of every longer run, if it is no opening gap's (lrx_replay.py:20, lrx_bos.py:381,
\* levels.py:166).
THEOREM DetectorsLookBack == ObservationSpec => []DetectorsLookBackOnly
<1>1. ObservationInit => DetectorInv
  BY InitDetects
<1>2. DetectorInv /\ [ObservationNext]_<<vars, observed>> => DetectorInv'
  <2> SUFFICES ASSUME DetectorInv, [ObservationNext]_<<vars, observed>> PROVE DetectorInv'
    OBVIOUS
  <2>1. CASE Shape /\ UNCHANGED observed
    BY <2>1, ShapeDetects
  <2>2. CASE NextBar /\ Observe
    BY <2>2, ObserveDetects
  <2>3. CASE UNCHANGED <<vars, observed>>
    <3>1. bars' = bars /\ engines' = engines /\ points' = points /\ replays' = replays
      BY <2>3 DEF vars, observed
    <3> QED BY <3>1 DEF DetectorInv, SwingInv, Closed, ClosedBars
  <2> QED BY <2>1, <2>2, <2>3 DEF ObservationNext
<1>3. DetectorInv => DetectorsLookBackOnly
  BY ShiftsStand, OneLegEach, BreaksAreInOrder, LevelsStand DEF DetectorsLookBackOnly
<1> QED BY <1>1, <1>2, <1>3, PTL DEF ObservationSpec

=============================================================================
