---------------------------- MODULE ChartProofs ----------------------------
(***************************************************************************)
(* Theorems about the terminal's indicators next to the EA's engines, for  *)
(* any bars, tiers, periods and scan windows, and however often the        *)
(* terminal was away.                                                      *)
(*                                                                         *)
(* What a chart draws.  The swings a pass finds and the bars that end them *)
(* can be told from the bars alone (Tells, PassTells), so its boxes are    *)
(* those of the bars (BoxesShow), as are those of the EA's log             *)
(* (DecidedShow).  A window of the bars has the swings of all of them from *)
(* where its average is whole (WindowTurns), and each ends on the same bar *)
(* or on the one still forming (WindowBox).                                *)
(*                                                                         *)
(* What the pane computes.  A value depends on the bars up to its own      *)
(* (SameReadings), so one kept from an earlier call is that of all bars    *)
(* (PaneStays), and rounding keeps the order that ranks are made of        *)
(* (RoundingKeepsOrder, PaneReads).                                        *)
(***************************************************************************)
EXTENDS ObservationProofs

-----------------------------------------------------------------------------
(* What a pass finds.                                                      *)

\* The bars a tier's swings of a type are at.
Turns(tier, period, all, type) ==
  {p \in Nat : /\ p > tier.k
               /\ IsPivot(all, p, tier.k, type)
               /\ ChartAtr(all, p, period) # None
               /\ FarEnough(tier, ReversalTicks(all, p, tier.k, type), ChartAtr(all, p, period))}

Past(all, type, p, j) == Beyond(type, Tip(type, all[j]), Tip(type, all[p]))

\* Of the swings confirmed by a bar that at p is the last, and nothing up to another bar was
\* traded beyond it.
Lives(S, k, all, type, p, to, by) ==
  /\ p \in S /\ p + k <= by
  /\ \A q \in S : q > p => q + k > by
  /\ \A m \in (p + k + 1)..to : ~Past(all, type, p, m)

EndsAt(S, k, all, type, p, j) ==
  j \in Nat /\ Lives(S, k, all, type, p, j - 1, j - 1) /\ Past(all, type, p, j)

IsFound(pass, n, type) ==
  /\ n \in 1..Len(pass.events)
  /\ pass.events[n].type = type /\ pass.events[n].status = "CONFIRMED"

IsEnded(pass, n, type) ==
  /\ n \in 1..Len(pass.events)
  /\ pass.events[n].type = type /\ pass.events[n].status = "BROKEN"

FoundRight(pass, n, S, k, all, type, by) ==
  LET e == pass.events[n]
  IN /\ e.pivot \in S /\ e.pivot + k <= by
     /\ e.price = Tip(type, all[e.pivot]) /\ e.opposite = Opposite(all, e.pivot, k, type)
     /\ pass.sources[n] = 0

EndedRight(pass, n, S, k, all, type, to) ==
  LET e == pass.events[n]
  IN /\ IsFound(pass, pass.sources[n], type)
     /\ pass.events[pass.sources[n]].pivot = e.pivot
     /\ EndsAt(S, k, all, type, e.pivot, e.at) /\ e.at <= to

\* Every swing of a type confirmed by a bar is found once, every one traded beyond while it was
\* the last has ended, and the active one is that which lives.
Tells(pass, S, k, all, type, to, by) ==
  /\ \A n : IsFound(pass, n, type) => FoundRight(pass, n, S, k, all, type, by)
  /\ \A n : IsEnded(pass, n, type) => EndedRight(pass, n, S, k, all, type, to)
  /\ \A p \in S : p + k <= by => \E n : IsFound(pass, n, type) /\ pass.events[n].pivot = p
  /\ \A p, j : EndsAt(S, k, all, type, p, j) /\ j <= to =>
       \E n : IsEnded(pass, n, type) /\ pass.events[n].pivot = p /\ pass.events[n].at = j
  /\ \A m, n : /\ IsFound(pass, m, type) /\ IsFound(pass, n, type)
               /\ pass.events[m].pivot = pass.events[n].pivot
               => m = n
  /\ LET a == pass.active[type]
     IN IF a = 0 THEN \A p \in S : ~Lives(S, k, all, type, p, to, by)
        ELSE IsFound(pass, a, type) /\ Lives(S, k, all, type, pass.events[a].pivot, to, by)

IsPass(pass) ==
  /\ IsSeq(pass.events) /\ IsSeq(pass.sources) /\ Len(pass.sources) = Len(pass.events)
  /\ pass.active \in [Types -> Nat]
  /\ \A n \in 1..Len(pass.events) :
       /\ pass.events[n].type \in Types
       /\ pass.events[n].status \in {"CONFIRMED", "BROKEN"}

\* One event more.
Adds(pass, next, e, x, type, a) ==
  LET n == Len(pass.events)
  IN /\ Len(next.events) = n + 1
     /\ next.events[n + 1] = e /\ next.sources[n + 1] = x
     /\ \A m \in 1..n : next.events[m] = pass.events[m] /\ next.sources[m] = pass.sources[m]
     /\ next.active[type] = a
     /\ \A u \in Types : u # type => next.active[u] = pass.active[u]

LEMMA EventAdds ==
  ASSUME NEW pass, IsPass(pass), NEW e, NEW x, NEW type \in Types, NEW a \in Nat,
         e.type = type, e.status \in {"CONFIRMED", "BROKEN"},
         NEW next, next = [events |-> Append(pass.events, e), sources |-> Append(pass.sources, x),
                           active |-> [pass.active EXCEPT ![type] = a]]
  PROVE  IsPass(next) /\ Adds(pass, next, e, x, type, a)
<1> DEFINE n == Len(pass.events)
<1>1. /\ next.events = Append(pass.events, e) /\ next.sources = Append(pass.sources, x)
      /\ next.active = [pass.active EXCEPT ![type] = a]
  OBVIOUS
<1>2. /\ IsSeq(next.events) /\ n \in Nat /\ Len(next.events) = n + 1 /\ next.events[n + 1] = e
      /\ \A m \in 1..n : next.events[m] = pass.events[m]
  BY <1>1, AppendTo DEF IsPass
<1>3. /\ IsSeq(next.sources) /\ Len(next.sources) = n + 1 /\ next.sources[n + 1] = x
      /\ \A m \in 1..n : next.sources[m] = pass.sources[m]
  <2>1. IsSeq(pass.sources) /\ Len(pass.sources) = n
    BY DEF IsPass
  <2> HIDE DEF n
  <2> QED BY <1>1, <2>1, AppendTo
<1>4. /\ next.active \in [Types -> Nat] /\ next.active[type] = a
      /\ \A u \in Types : u # type => next.active[u] = pass.active[u]
  BY <1>1 DEF IsPass
<1>5. ASSUME NEW m \in 1..(n + 1)
      PROVE  next.events[m].type \in Types /\ next.events[m].status \in {"CONFIRMED", "BROKEN"}
  <2>1. m = n + 1 \/ m \in 1..n
    BY <1>2
  <2>2. CASE m = n + 1
    BY <1>2, <2>2
  <2>3. CASE m \in 1..n
    <3>1. next.events[m] = pass.events[m]
      BY <1>2, <2>3
    <3> QED BY <2>3, <3>1 DEF IsPass
  <2> QED BY <2>1, <2>2, <2>3
<1>6. IsPass(next)
  BY <1>2, <1>3, <1>4, <1>5 DEF IsPass
<1>7. Adds(pass, next, e, x, type, a)
  BY <1>2, <1>3, <1>4 DEF Adds
<1> QED BY <1>6, <1>7

\* An event of one type leaves what there is of the other.
LEMMA OthersStay ==
  ASSUME NEW pass, IsPass(pass), NEW next, NEW e, NEW x, NEW a, NEW type \in Types,
         Adds(pass, next, e, x, type, a), e.type = type, NEW u \in Types, u # type,
         NEW S, NEW k, NEW all, NEW to, NEW by, Tells(pass, S, k, all, u, to, by)
  PROVE  Tells(next, S, k, all, u, to, by)
<1> DEFINE n == Len(pass.events)
<1>1. n \in Nat
  BY DEF IsPass, IsSeq
<1>2. ASSUME NEW m
      PROVE  /\ IsFound(next, m, u) <=> IsFound(pass, m, u)
             /\ IsEnded(next, m, u) <=> IsEnded(pass, m, u)
             /\ IsFound(pass, m, u) \/ IsEnded(pass, m, u) =>
                  next.events[m] = pass.events[m] /\ next.sources[m] = pass.sources[m]
  <2>1. m \in 1..(n + 1) <=> m = n + 1 \/ m \in 1..n
    BY <1>1
  <2>2. n + 1 \notin 1..n
    BY <1>1
  <2>3. Len(next.events) = n + 1 /\ next.events[n + 1].type # u
    BY DEF Adds
  <2>4. m \in 1..n => next.events[m] = pass.events[m] /\ next.sources[m] = pass.sources[m]
    BY DEF Adds
  <2> QED BY <2>1, <2>2, <2>3, <2>4 DEF IsFound, IsEnded
<1>3. \A m : IsFound(next, m, u) => FoundRight(next, m, S, k, all, u, by)
  BY <1>2 DEF Tells, FoundRight
<1>4. ASSUME NEW m, IsEnded(next, m, u) PROVE EndedRight(next, m, S, k, all, u, to)
  <2>1. IsEnded(pass, m, u) /\ EndedRight(pass, m, S, k, all, u, to)
        /\ next.events[m] = pass.events[m] /\ next.sources[m] = pass.sources[m]
    BY <1>2, <1>4 DEF Tells
  <2>2. IsFound(pass, pass.sources[m], u)
    BY <2>1 DEF EndedRight
  <2>3. IsFound(next, pass.sources[m], u) /\ next.events[pass.sources[m]] = pass.events[pass.sources[m]]
    BY <1>2, <2>2
  <2> QED BY <2>1, <2>3 DEF EndedRight
<1>5. \A p \in S : p + k <= by => \E m : IsFound(next, m, u) /\ next.events[m].pivot = p
  BY <1>2 DEF Tells
<1>6. \A p, j : EndsAt(S, k, all, u, p, j) /\ j <= to =>
        \E m : IsEnded(next, m, u) /\ next.events[m].pivot = p /\ next.events[m].at = j
  BY <1>2 DEF Tells
<1>7. \A m, v : /\ IsFound(next, m, u) /\ IsFound(next, v, u)
                /\ next.events[m].pivot = next.events[v].pivot
                => m = v
  BY <1>2 DEF Tells
<1>8. next.active[u] = pass.active[u]
  BY DEF Adds
<1> QED BY <1>2, <1>3, <1>4, <1>5, <1>6, <1>7, <1>8 DEF Tells

\* What is found and ended is what was, and the one event more.
LEMMA EventsStay ==
  ASSUME NEW pass, IsPass(pass), NEW next, NEW e, NEW x, NEW a, NEW type,
         Adds(pass, next, e, x, type, a), NEW n, n = Len(pass.events), NEW u, NEW m
  PROVE  /\ IsFound(next, m, u) <=>
              IsFound(pass, m, u) \/ (m = n + 1 /\ e.type = u /\ e.status = "CONFIRMED")
         /\ IsEnded(next, m, u) <=>
              IsEnded(pass, m, u) \/ (m = n + 1 /\ e.type = u /\ e.status = "BROKEN")
         /\ IsFound(pass, m, u) \/ IsEnded(pass, m, u) =>
              /\ m # n + 1
              /\ next.events[m] = pass.events[m] /\ next.sources[m] = pass.sources[m]
<1>1. n \in Nat
  BY DEF IsPass, IsSeq
<1>2. n + 1 \notin 1..n /\ (m \in 1..(n + 1) <=> m = n + 1 \/ m \in 1..n)
  BY <1>1
<1>3. /\ Len(next.events) = n + 1 /\ next.events[n + 1] = e
      /\ m \in 1..n => next.events[m] = pass.events[m] /\ next.sources[m] = pass.sources[m]
  BY DEF Adds
<1> QED BY <1>2, <1>3 DEF IsFound, IsEnded

LEMMA LivesOnce ==
  ASSUME NEW S, S \subseteq Nat, NEW k \in Nat, NEW all, NEW type, NEW to, NEW by \in Int,
         NEW p, NEW q, Lives(S, k, all, type, p, to, by), Lives(S, k, all, type, q, to, by)
  PROVE  p = q
<1>1. /\ p \in Nat /\ q \in Nat /\ p + k <= by /\ q + k <= by
      /\ (q > p => q + k > by) /\ (p > q => p + k > by)
  BY DEF Lives
<1> QED BY <1>1

\* A bar ends what lives and is traded beyond.
LEMMA BarEnds ==
  ASSUME NEW S, S \subseteq Nat, NEW k \in Nat, NEW all, NEW type, NEW i \in Nat \ {0}, NEW p
  PROVE  /\ EndsAt(S, k, all, type, p, i) <=>
              Lives(S, k, all, type, p, i - 1, i - 1) /\ Past(all, type, p, i)
         /\ Lives(S, k, all, type, p, i, i - 1) <=>
              Lives(S, k, all, type, p, i - 1, i - 1) /\ ~Past(all, type, p, i)
<1>1. EndsAt(S, k, all, type, p, i) <=>
        Lives(S, k, all, type, p, i - 1, i - 1) /\ Past(all, type, p, i)
  BY DEF EndsAt
<1>2. ASSUME p \in S, p + k <= i - 1
      PROVE  \A m : m \in (p + k + 1)..i <=> m \in (p + k + 1)..(i - 1) \/ m = i
  <2>1. p \in Nat
    BY <1>2
  <2> QED BY <1>2, <2>1
<1>3. Lives(S, k, all, type, p, i, i - 1) <=>
        Lives(S, k, all, type, p, i - 1, i - 1) /\ ~Past(all, type, p, i)
  BY <1>2 DEF Lives
<1> QED BY <1>1, <1>3

LEMMA BreakTells ==
  ASSUME NEW pass, IsPass(pass), NEW S, S \subseteq Nat, NEW k \in Nat \ {0}, NEW all,
         NEW type \in Types, NEW i \in Nat \ {0}, Tells(pass, S, k, all, type, i - 1, i - 1),
         NEW next, next = ChartBreak(all, pass, type, i)
  PROVE  /\ IsPass(next) /\ Tells(next, S, k, all, type, i, i - 1)
         /\ \A u \in Types : \A Z, to, by : u # type /\ Tells(pass, Z, k, all, u, to, by) =>
              Tells(next, Z, k, all, u, to, by)
<1> DEFINE a == pass.active[type]
           p == pass.events[a].pivot
           n == Len(pass.events)
<1>1. /\ \A q : EndsAt(S, k, all, type, q, i) <=>
                  Lives(S, k, all, type, q, i - 1, i - 1) /\ Past(all, type, q, i)
      /\ \A q : Lives(S, k, all, type, q, i, i - 1) <=>
                  Lives(S, k, all, type, q, i - 1, i - 1) /\ ~Past(all, type, q, i)
  BY BarEnds
<1>2. \A q, r : Lives(S, k, all, type, q, i - 1, i - 1) /\ Lives(S, k, all, type, r, i - 1, i - 1) => q = r
  <2>1. i - 1 \in Int /\ k \in Nat
    OBVIOUS
  <2> QED BY <2>1, LivesOnce
<1>3. /\ a = 0 => \A q \in S : ~Lives(S, k, all, type, q, i - 1, i - 1)
      /\ a # 0 => /\ IsFound(pass, a, type) /\ Lives(S, k, all, type, p, i - 1, i - 1)
                  /\ pass.events[a].price = Tip(type, all[p])
  BY DEF Tells, FoundRight
<1>4. \A q, j : EndsAt(S, k, all, type, q, j) /\ j <= i => j <= i - 1 \/ j = i
  BY DEF EndsAt
<1>5. \A q : Lives(S, k, all, type, q, i - 1, i - 1) => q \in S
  BY DEF Lives
<1>6. \A j : j \in Nat /\ j <= i - 1 => j <= i
  OBVIOUS
<1>7. CASE a # 0 /\ Past(all, type, p, i)
  <2> DEFINE e == Broken(pass.events[a], i)
  <2>1. /\ e.type = type /\ e.status = "BROKEN" /\ e.pivot = p /\ e.at = i
    BY <1>3, <1>7 DEF Broken, IsFound
  <2>2. next = [events |-> Append(pass.events, e), sources |-> Append(pass.sources, a),
                active |-> [pass.active EXCEPT ![type] = 0]]
    BY <1>3, <1>7 DEF ChartBreak, Past
  <2> HIDE DEF e, a, n
  <2>3. IsPass(next) /\ Adds(pass, next, e, a, type, 0)
    <3>1. 0 \in Nat /\ e.type = type /\ e.status \in {"CONFIRMED", "BROKEN"}
      BY <2>1
    <3> QED BY <2>2, <3>1, EventAdds
  <2>4. /\ \A m : IsFound(next, m, type) <=> IsFound(pass, m, type)
        /\ \A m : IsEnded(next, m, type) <=> IsEnded(pass, m, type) \/ m = n + 1
        /\ \A m : IsFound(pass, m, type) \/ IsEnded(pass, m, type) =>
                    next.events[m] = pass.events[m] /\ next.sources[m] = pass.sources[m]
    <3>1. e.type = type /\ e.status = "BROKEN" /\ e.status # "CONFIRMED" /\ n = Len(pass.events)
      BY <2>1 DEF n
    <3> HIDE DEF p
    <3>2. ASSUME NEW m
          PROVE  /\ IsFound(next, m, type) <=>
                      IsFound(pass, m, type) \/ (m = n + 1 /\ e.type = type /\ e.status = "CONFIRMED")
                 /\ IsEnded(next, m, type) <=>
                      IsEnded(pass, m, type) \/ (m = n + 1 /\ e.type = type /\ e.status = "BROKEN")
                 /\ IsFound(pass, m, type) \/ IsEnded(pass, m, type) =>
                      /\ m # n + 1
                      /\ next.events[m] = pass.events[m] /\ next.sources[m] = pass.sources[m]
      BY <2>3, <3>1, EventsStay
    <3> QED BY <3>1, <3>2
  <2>5. next.events[n + 1] = e /\ next.sources[n + 1] = a /\ next.active[type] = 0
    BY <2>3 DEF Adds, n
  <2>6. EndsAt(S, k, all, type, p, i)
    BY <1>1, <1>3, <1>7
  <2>7. \A m : IsFound(next, m, type) => FoundRight(next, m, S, k, all, type, i - 1)
    BY <2>4 DEF Tells, FoundRight
  <2>8. ASSUME NEW m, IsEnded(next, m, type) PROVE EndedRight(next, m, S, k, all, type, i)
    <3>1. CASE m = n + 1
      <4>1. IsFound(next, a, type) /\ next.events[a].pivot = p
        BY <1>3, <1>7, <2>4 DEF p
      <4> HIDE DEF p
      <4> QED BY <2>1, <2>5, <2>6, <3>1, <4>1 DEF EndedRight
    <3>2. CASE IsEnded(pass, m, type)
      <4>1. /\ EndedRight(pass, m, S, k, all, type, i - 1)
            /\ next.events[m] = pass.events[m] /\ next.sources[m] = pass.sources[m]
        BY <2>4, <3>2 DEF Tells
      <4>2. /\ IsFound(next, next.sources[m], type)
            /\ next.events[next.sources[m]].pivot = next.events[m].pivot
            /\ EndsAt(S, k, all, type, next.events[m].pivot, next.events[m].at)
            /\ next.events[m].at <= i - 1
        BY <2>4, <4>1 DEF EndedRight
      <4>3. next.events[m].at <= i
        BY <1>6, <4>2 DEF EndsAt
      <4> QED BY <4>2, <4>3 DEF EndedRight
    <3> QED BY <2>4, <2>8, <3>1, <3>2
  <2>9. \A q \in S : q + k <= i - 1 => \E m : IsFound(next, m, type) /\ next.events[m].pivot = q
    BY <2>4 DEF Tells
  <2>10. ASSUME NEW q, NEW j, EndsAt(S, k, all, type, q, j), j <= i
         PROVE  \E m : IsEnded(next, m, type) /\ next.events[m].pivot = q /\ next.events[m].at = j
    <3>1. CASE j <= i - 1
      BY <2>4, <2>10, <3>1 DEF Tells
    <3>2. CASE j = i
      <4>1. q = p
        BY <1>1, <1>2, <1>3, <1>7, <2>10, <3>2
      <4>2. IsEnded(next, n + 1, type) /\ next.events[n + 1].pivot = q /\ next.events[n + 1].at = j
        BY <2>1, <2>4, <2>5, <3>2, <4>1
      <4> QED BY <4>2
    <3> QED BY <1>4, <2>10, <3>1, <3>2
  <2>11. \A m, v : /\ IsFound(next, m, type) /\ IsFound(next, v, type)
                   /\ next.events[m].pivot = next.events[v].pivot
                   => m = v
    BY <2>4 DEF Tells
  <2>12. \A q \in S : ~Lives(S, k, all, type, q, i, i - 1)
    BY <1>1, <1>2, <1>3, <1>7
  <2>13. Tells(next, S, k, all, type, i, i - 1)
    BY <2>5, <2>7, <2>8, <2>9, <2>10, <2>11, <2>12 DEF Tells
  <2>14. ASSUME NEW u \in Types, NEW Z, NEW to, NEW by, u # type, Tells(pass, Z, k, all, u, to, by)
         PROVE  Tells(next, Z, k, all, u, to, by)
    BY <2>1, <2>3, <2>14, OthersStay
  <2> QED BY <2>3, <2>13, <2>14
<1>8. CASE ~(a # 0 /\ Past(all, type, p, i))
  <2>1. next = pass
    BY <1>3, <1>8 DEF ChartBreak, Past
  <2>2. \A q : ~EndsAt(S, k, all, type, q, i)
    BY <1>1, <1>2, <1>3, <1>5, <1>8
  <2>3. \A m : IsEnded(next, m, type) => EndedRight(next, m, S, k, all, type, i)
    BY <1>6, <2>1 DEF Tells, EndedRight, EndsAt
  <2>4. \A q, j : EndsAt(S, k, all, type, q, j) /\ j <= i =>
          \E m : IsEnded(next, m, type) /\ next.events[m].pivot = q /\ next.events[m].at = j
    BY <1>4, <2>1, <2>2 DEF Tells
  <2>5. IF a = 0 THEN \A q \in S : ~Lives(S, k, all, type, q, i, i - 1)
        ELSE IsFound(next, a, type) /\ Lives(S, k, all, type, next.events[a].pivot, i, i - 1)
    BY <1>1, <1>3, <1>8, <2>1
  <2>6. /\ \A m : IsFound(next, m, type) => FoundRight(next, m, S, k, all, type, i - 1)
        /\ \A q \in S : q + k <= i - 1 => \E m : IsFound(next, m, type) /\ next.events[m].pivot = q
        /\ \A m, v : /\ IsFound(next, m, type) /\ IsFound(next, v, type)
                     /\ next.events[m].pivot = next.events[v].pivot
                     => m = v
    BY <2>1 DEF Tells
  <2>7. Tells(next, S, k, all, type, i, i - 1)
    BY <2>1, <2>3, <2>4, <2>5, <2>6 DEF Tells
  <2> QED BY <2>1, <2>7
<1> QED BY <1>7, <1>8

LEMMA PivotTells ==
  ASSUME NEW tier, NEW k \in Nat \ {0}, k = tier.k, NEW period, NEW pass, IsPass(pass), NEW all,
         NEW type \in Types, NEW i \in Nat \ {0}, NEW S, S = Turns(tier, period, all, type),
         Tells(pass, S, k, all, type, i, i - 1),
         NEW next, next = ChartPivot(tier, period, all, pass, type, i)
  PROVE  /\ IsPass(next) /\ Tells(next, S, k, all, type, i, i)
         /\ \A u \in Types : \A Z, to, by : u # type /\ Tells(pass, Z, k, all, u, to, by) =>
              Tells(next, Z, k, all, u, to, by)
<1> DEFINE p == i - k
           n == Len(pass.events)
           e == Confirmed(tier, all, i, type, ChartAtr(all, p, period))
<1>1. S \subseteq Nat /\ \A q : q \in S => q > k
  BY DEF Turns
<1>2. n \in Nat /\ k \in Nat \ {0} /\ p \in Int
  BY DEF IsPass, IsSeq
<1>3. /\ p \in S => next = [events |-> Append(pass.events, e), sources |-> Append(pass.sources, 0),
                            active |-> [pass.active EXCEPT ![type] = n + 1]]
      /\ p \notin S => next = pass
  <2>1. p > k => p \in Nat
    BY <1>2
  <2> QED BY <2>1 DEF ChartPivot, Turns
<1>4. /\ e.type = type /\ e.status = "CONFIRMED" /\ e.pivot = p /\ e.price = Tip(type, all[p])
      /\ e.opposite = Opposite(all, p, k, type)
  BY DEF Confirmed
<1> HIDE DEF n, e
<1>5. /\ p + k = i /\ \A q \in S : q + k <= i <=> q + k <= i - 1 \/ q = p
      /\ \A q \in S : q + k <= i - 1 => q < p
  BY <1>1, <1>2
<1>6. CASE p \notin S
  <2>1. next = pass
    BY <1>3, <1>6
  <2>2. \A q \in S : (q + k <= i <=> q + k <= i - 1) /\ (q + k > i <=> q + k > i - 1)
    <3>1. \A q \in S : q # p /\ q \in Nat
      BY <1>1, <1>6
    <3> HIDE DEF p
    <3>2. \A q \in S : q + k # i
      BY <1>2, <1>5, <3>1
    <3> QED BY <1>1, <1>2, <3>2
  <2>3. \A q : Lives(S, k, all, type, q, i, i) <=> Lives(S, k, all, type, q, i, i - 1)
    BY <2>2 DEF Lives
  <2>4. \A m : IsFound(next, m, type) => FoundRight(next, m, S, k, all, type, i)
    BY <2>1, <2>2 DEF Tells, FoundRight
  <2>5. Tells(next, S, k, all, type, i, i)
    BY <2>1, <2>2, <2>3, <2>4 DEF Tells
  <2> QED BY <2>1, <2>5
<1>7. CASE p \in S
  <2>1. IsPass(next) /\ Adds(pass, next, e, 0, type, n + 1)
    <3>1. n + 1 \in Nat /\ e.type = type /\ e.status \in {"CONFIRMED", "BROKEN"}
      BY <1>2, <1>4
    <3> QED BY <1>3, <1>7, <3>1, EventAdds
  <2>2. /\ \A m : IsFound(next, m, type) <=> IsFound(pass, m, type) \/ m = n + 1
        /\ \A m : IsEnded(next, m, type) <=> IsEnded(pass, m, type)
        /\ \A m : IsFound(pass, m, type) \/ IsEnded(pass, m, type) =>
                    /\ m # n + 1
                    /\ next.events[m] = pass.events[m] /\ next.sources[m] = pass.sources[m]
    <3>1. e.type = type /\ e.status = "CONFIRMED" /\ e.status # "BROKEN"
      BY <1>4
    <3>2. ASSUME NEW m
          PROVE  /\ IsFound(next, m, type) <=>
                      IsFound(pass, m, type) \/ (m = n + 1 /\ e.type = type /\ e.status = "CONFIRMED")
                 /\ IsEnded(next, m, type) <=>
                      IsEnded(pass, m, type) \/ (m = n + 1 /\ e.type = type /\ e.status = "BROKEN")
                 /\ IsFound(pass, m, type) \/ IsEnded(pass, m, type) =>
                      /\ m # n + 1
                      /\ next.events[m] = pass.events[m] /\ next.sources[m] = pass.sources[m]
      <4>1. PICK a : a = n + 1
        OBVIOUS
      <4>2. Adds(pass, next, e, 0, type, a)
        BY <2>1, <4>1
      <4>3. n = Len(pass.events)
        BY DEF n
      <4> HIDE DEF p
      <4> QED BY <4>2, <4>3, EventsStay
    <3> QED BY <3>1, <3>2
  <2>3. next.events[n + 1] = e /\ next.sources[n + 1] = 0 /\ next.active[type] = n + 1
    BY <2>1 DEF Adds, n
  <2>4. ASSUME NEW m, IsFound(pass, m, type)
        PROVE  FoundRight(next, m, S, k, all, type, i) /\ next.events[m].pivot # p
    <3>1. /\ FoundRight(pass, m, S, k, all, type, i - 1)
          /\ next.events[m] = pass.events[m] /\ next.sources[m] = pass.sources[m]
      BY <2>2, <2>4 DEF Tells
    <3>2. /\ pass.events[m].pivot \in S /\ pass.events[m].pivot + k <= i - 1
      BY <3>1 DEF FoundRight
    <3>3. pass.events[m].pivot + k <= i /\ pass.events[m].pivot < p
      BY <1>5, <3>2
    <3>4. pass.events[m].pivot # p
      BY <1>1, <1>2, <3>2, <3>3
    <3> QED BY <3>1, <3>3, <3>4 DEF FoundRight
  <2>5. FoundRight(next, n + 1, S, k, all, type, i)
    <3>1. p + k <= i
      BY <1>2, <1>5
    <3> QED BY <1>4, <1>7, <2>3, <3>1 DEF FoundRight
  <2>6. \A m : IsFound(next, m, type) => FoundRight(next, m, S, k, all, type, i)
    BY <2>2, <2>4, <2>5
  <2>7. ASSUME NEW m, IsEnded(next, m, type) PROVE EndedRight(next, m, S, k, all, type, i)
    <3>1. /\ EndedRight(pass, m, S, k, all, type, i)
          /\ next.events[m] = pass.events[m] /\ next.sources[m] = pass.sources[m]
      BY <2>2, <2>7 DEF Tells
    <3> QED BY <2>2, <3>1 DEF EndedRight
  <2>8. ASSUME NEW q \in S, q + k <= i
        PROVE  \E m : IsFound(next, m, type) /\ next.events[m].pivot = q
    <3>1. CASE q = p
      <4>1. IsFound(next, n + 1, type) /\ next.events[n + 1].pivot = q
        BY <1>4, <2>2, <2>3, <3>1
      <4> QED BY <4>1
    <3>2. CASE q + k <= i - 1
      <4>1. PICK m : IsFound(pass, m, type) /\ pass.events[m].pivot = q
        BY <3>2 DEF Tells
      <4> QED BY <2>2, <4>1
    <3> QED BY <1>5, <2>8, <3>1, <3>2
  <2>9. \A q, j : EndsAt(S, k, all, type, q, j) /\ j <= i =>
          \E m : IsEnded(next, m, type) /\ next.events[m].pivot = q /\ next.events[m].at = j
    BY <2>2 DEF Tells
  <2>10. ASSUME NEW m, NEW v, IsFound(next, m, type), IsFound(next, v, type),
                next.events[m].pivot = next.events[v].pivot
         PROVE  m = v
    <3>1. m = n + 1 <=> v = n + 1
      BY <1>4, <2>2, <2>3, <2>4, <2>10
    <3>2. CASE IsFound(pass, m, type) /\ IsFound(pass, v, type)
      BY <2>2, <2>10, <3>2 DEF Tells
    <3> QED BY <2>2, <2>10, <3>1, <3>2
  <2>11. Lives(S, k, all, type, p, i, i)
    <3>1. \A q \in S : q > p => q + k > i
      BY <1>1, <1>2
    <3>2. p + k <= i /\ \A m : m \notin (p + k + 1)..i
      BY <1>2, <1>5
    <3> QED BY <1>7, <3>1, <3>2 DEF Lives
  <2>12. IsFound(next, n + 1, type) /\ Lives(S, k, all, type, next.events[n + 1].pivot, i, i)
    BY <1>4, <2>2, <2>3, <2>11
  <2>13. n + 1 # 0
    BY <1>2
  <2>14. Tells(next, S, k, all, type, i, i)
    BY <2>3, <2>6, <2>7, <2>8, <2>9, <2>10, <2>12, <2>13 DEF Tells
  <2>15. ASSUME NEW u \in Types, NEW Z, NEW to, NEW by, u # type,
                Tells(pass, Z, k, all, u, to, by)
         PROVE  Tells(next, Z, k, all, u, to, by)
    <3>1. PICK a, x, c : a = n + 1 /\ x = 0 /\ c = e
      OBVIOUS
    <3>2. Adds(pass, next, c, x, type, a) /\ c.type = type
      BY <1>4, <2>1, <3>1
    <3> HIDE DEF p
    <3>3. c.type = type /\ u # type
      BY <2>15, <3>2
    <3> QED BY <2>15, <3>2, <3>3, OthersStay
  <2> QED BY <2>1, <2>14, <2>15
<1> QED BY <1>6, <1>7

\* A bar of the pass: breaks, and then swings.
LEMMA BarTells ==
  ASSUME NEW tier, NEW k \in Nat \ {0}, k = tier.k, NEW period, NEW pass, IsPass(pass), NEW all,
         NEW i \in Nat \ {0},
         \A u \in Types : Tells(pass, Turns(tier, period, all, u), k, all, u, i - 1, i - 1),
         NEW next, next = ChartBar(tier, period, all, pass, i)
  PROVE  /\ IsPass(next)
         /\ \A u \in Types : Tells(next, Turns(tier, period, all, u), k, all, u, i, i)
<1> DEFINE S(u) == Turns(tier, period, all, u)
<1>1. PICK one, two, three :
        /\ one = ChartBreak(all, pass, "HIGH", i) /\ two = ChartBreak(all, one, "LOW", i)
        /\ three = ChartPivot(tier, period, all, two, "HIGH", i)
        /\ next = ChartPivot(tier, period, all, three, "LOW", i)
  BY DEF ChartBar
<1>2. /\ \A u : S(u) \subseteq Nat
      /\ "HIGH" \in Types /\ "LOW" \in Types /\ "HIGH" # "LOW"
      /\ \A u \in Types : u = "HIGH" \/ u = "LOW"
  BY DEF Turns, Types
<1>3. /\ IsPass(one) /\ Tells(one, S("HIGH"), k, all, "HIGH", i, i - 1)
      /\ Tells(one, S("LOW"), k, all, "LOW", i - 1, i - 1)
  BY <1>1, <1>2, BreakTells
<1>4. /\ IsPass(two) /\ Tells(two, S("HIGH"), k, all, "HIGH", i, i - 1)
      /\ Tells(two, S("LOW"), k, all, "LOW", i, i - 1)
  BY <1>1, <1>2, <1>3, BreakTells
<1>5. /\ IsPass(three) /\ Tells(three, S("HIGH"), k, all, "HIGH", i, i)
      /\ Tells(three, S("LOW"), k, all, "LOW", i, i - 1)
  <2>1. /\ IsPass(three) /\ Tells(three, Turns(tier, period, all, "HIGH"), k, all, "HIGH", i, i)
        /\ \A u \in Types : \A Z, to, by : u # "HIGH" /\ Tells(two, Z, k, all, u, to, by) =>
              Tells(three, Z, k, all, u, to, by)
    <3>1. PICK Z : Z = Turns(tier, period, all, "HIGH")
      OBVIOUS
    <3>2. /\ IsPass(two) /\ Tells(two, Z, k, all, "HIGH", i, i - 1) /\ "HIGH" \in Types
          /\ three = ChartPivot(tier, period, all, two, "HIGH", i)
      BY <1>1, <1>2, <1>4, <3>1
    <3> HIDE DEF S
    <3>3. /\ IsPass(three) /\ Tells(three, Z, k, all, "HIGH", i, i)
          /\ \A u \in Types : \A Y, to, by : u # "HIGH" /\ Tells(two, Y, k, all, u, to, by) =>
                Tells(three, Y, k, all, u, to, by)
      BY <3>1, <3>2, PivotTells
    <3> QED BY <3>1, <3>3
  <2> QED BY <1>2, <1>4, <2>1
<1>6. /\ IsPass(next) /\ Tells(next, S("HIGH"), k, all, "HIGH", i, i)
      /\ Tells(next, S("LOW"), k, all, "LOW", i, i)
  <2>1. /\ IsPass(next) /\ Tells(next, Turns(tier, period, all, "LOW"), k, all, "LOW", i, i)
        /\ \A u \in Types : \A Z, to, by : u # "LOW" /\ Tells(three, Z, k, all, u, to, by) =>
              Tells(next, Z, k, all, u, to, by)
    <3>1. PICK Z : Z = Turns(tier, period, all, "LOW")
      OBVIOUS
    <3>2. /\ IsPass(three) /\ Tells(three, Z, k, all, "LOW", i, i - 1) /\ "LOW" \in Types
          /\ next = ChartPivot(tier, period, all, three, "LOW", i)
      BY <1>1, <1>2, <1>5, <3>1
    <3> HIDE DEF S
    <3>3. /\ IsPass(next) /\ Tells(next, Z, k, all, "LOW", i, i)
          /\ \A u \in Types : \A Y, to, by : u # "LOW" /\ Tells(three, Y, k, all, u, to, by) =>
                Tells(next, Y, k, all, u, to, by)
      BY <3>1, <3>2, PivotTells
    <3> QED BY <3>1, <3>3
  <2> QED BY <1>2, <1>5, <2>1
<1> HIDE DEF S
<1>7. \A u \in Types : Tells(next, S(u), k, all, u, i, i)
  BY <1>2, <1>6
<1> QED BY <1>6, <1>7 DEF S

\* The pass tells of all its bars.
LEMMA PassTells ==
  ASSUME NEW tier, NEW k \in Nat \ {0}, k = tier.k, NEW period, NEW all, Len(all) \in Nat
  PROVE  LET pass == DetectSwings(tier, period, all)
         IN /\ IsPass(pass)
            /\ \A u \in Types : Tells(pass, Turns(tier, period, all, u), k, all, u,
                                      Len(all), Len(all))
<1> DEFINE S(u) == Turns(tier, period, all, u)
           Right(pass, i) == IsPass(pass) /\ \A u \in Types : Tells(pass, S(u), k, all, u, i, i)
<1>1. PICK f : /\ \A i \in 0..Len(all) : f[i] = PassAt(f, tier, period, all, i)
               /\ DetectSwings(tier, period, all) = f[Len(all)]
  BY PassGoesOn
<1>2. Right(NoPass, 0)
  <2>1. /\ NoPass.events = <<>> /\ NoPass.sources = <<>>
        /\ NoPass.active = [t \in Types |-> 0]
    BY DEF NoPass
  <2>2. IsSeq(<<>>) /\ Len(<<>>) = 0 /\ \A m : m \notin 1..Len(<<>>)
    BY DEF IsSeq
  <2>3. IsPass(NoPass)
    BY <2>1, <2>2 DEF IsPass
  <2>4. \A m, u : ~IsFound(NoPass, m, u) /\ ~IsEnded(NoPass, m, u)
    BY <2>1, <2>2 DEF IsFound, IsEnded
  <2>5. ASSUME NEW u \in Types PROVE \A q \in S(u) : ~(q + k <= 0)
    BY DEF Turns
  <2>6. ASSUME NEW u \in Types PROVE \A q : ~Lives(S(u), k, all, u, q, 0, 0)
    BY <2>5 DEF Lives
  <2>7. ASSUME NEW u \in Types, NEW q, NEW j, EndsAt(S(u), k, all, u, q, j), j <= 0 PROVE FALSE
    <3>1. j \in Nat /\ q \in S(u) /\ q + k <= j - 1
      BY <2>7 DEF EndsAt, Lives
    <3>2. q \in Nat /\ q > k
      BY <3>1 DEF Turns
    <3> QED BY <2>7, <3>1, <3>2
  <2>8. \A u \in Types : NoPass.active[u] = 0
    BY <2>1
  <2> HIDE DEF S
  <2>9. ASSUME NEW u \in Types PROVE Tells(NoPass, S(u), k, all, u, 0, 0)
    BY <2>4, <2>5, <2>6, <2>7, <2>8 DEF Tells
  <2> QED BY <2>3, <2>9
<1> DEFINE Bad == {i \in 0..Len(all) : ~Right(f[i], i)}
<1>3. Bad = {}
  <2> SUFFICES ASSUME Bad # {} PROVE FALSE
    OBVIOUS
  <2>1. Bad \subseteq Nat
    OBVIOUS
  <2>2. PICK i \in Bad : \A m \in Bad : i <= m
    BY <2>1, LeastOf
  <2>3. i \in 0..Len(all) /\ ~Right(f[i], i) /\ f[i] = PassAt(f, tier, period, all, i)
    BY <1>1, <2>2
  <2> HIDE DEF Right
  <2>4. i # 0
    BY <1>2, <2>3 DEF PassAt
  <2>5. i \in Nat \ {0} /\ i - 1 \in 0..Len(all) /\ ~(i <= i - 1)
    BY <2>3, <2>4
  <2>6. Right(f[i - 1], i - 1)
    BY <2>2, <2>5
  <2>7. f[i] = ChartBar(tier, period, all, f[i - 1], i)
    BY <2>3, <2>4 DEF PassAt
  <2>8. Right(f[i], i)
    BY <2>5, <2>6, <2>7, BarTells DEF Right
  <2> QED BY <2>3, <2>8
<1> HIDE DEF Right
<1>4. Right(f[Len(all)], Len(all))
  BY <1>3
<1> QED BY <1>1, <1>4 DEF Right

LEMMA MaxOfOne == \A a \in Int : Max({a}) = a
  BY DEF Max

LEMMA MaxOfTwo == \A a, b \in Int : Max({a} \cup {b}) = Larger(a, b)
<1> SUFFICES ASSUME NEW a \in Int, NEW b \in Int PROVE Max({a} \cup {b}) = Larger(a, b)
  OBVIOUS
<1>1. /\ Larger(a, b) \in {a} \cup {b}
      /\ \A y \in {a} \cup {b} : Larger(a, b) >= y
  BY DEF Larger
<1>2. /\ Max({a} \cup {b}) \in {a} \cup {b}
      /\ \A y \in {a} \cup {b} : Max({a} \cup {b}) >= y
  BY <1>1 DEF Max
<1> QED BY <1>2 DEF Larger

\* A swing is ended once.
LEMMA EndsOnce ==
  ASSUME NEW S, S \subseteq Nat, NEW k \in Nat, NEW all, NEW type, NEW p, NEW i, NEW j,
         EndsAt(S, k, all, type, p, i), EndsAt(S, k, all, type, p, j)
  PROVE  i = j
<1>1. /\ i \in Nat /\ j \in Nat /\ p \in Nat /\ p + k <= i - 1 /\ p + k <= j - 1
      /\ Past(all, type, p, i) /\ Past(all, type, p, j)
      /\ \A m \in (p + k + 1)..(i - 1) : ~Past(all, type, p, m)
      /\ \A m \in (p + k + 1)..(j - 1) : ~Past(all, type, p, m)
  BY DEF EndsAt, Lives
<1>2. ~(i < j)
  <2> SUFFICES ASSUME i < j PROVE FALSE
    OBVIOUS
  <2>1. i \in (p + k + 1)..(j - 1)
    BY <1>1
  <2> QED BY <1>1, <2>1
<1>3. ~(j < i)
  <2> SUFFICES ASSUME j < i PROVE FALSE
    OBVIOUS
  <2>1. j \in (p + k + 1)..(i - 1)
    BY <1>1
  <2> QED BY <1>1, <2>1
<1> QED BY <1>1, <1>2, <1>3

\* The bars that end a swing, and its box.
EndsOf(tier, period, all, u, p) ==
  {j \in 1..Len(all) : EndsAt(Turns(tier, period, all, u), tier.k, all, u, p, j)}

BoxOf(tier, period, all, u, p) ==
  LET ends == EndsOf(tier, period, all, u, p)
  IN [type |-> u, pivot |-> p, broken |-> ends # {},
      right |-> Max({Opposite(all, p, tier.k, u)} \cup ends)]

\* What is found and ended is what there is.
Shows(pass, tier, k, period, all) ==
  /\ Len(pass.events) \in Nat /\ IsSeq(pass.events)
  /\ \A m \in 1..Len(pass.events) :
       /\ pass.events[m].type \in Types
       /\ IsFound(pass, m, pass.events[m].type) \/ IsEnded(pass, m, pass.events[m].type)
  /\ \A u \in Types : \A m : IsFound(pass, m, u) =>
       /\ pass.events[m].pivot \in Turns(tier, period, all, u)
       /\ pass.events[m].pivot + k <= Len(all)
       /\ pass.events[m].opposite = Opposite(all, pass.events[m].pivot, k, u)
       /\ pass.sources[m] = 0
  /\ \A u \in Types : \A m : IsEnded(pass, m, u) =>
       /\ IsFound(pass, pass.sources[m], u)
       /\ pass.events[pass.sources[m]].pivot = pass.events[m].pivot
       /\ EndsOf(tier, period, all, u, pass.events[m].pivot) = {pass.events[m].at}
  /\ \A u \in Types : \A p \in Turns(tier, period, all, u) : p + k <= Len(all) =>
       \E m : IsFound(pass, m, u) /\ pass.events[m].pivot = p
  /\ \A u \in Types : \A p : \A j \in EndsOf(tier, period, all, u, p) :
       \E m : IsEnded(pass, m, u) /\ pass.events[m].pivot = p /\ pass.events[m].at = j
  /\ \A u \in Types : \A m, n : /\ IsFound(pass, m, u) /\ IsFound(pass, n, u)
                                /\ pass.events[m].pivot = pass.events[n].pivot
                                => m = n

LEMMA PassShows ==
  ASSUME NEW tier, NEW k \in Nat \ {0}, k = tier.k, NEW period, NEW all \in Seq(Bars(Int)),
         NEW pass, pass = DetectSwings(tier, period, all)
  PROVE  Shows(pass, tier, k, period, all)
<1> DEFINE S(u) == Turns(tier, period, all, u)
           N == Len(all)
<1>1. N \in Nat /\ \A u : S(u) \subseteq Nat
  BY DEF Turns
<1>2. IsPass(pass) /\ \A u \in Types : Tells(pass, S(u), k, all, u, N, N)
  BY <1>1, PassTells
<1>3. Len(pass.events) \in Nat /\ IsSeq(pass.events)
  BY <1>2 DEF IsPass, IsSeq
<1>4. ASSUME NEW m \in 1..Len(pass.events)
      PROVE  /\ pass.events[m].type \in Types
             /\ IsFound(pass, m, pass.events[m].type) \/ IsEnded(pass, m, pass.events[m].type)
  BY <1>2 DEF IsPass, IsFound, IsEnded
<1> HIDE DEF S, N
<1>5. ASSUME NEW u \in Types, NEW m, IsFound(pass, m, u)
      PROVE  /\ pass.events[m].pivot \in S(u) /\ pass.events[m].pivot + k <= N
             /\ pass.events[m].opposite = Opposite(all, pass.events[m].pivot, k, u)
             /\ pass.sources[m] = 0
  BY <1>2, <1>5 DEF Tells, FoundRight
<1>6. ASSUME NEW u \in Types, NEW p, NEW j
      PROVE  j \in EndsOf(tier, period, all, u, p) <=> EndsAt(S(u), k, all, u, p, j) /\ j <= N
  <2>1. EndsAt(S(u), k, all, u, p, j) => j \in Nat /\ j # 0
    <3> SUFFICES ASSUME EndsAt(S(u), k, all, u, p, j) PROVE j \in Nat /\ j # 0
      OBVIOUS
    <3>1. j \in Nat /\ p \in Nat /\ p + k <= j - 1
      BY <1>1 DEF EndsAt, Lives
    <3> QED BY <3>1
  <2>2. j \in 1..N <=> j \in Nat /\ j # 0 /\ j <= N
    BY <1>1
  <2> QED BY <2>1, <2>2 DEF EndsOf, S, N
<1>7. ASSUME NEW u \in Types, NEW m, IsEnded(pass, m, u)
      PROVE  /\ IsFound(pass, pass.sources[m], u)
             /\ pass.events[pass.sources[m]].pivot = pass.events[m].pivot
             /\ EndsOf(tier, period, all, u, pass.events[m].pivot) = {pass.events[m].at}
  <2>1. EndedRight(pass, m, S(u), k, all, u, N)
    BY <1>2, <1>7 DEF Tells
  <2>2. /\ IsFound(pass, pass.sources[m], u)
        /\ pass.events[pass.sources[m]].pivot = pass.events[m].pivot
        /\ EndsAt(S(u), k, all, u, pass.events[m].pivot, pass.events[m].at)
        /\ pass.events[m].at <= N
    BY <2>1 DEF EndedRight
  <2>3. \A j : EndsAt(S(u), k, all, u, pass.events[m].pivot, j) => j = pass.events[m].at
    BY <1>1, <2>2, EndsOnce
  <2>4. \A j : j \in EndsOf(tier, period, all, u, pass.events[m].pivot) <=> j = pass.events[m].at
    BY <1>6, <2>2, <2>3
  <2> QED BY <2>2, <2>4
<1>8. ASSUME NEW u \in Types, NEW p \in S(u), p + k <= N
      PROVE  \E m : IsFound(pass, m, u) /\ pass.events[m].pivot = p
  BY <1>2, <1>8 DEF Tells
<1>9. ASSUME NEW u \in Types, NEW p, NEW j \in EndsOf(tier, period, all, u, p)
      PROVE  \E m : IsEnded(pass, m, u) /\ pass.events[m].pivot = p /\ pass.events[m].at = j
  <2>1. EndsAt(S(u), k, all, u, p, j) /\ j <= N
    BY <1>6
  <2> QED BY <1>2, <2>1 DEF Tells
<1>10. \A u \in Types : \A m, n : /\ IsFound(pass, m, u) /\ IsFound(pass, n, u)
                                  /\ pass.events[m].pivot = pass.events[n].pivot
                                  => m = n
  BY <1>2 DEF Tells
<1> QED BY <1>3, <1>4, <1>5, <1>7, <1>8, <1>9, <1>10 DEF Shows, S, N

\* The boxes drawn of the pass are the boxes of its swings.
LEMMA BoxesShow ==
  ASSUME NEW tier, NEW k \in Nat \ {0}, k = tier.k, NEW period, NEW all \in Seq(Bars(Int))
  PROVE  LET boxes == Boxes(DetectSwings(tier, period, all))
         IN /\ \A b \in boxes : \E u \in Types : \E p \in Turns(tier, period, all, u) :
                 p + k <= Len(all) /\ b = BoxOf(tier, period, all, u, p)
            /\ \A u \in Types : \A p \in Turns(tier, period, all, u) :
                 p + k <= Len(all) => BoxOf(tier, period, all, u, p) \in boxes
<1>1. PICK pass : pass = DetectSwings(tier, period, all)
  OBVIOUS
<1> DEFINE S(u) == Turns(tier, period, all, u)
           E(u, p) == EndsOf(tier, period, all, u, p)
           N == Len(all)
           Superseded(n) == \E m \in DOMAIN pass.events : pass.sources[m] = n
           Geometry(n) == IF pass.sources[n] = 0 THEN pass.events[n] ELSE pass.events[pass.sources[n]]
           Box(n) == [type |-> pass.events[n].type, pivot |-> Geometry(n).pivot,
                      broken |-> pass.events[n].status = "BROKEN",
                      right |-> IF pass.events[n].status = "BROKEN"
                                THEN Larger(Geometry(n).opposite, pass.events[n].at)
                                ELSE Geometry(n).opposite]
           shown == {m \in DOMAIN pass.events :
                        pass.events[m].status = "BROKEN" \/ ~Superseded(m)}
<1>2. /\ Len(pass.events) \in Nat /\ IsSeq(pass.events)
      /\ \A m \in 1..Len(pass.events) :
           /\ pass.events[m].type \in Types
           /\ IsFound(pass, m, pass.events[m].type) \/ IsEnded(pass, m, pass.events[m].type)
      /\ \A u \in Types : \A m : IsFound(pass, m, u) =>
           /\ pass.events[m].pivot \in S(u) /\ pass.events[m].pivot + k <= N
           /\ pass.events[m].opposite = Opposite(all, pass.events[m].pivot, k, u)
           /\ pass.sources[m] = 0
      /\ \A u \in Types : \A m : IsEnded(pass, m, u) =>
           /\ IsFound(pass, pass.sources[m], u)
           /\ pass.events[pass.sources[m]].pivot = pass.events[m].pivot
           /\ E(u, pass.events[m].pivot) = {pass.events[m].at}
      /\ \A u \in Types : \A p \in S(u) : p + k <= N =>
           \E m : IsFound(pass, m, u) /\ pass.events[m].pivot = p
      /\ \A u \in Types : \A p : \A j \in E(u, p) :
           \E m : IsEnded(pass, m, u) /\ pass.events[m].pivot = p /\ pass.events[m].at = j
      /\ \A u \in Types : \A m, n : /\ IsFound(pass, m, u) /\ IsFound(pass, n, u)
                                    /\ pass.events[m].pivot = pass.events[n].pivot
                                    => m = n
  <2>1. Shows(pass, tier, k, period, all)
    BY <1>1, PassShows
  <2> QED BY <2>1 DEF Shows
<1>3. DOMAIN pass.events = 1..Len(pass.events)
  BY <1>2 DEF IsSeq
<1>4. Boxes(DetectSwings(tier, period, all)) = {Box(n) : n \in shown}
  BY <1>1 DEF Boxes
<1>5. /\ \A u : S(u) \subseteq Nat
      /\ \A u, p : E(u, p) \subseteq 1..N
      /\ N \in Nat
  BY DEF Turns, EndsOf
<1> HIDE DEF N, S, E
<1>6. ASSUME NEW u \in Types, NEW p \in S(u), p + k <= N
      PROVE  Opposite(all, p, k, u) \in Int
  <2>1. p \in Nat /\ p + k <= Len(all)
    BY <1>5, <1>6 DEF N
  <2>2. Opposite(all, p, k, u) \in (p + 1)..(p + k)
    BY <2>1, OppositeIsThere
  <2> QED BY <2>1, <2>2
<1>7. ASSUME NEW u \in Types, NEW m, IsEnded(pass, m, u)
      PROVE  /\ m \in shown
             /\ pass.events[m].pivot \in S(u) /\ pass.events[m].pivot + k <= N
             /\ Box(m) = BoxOf(tier, period, all, u, pass.events[m].pivot)
  <2>1. PICK n, p, j : n = pass.sources[m] /\ p = pass.events[m].pivot /\ j = pass.events[m].at
    OBVIOUS
  <2>2. IsFound(pass, n, u) /\ pass.events[n].pivot = p /\ E(u, p) = {j}
    BY <1>2, <1>7, <2>1
  <2>3. /\ p \in S(u) /\ p + k <= N /\ pass.events[n].opposite = Opposite(all, p, k, u)
    BY <1>2, <2>2
  <2>4. n # 0
    BY <1>2, <2>2 DEF IsFound
  <2>5. /\ pass.events[m].status = "BROKEN" /\ pass.events[m].type = u /\ m \in 1..Len(pass.events)
    BY <1>7 DEF IsEnded
  <2>6. Geometry(m) = pass.events[n]
    BY <2>1, <2>4
  <2>7. j \in Int
    BY <1>5, <2>2
  <2>8. Max({Opposite(all, p, k, u)} \cup E(u, p)) = Larger(Opposite(all, p, k, u), j)
    BY <1>6, <2>2, <2>3, <2>7, MaxOfTwo
  <2>9. (E(u, p) # {}) = TRUE
    BY <2>2
  <2>10. BoxOf(tier, period, all, u, p) =
           [type |-> u, pivot |-> p, broken |-> TRUE, right |-> Larger(Opposite(all, p, k, u), j)]
    BY <2>8, <2>9 DEF BoxOf, E
  <2> HIDE DEF Geometry
  <2>11. (pass.events[m].status = "BROKEN") = TRUE
    BY <2>5
  <2>12. Box(m) = [type |-> u, pivot |-> p, broken |-> TRUE, right |-> Larger(Opposite(all, p, k, u), j)]
    BY <2>1, <2>2, <2>3, <2>5, <2>6, <2>11
  <2>13. m \in shown
    BY <1>3, <2>5
  <2> HIDE DEF shown, Box
  <2> QED BY <2>1, <2>3, <2>10, <2>12, <2>13
<1>8. ASSUME NEW u \in Types, NEW m, IsFound(pass, m, u)
      PROVE  LET p == pass.events[m].pivot
             IN /\ p \in S(u) /\ p + k <= N
                /\ E(u, p) = {} => m \in shown
                /\ m \in shown => E(u, p) = {} /\ Box(m) = BoxOf(tier, period, all, u, p)
  <2>1. PICK p : p = pass.events[m].pivot
    OBVIOUS
  <2>2. /\ p \in S(u) /\ p + k <= N /\ pass.events[m].opposite = Opposite(all, p, k, u)
        /\ pass.sources[m] = 0
    BY <1>2, <1>8, <2>1
  <2>3. /\ pass.events[m].status = "CONFIRMED" /\ pass.events[m].type = u
        /\ m \in 1..Len(pass.events) /\ m # 0
    BY <1>2, <1>8 DEF IsFound
  <2>4. ASSUME NEW r \in 1..Len(pass.events), pass.sources[r] = m
        PROVE  E(u, p) # {}
    <3>1. PICK v : v = pass.events[r].type
      OBVIOUS
    <3>2. v \in Types /\ (IsFound(pass, r, v) \/ IsEnded(pass, r, v))
      BY <1>2, <3>1
    <3>3. IsEnded(pass, r, v)
      BY <1>2, <2>3, <2>4, <3>2
    <3>4. IsFound(pass, m, v) /\ pass.events[m].pivot = pass.events[r].pivot
          /\ E(v, pass.events[r].pivot) = {pass.events[r].at}
      BY <1>2, <2>4, <3>2, <3>3
    <3>5. v = u
      BY <1>8, <3>4 DEF IsFound
    <3> QED BY <2>1, <3>4, <3>5
  <2>5. ASSUME E(u, p) # {} PROVE Superseded(m)
    <3>1. PICK j : j \in E(u, p)
      BY <2>5
    <3>2. PICK r : IsEnded(pass, r, u) /\ pass.events[r].pivot = p
      BY <1>2, <3>1
    <3>3. IsFound(pass, pass.sources[r], u) /\ pass.events[pass.sources[r]].pivot = p
      BY <1>2, <3>2
    <3>4. pass.sources[r] = m
      BY <1>2, <1>8, <2>1, <3>3
    <3>5. r \in DOMAIN pass.events
      BY <1>3, <3>2 DEF IsEnded
    <3> QED BY <3>4, <3>5
  <2>6. E(u, p) = {} => m \in shown
    BY <1>3, <2>3, <2>4
  <2>7. m \in shown => E(u, p) = {}
    <3>1. pass.events[m].status # "BROKEN"
      BY <2>3
    <3>2. m \in shown => ~Superseded(m)
      BY <3>1
    <3> QED BY <2>5, <3>2
  <2>8. ASSUME E(u, p) = {} PROVE Box(m) = BoxOf(tier, period, all, u, p)
    <3>1. (E(u, p) # {}) = FALSE /\ (pass.events[m].status = "BROKEN") = FALSE
      BY <2>3, <2>8
    <3>2. Max({Opposite(all, p, k, u)} \cup E(u, p)) = Opposite(all, p, k, u)
      <4>1. {Opposite(all, p, k, u)} \cup E(u, p) = {Opposite(all, p, k, u)}
        BY <2>8
      <4> QED BY <1>6, <2>2, <4>1, MaxOfOne
    <3>3. BoxOf(tier, period, all, u, p) =
            [type |-> u, pivot |-> p, broken |-> FALSE, right |-> Opposite(all, p, k, u)]
      BY <3>1, <3>2 DEF BoxOf, E
    <3>4. Geometry(m) = pass.events[m]
      BY <2>2
    <3> HIDE DEF Geometry
    <3>5. Box(m) = [type |-> u, pivot |-> p, broken |-> FALSE, right |-> Opposite(all, p, k, u)]
      BY <2>1, <2>2, <2>3, <3>1, <3>4
    <3> HIDE DEF Box
    <3> QED BY <3>3, <3>5
  <2> HIDE DEF shown, Box
  <2> QED BY <2>1, <2>2, <2>6, <2>7, <2>8
<1>9. ASSUME NEW n \in shown
      PROVE  \E u \in Types : \E p \in S(u) : p + k <= N /\ Box(n) = BoxOf(tier, period, all, u, p)
  <2>1. PICK u : u = pass.events[n].type
    OBVIOUS
  <2>2. n \in 1..Len(pass.events)
    BY <1>3
  <2>3. u \in Types /\ (IsFound(pass, n, u) \/ IsEnded(pass, n, u))
    BY <1>2, <2>1, <2>2
  <2> HIDE DEF shown, Box
  <2>4. pass.events[n].pivot \in S(u) /\ pass.events[n].pivot + k <= N
        /\ Box(n) = BoxOf(tier, period, all, u, pass.events[n].pivot)
    BY <1>7, <1>8, <2>3
  <2> QED BY <2>3, <2>4
<1>10. ASSUME NEW u \in Types, NEW p \in S(u), p + k <= N
       PROVE  BoxOf(tier, period, all, u, p) \in {Box(n) : n \in shown}
  <2>1. PICK m : IsFound(pass, m, u) /\ pass.events[m].pivot = p
    BY <1>2, <1>10
  <2> HIDE DEF shown, Box
  <2>2. CASE E(u, p) = {}
    <3>1. m \in shown /\ Box(m) = BoxOf(tier, period, all, u, p)
      BY <1>8, <2>1, <2>2
    <3> QED BY <3>1
  <2>3. CASE E(u, p) # {}
    <3>1. PICK j : j \in E(u, p)
      BY <2>3
    <3>2. PICK r : IsEnded(pass, r, u) /\ pass.events[r].pivot = p
      BY <1>2, <3>1
    <3>3. r \in shown /\ Box(r) = BoxOf(tier, period, all, u, p)
      BY <1>7, <3>2
    <3> QED BY <3>3
  <2> QED BY <2>2, <2>3
<1> HIDE DEF shown, Box
<1> QED BY <1>4, <1>9, <1>10 DEF S, N

\* And so are the boxes of what the EA decided on the same bars.
LEMMA DecidedShow ==
  ASSUME NEW t \in DOMAIN Tiers, NEW tier, tier = Tiers[t], NEW k \in Nat \ {0}, k = tier.k,
         NEW all \in Seq(Bars(Int)), engines[t].log = DetectSwings(tier, AtrPeriod, all).events
  PROVE  /\ \A b \in Decided(t) : \E u \in Types : \E p \in Turns(tier, AtrPeriod, all, u) :
              p + k <= Len(all) /\ b = BoxOf(tier, AtrPeriod, all, u, p)
         /\ \A u \in Types : \A p \in Turns(tier, AtrPeriod, all, u) :
              p + k <= Len(all) => BoxOf(tier, AtrPeriod, all, u, p) \in Decided(t)
<1>1. PICK pass : pass = DetectSwings(tier, AtrPeriod, all)
  OBVIOUS
<1> DEFINE log == pass.events
           S(u) == Turns(tier, AtrPeriod, all, u)
           E(u, p) == EndsOf(tier, AtrPeriod, all, u, p)
           N == Len(all)
           Ends(e) == {b \in ToSet(log) : b.status = "BROKEN" /\ b.pivot = e.pivot /\ b.type = e.type}
           Box(e) == [type |-> e.type, pivot |-> e.pivot, broken |-> Ends(e) # {},
                      right |-> Max({e.opposite} \cup {b.at : b \in Ends(e)})]
           found == {e \in ToSet(log) : e.status = "CONFIRMED"}
<1>2. /\ Len(pass.events) \in Nat /\ IsSeq(pass.events)
      /\ \A m \in 1..Len(pass.events) :
           /\ pass.events[m].type \in Types
           /\ IsFound(pass, m, pass.events[m].type) \/ IsEnded(pass, m, pass.events[m].type)
      /\ \A u \in Types : \A m : IsFound(pass, m, u) =>
           /\ pass.events[m].pivot \in S(u) /\ pass.events[m].pivot + k <= N
           /\ pass.events[m].opposite = Opposite(all, pass.events[m].pivot, k, u)
           /\ pass.sources[m] = 0
      /\ \A u \in Types : \A m : IsEnded(pass, m, u) =>
           /\ IsFound(pass, pass.sources[m], u)
           /\ pass.events[pass.sources[m]].pivot = pass.events[m].pivot
           /\ E(u, pass.events[m].pivot) = {pass.events[m].at}
      /\ \A u \in Types : \A p \in S(u) : p + k <= N =>
           \E m : IsFound(pass, m, u) /\ pass.events[m].pivot = p
      /\ \A u \in Types : \A p : \A j \in E(u, p) :
           \E m : IsEnded(pass, m, u) /\ pass.events[m].pivot = p /\ pass.events[m].at = j
  <2>1. Shows(pass, tier, k, AtrPeriod, all)
    BY <1>1, PassShows
  <2> QED BY <2>1 DEF Shows
<1>3. ToSet(log) = {log[m] : m \in 1..Len(log)}
  <2>1. DOMAIN log = 1..Len(log)
    BY <1>2 DEF IsSeq
  <2> QED BY <2>1 DEF ToSet
<1>4. Decided(t) = {Box(e) : e \in found}
  BY <1>1 DEF Decided
<1> HIDE DEF S, E, N
<1>5. ASSUME NEW u \in Types, NEW m, IsFound(pass, m, u)
      PROVE  /\ log[m] \in found /\ log[m].pivot \in S(u) /\ log[m].pivot + k <= N
             /\ Box(log[m]) = BoxOf(tier, AtrPeriod, all, u, log[m].pivot)
  <2>1. PICK p, e : e = log[m] /\ p = e.pivot
    OBVIOUS
  <2>2. /\ p \in S(u) /\ p + k <= N /\ e.opposite = Opposite(all, p, k, u)
        /\ e.type = u /\ e.status = "CONFIRMED" /\ m \in 1..Len(log)
    BY <1>2, <1>5, <2>1 DEF IsFound
  <2>3. e \in found
    BY <1>3, <2>1, <2>2
  <2>4. ASSUME NEW b \in Ends(e) PROVE b.at \in E(u, p)
    <3>1. PICK r \in 1..Len(log) : b = log[r]
      BY <1>3
    <3>2. IsEnded(pass, r, u) /\ pass.events[r].pivot = p
      BY <2>1, <2>2, <3>1 DEF IsEnded
    <3>3. E(u, p) = {pass.events[r].at}
      BY <1>2, <3>2
    <3> QED BY <3>1, <3>3
  <2>5. ASSUME NEW j \in E(u, p) PROVE \E b \in Ends(e) : b.at = j
    <3>1. PICK r : IsEnded(pass, r, u) /\ pass.events[r].pivot = p /\ pass.events[r].at = j
      BY <1>2
    <3>2. log[r] \in Ends(e)
      BY <1>3, <2>1, <2>2, <3>1 DEF IsEnded
    <3> QED BY <3>1, <3>2
  <2> HIDE DEF Ends
  <2>6. {b.at : b \in Ends(e)} = E(u, p)
    BY <2>4, <2>5
  <2>7. (Ends(e) # {}) = (E(u, p) # {})
    BY <2>4, <2>5
  <2>8. Box(e) = [type |-> u, pivot |-> p, broken |-> E(u, p) # {},
                  right |-> Max({Opposite(all, p, k, u)} \cup E(u, p))]
    BY <2>1, <2>2, <2>6, <2>7
  <2>9. Box(e) = BoxOf(tier, AtrPeriod, all, u, p)
    BY <2>8 DEF BoxOf, E
  <2> HIDE DEF Box, found
  <2> QED BY <2>1, <2>2, <2>3, <2>9
<1>6. ASSUME NEW e \in found
      PROVE  \E u \in Types : \E p \in S(u) : p + k <= N /\ Box(e) = BoxOf(tier, AtrPeriod, all, u, p)
  <2>1. PICK m \in 1..Len(log) : e = log[m]
    BY <1>3
  <2>2. e.type \in Types /\ IsFound(pass, m, e.type)
    BY <1>2, <2>1 DEF IsEnded, IsFound
  <2> HIDE DEF Box, found
  <2> QED BY <1>5, <2>1, <2>2
<1>7. ASSUME NEW u \in Types, NEW p \in S(u), p + k <= N
      PROVE  BoxOf(tier, AtrPeriod, all, u, p) \in {Box(e) : e \in found}
  <2>1. PICK m : IsFound(pass, m, u) /\ pass.events[m].pivot = p
    BY <1>2, <1>7
  <2> HIDE DEF Box, found
  <2> QED BY <1>5, <2>1
<1> HIDE DEF Box, found
<1> QED BY <1>4, <1>6, <1>7 DEF S, N

-----------------------------------------------------------------------------
(* A window shows what all the bars do.                                    *)

SumAt(f, value, first, j) == IF j < first THEN 0 ELSE f[j - 1] + value[j]

LEMMA SumGoesOn ==
  ASSUME NEW value, NEW first \in Int, NEW last \in Int, first - 1 <= last
  PROVE  \E f : /\ \A j \in (first - 1)..last : f[j] = SumAt(f, value, first, j)
                /\ SumOver(value, first, last) = f[last]
<1> DEFINE base == first - 1
           Goes(f, j) == SumAt(f, value, first, j)
           Is(f, n) == f = [j \in base..(base + n) |-> Goes(f, j)]
           Bad == {n \in Nat : ~ \E f : Is(f, n)}
<1>0. base \in Int /\ base + 1 = first
  OBVIOUS
<1> HIDE DEF base
<1>1. Bad = {}
  <2> SUFFICES ASSUME Bad # {} PROVE FALSE
    OBVIOUS
  <2>1. PICK n \in Bad : \A m \in Bad : n <= m
    BY LeastOf
  <2>2. CASE n = 0
    <3>1. Is([j \in base..(base + 0) |-> 0], 0)
      <4>1. \A j \in base..(base + 0) : j < first
        BY <1>0
      <4> QED BY <4>1 DEF SumAt
    <3> QED BY <2>1, <2>2, <3>1
  <2>3. CASE n # 0
    <3>1. n \in Nat /\ n - 1 \in Nat /\ n - 1 \notin Bad
      <4>1. n \in Nat
        BY <2>1
      <4> HIDE DEF Bad
      <4>2. n - 1 \in Nat /\ ~(n <= n - 1)
        BY <2>3, <4>1
      <4> QED BY <2>1, <4>1, <4>2
    <3>2. PICK g : Is(g, n - 1)
      BY <3>1
    <3> DEFINE last0 == base + n
               f == [j \in base..last0 |-> IF j < last0 THEN g[j] ELSE Goes(g, last0)]
    <3>3. /\ last0 \in Int /\ base + (n - 1) = last0 - 1
          /\ \A j \in base..last0 : ~(j < first) => j - 1 \in base..last0 /\ j - 1 < last0
          /\ \A j \in base..last0 : j < last0 => j \in base..(last0 - 1)
          /\ \A j \in base..last0 : ~(j < last0) => j = last0
      BY <1>0, <3>1
    <3> HIDE DEF last0
    <3>4. ASSUME NEW j \in base..last0 PROVE f[j] = Goes(f, j)
      <4>1. ~(j < first) => f[j - 1] = g[j - 1]
        BY <3>3
      <4>2. Goes(f, j) = Goes(g, j)
        BY <4>1 DEF SumAt
      <4>3. f[j] = Goes(g, j)
        <5>1. CASE j < last0
          <6>1. j \in base..(base + (n - 1)) /\ f[j] = g[j]
            BY <3>3, <5>1
          <6> HIDE DEF f, Goes
          <6> QED BY <3>2, <6>1
        <5>2. CASE ~(j < last0)
          <6>1. j = last0
            BY <3>3, <5>2
          <6> QED BY <5>2, <6>1
        <5> QED BY <5>1, <5>2
      <4> QED BY <4>2, <4>3
    <3>5. Is(f, n)
      <4> HIDE DEF Goes
      <4>1. f = [j \in base..last0 |-> f[j]]
        OBVIOUS
      <4> HIDE DEF f
      <4>2. f = [j \in base..last0 |-> Goes(f, j)]
        BY <3>4, <4>1
      <4> QED BY <4>2 DEF last0
    <3> QED BY <2>1, <3>5
  <2> QED BY <2>2, <2>3
<1>2. last - base \in Nat /\ base + (last - base) = last
  BY <1>0
<1> DEFINE IsSum(f) == f = [j \in base..last |-> Goes(f, j)]
<1>3. \E f : IsSum(f)
  <2> HIDE DEF Goes
  <2>1. PICK f : Is(f, last - base)
    BY <1>1, <1>2
  <2> QED BY <1>2, <2>1
<1> DEFINE Whole == CHOOSE f : IsSum(f)
<1>4. IsSum(Whole)
  BY <1>3
<1>5. SumOver(value, first, last) = Whole[last]
  BY DEF SumOver, SumAt, base
<1> HIDE DEF Whole
<1>6. \A j \in base..last : Whole[j] = Goes(Whole, j)
  <2> HIDE DEF Goes
  <2> QED BY <1>4
<1> QED BY <1>5, <1>6 DEF base

LEMMA SumShifts ==
  ASSUME NEW value, NEW first \in Int, NEW last \in Int, first - 1 <= last, NEW start \in Int,
         NEW other, \A j \in first..last : value[j] \in Int /\ other[start + j] = value[j]
  PROVE  /\ SumOver(value, first, last) \in Int
         /\ SumOver(other, start + first, start + last) = SumOver(value, first, last)
<1>1. PICK f : /\ \A j \in (first - 1)..last : f[j] = SumAt(f, value, first, j)
               /\ SumOver(value, first, last) = f[last]
  BY SumGoesOn
<1>2. PICK g : /\ \A j \in (start + first - 1)..(start + last) : g[j] = SumAt(g, other, start + first, j)
               /\ SumOver(other, start + first, start + last) = g[start + last]
  <2>1. start + first \in Int /\ start + last \in Int /\ start + first - 1 <= start + last
    OBVIOUS
  <2> QED BY <2>1, SumGoesOn
<1> DEFINE Bad == {n \in Nat : first - 1 + n <= last /\
                     ~(f[first - 1 + n] \in Int /\ g[start + (first - 1 + n)] = f[first - 1 + n])}
<1>3. Bad = {}
  <2> SUFFICES ASSUME Bad # {} PROVE FALSE
    OBVIOUS
  <2>1. PICK n \in Bad : \A m \in Bad : n <= m
    BY LeastOf
  <2>2. PICK j : j = first - 1 + n
    OBVIOUS
  <2>3. /\ n \in Nat /\ j \in Int /\ first - 1 <= j /\ j <= last
        /\ ~(f[j] \in Int /\ g[start + j] = f[j])
    BY <2>1, <2>2
  <2>4. /\ f[j] = SumAt(f, value, first, j)
        /\ g[start + j] = SumAt(g, other, start + first, start + j)
    <3>1. j \in (first - 1)..last
      BY <2>3
    <3>2. start + j \in (start + first - 1)..(start + last)
      BY <2>3
    <3> QED BY <1>1, <1>2, <3>1, <3>2
  <2>5. CASE n = 0
    <3>1. j < first /\ start + j < start + first
      BY <2>2, <2>5
    <3> QED BY <2>3, <2>4, <3>1 DEF SumAt
  <2>6. CASE n # 0
    <3>1. n - 1 \in Nat /\ ~(n <= n - 1) /\ first - 1 + (n - 1) = j - 1 /\ j - 1 <= last
      BY <2>2, <2>3, <2>6
    <3>2. n - 1 \notin Bad
      <4> HIDE DEF Bad
      <4> QED BY <2>1, <3>1
    <3>3. f[j - 1] \in Int /\ g[start + (j - 1)] = f[j - 1]
      BY <3>1, <3>2
    <3>4. ~(j < first) /\ ~(start + j < start + first) /\ j \in first..last /\ start + j - 1 = start + (j - 1)
      BY <2>2, <2>3, <2>6
    <3>5. value[j] \in Int /\ other[start + j] = value[j]
      BY <3>4
    <3>6. f[j] = f[j - 1] + value[j] /\ g[start + j] = g[start + j - 1] + other[start + j]
      BY <2>4, <3>4 DEF SumAt
    <3>7. g[start + j] = f[j - 1] + value[j]
      BY <3>3, <3>4, <3>5, <3>6
    <3>8. f[j] \in Int
      BY <3>3, <3>5, <3>6
    <3> QED BY <2>3, <3>6, <3>7, <3>8
  <2> QED BY <2>5, <2>6
<1>4. PICK n : n = last - (first - 1)
  OBVIOUS
<1>5. n \in Nat /\ first - 1 + n = last /\ first - 1 + n <= last
  BY <1>4
<1>6. f[first - 1 + n] \in Int /\ g[start + (first - 1 + n)] = f[first - 1 + n]
  BY <1>3, <1>5
<1> QED BY <1>1, <1>2, <1>5, <1>6

\* Of some bars those from a place on, as far as both go alike.
Windows(w, all, start, n) ==
  /\ w \in Seq(Bars(Int)) /\ all \in Seq(Bars(Int)) /\ start \in Nat /\ n \in Nat
  /\ n <= Len(w) /\ start + n <= Len(all)
  /\ \A j \in 1..n : w[j] = all[start + j]

LEMMA RangesAre ==
  ASSUME NEW all \in Seq(Bars(Int)), NEW i \in 1..Len(all)
  PROVE  TrueRange(all, i) \in Nat
<1>1. /\ Len(all) \in Nat /\ all[i] \in Bars(Int)
      /\ i # 1 => i - 1 \in 1..Len(all)
  BY ElementOfSeq
<1>2. all[i].high \in Int /\ all[i].low \in Int /\ all[i].low <= all[i].high
  BY <1>1 DEF Bars
<1>3. all[i].high - all[i].low \in Nat
  BY <1>2
<1>4. CASE i = 1
  BY <1>3, <1>4 DEF TrueRange
<1>5. CASE i # 1
  <2>1. all[i - 1].close \in Int
    <3>1. all[i - 1] \in Bars(Int)
      BY <1>1, <1>5, ElementOfSeq
    <3> QED BY <3>1 DEF Bars
  <2>2. /\ Distance(all[i].high, all[i - 1].close) \in Nat
        /\ Distance(all[i].low, all[i - 1].close) \in Nat
    BY <1>2, <2>1 DEF Distance
  <2>3. \A a, b \in Nat : Larger(a, b) \in Nat
    BY DEF Larger
  <2> QED BY <1>3, <1>5, <2>2, <2>3 DEF TrueRange
<1> QED BY <1>4, <1>5

LEMMA WindowRanges ==
  ASSUME NEW w, NEW all, NEW start, NEW n, Windows(w, all, start, n), NEW period \in Nat \ {0},
         NEW p \in Nat, p > period, p <= n
  PROVE  TrueRangeSum(w, p, period) = TrueRangeSum(all, start + p, period)
<1>0. PICK i : i = start + p
  OBVIOUS
<1> DEFINE first == p - period + 1
           here == [j \in first..p |-> TrueRange(w, j)]
           there == [j \in (i - period + 1)..i |-> TrueRange(all, j)]
<1>1. /\ start \in Nat /\ n \in Nat /\ first \in Nat /\ first > 1 /\ first - 1 <= p
      /\ Len(w) \in Nat /\ n <= Len(w) /\ i - period + 1 = start + first
  BY <1>0 DEF Windows
<1>2. ASSUME NEW j \in first..p
      PROVE  TrueRange(w, j) \in Int /\ TrueRange(all, start + j) = TrueRange(w, j)
  <2>1. /\ j \in 1..n /\ j - 1 \in 1..n /\ j \in 1..Len(w) /\ j # 1 /\ start + j # 1
        /\ start + j - 1 = start + (j - 1)
    BY <1>1
  <2>2. w[j] = all[start + j] /\ w[j - 1] = all[start + (j - 1)]
    BY <2>1 DEF Windows
  <2>3. TrueRange(all, start + j) = TrueRange(w, j)
    <3>1. PICK m : m = start + j
      OBVIOUS
    <3>2. m # 1 /\ m - 1 = start + (j - 1)
      BY <1>1, <2>1, <3>1
    <3>4. w[j] = all[m] /\ w[j - 1] = all[m - 1]
      BY <2>2, <3>1, <3>2
    <3>3. TrueRange(all, m) = TrueRange(w, j)
      BY <2>1, <3>2, <3>4 DEF TrueRange
    <3> QED BY <3>1, <3>3
  <2>4. TrueRange(w, j) \in Nat
    BY <2>1, RangesAre DEF Windows
  <2> QED BY <2>3, <2>4
<1> HIDE DEF first
<1>3. ASSUME NEW j \in first..p PROVE here[j] \in Int /\ there[start + j] = here[j]
  <2>1. start + j \in (i - period + 1)..i
    BY <1>0, <1>1
  <2> QED BY <1>2, <2>1
<1> HIDE DEF here, there
<1>4. SumOver(there, start + first, start + p) = SumOver(here, first, p)
  <2>1. first \in Int /\ p \in Int /\ start \in Int
    BY <1>1
  <2> QED BY <1>1, <1>3, <2>1, SumShifts
<1>5. TrueRangeSum(w, p, period) = SumOver(here, first, p)
  BY DEF TrueRangeSum, here, first
<1>6. TrueRangeSum(all, i, period) = SumOver(there, i - period + 1, i)
  BY DEF TrueRangeSum, there
<1> QED BY <1>0, <1>1, <1>4, <1>5, <1>6

LEMMA OppositeIs ==
  ASSUME NEW all \in Seq(Bars(Int)), NEW type, NEW p \in Nat, NEW k \in Nat \ {0}, p + k <= Len(all),
         NEW i \in (p + 1)..(p + k),
         \A m \in (p + 1)..(p + k) : ~Beyond(type, Foot(type, all[i]), Foot(type, all[m])),
         \A j \in (p + 1)..(p + k) :
           (\A m \in (p + 1)..(p + k) : ~Beyond(type, Foot(type, all[j]), Foot(type, all[m])))
           => i <= j
  PROVE  i = Opposite(all, p, k, type)
<1>1. PICK o : o = Opposite(all, p, k, type)
  OBVIOUS
<1>2. /\ o \in (p + 1)..(p + k)
      /\ \A m \in (p + 1)..(p + k) : ~Beyond(type, Foot(type, all[o]), Foot(type, all[m]))
      /\ o <= i
  BY <1>1, FurthestIsThere
<1>3. i <= o
  BY <1>2
<1> QED BY <1>1, <1>2, <1>3

LEMMA WindowPivots ==
  ASSUME NEW w, NEW all, NEW start, NEW n, Windows(w, all, start, n), NEW k \in Nat \ {0}, NEW type,
         NEW p \in Nat, p > k, p + k <= n
  PROVE  /\ IsPivot(all, start + p, k, type) = IsPivot(w, p, k, type)
         /\ Opposite(all, start + p, k, type) = start + Opposite(w, p, k, type)
         /\ ReversalTicks(all, start + p, k, type) = ReversalTicks(w, p, k, type)
<1>1. /\ start \in Nat /\ n \in Nat /\ Len(w) \in Nat /\ n <= Len(w) /\ p + k <= Len(w)
      /\ Len(all) \in Nat /\ start + n <= Len(all) /\ start + p + k <= Len(all)
      /\ start + p \in Nat /\ w \in Seq(Bars(Int)) /\ all \in Seq(Bars(Int))
  BY DEF Windows
<1>2. ASSUME NEW j \in (p - k)..(p + k) PROVE w[j] = all[start + j]
  <2>1. j \in 1..n
    BY <1>1
  <2> QED BY <2>1 DEF Windows
<1>3. /\ \A j \in (p + 1)..(p + k) : j \in (p - k)..(p + k) /\ start + j \in (start + p + 1)..(start + p + k)
      /\ \A j \in (start + p + 1)..(start + p + k) : j - start \in (p + 1)..(p + k) /\ start + (j - start) = j
      /\ p \in (p - k)..(p + k)
  BY <1>1
<1>4. IsPivot(all, start + p, k, type) = IsPivot(w, p, k, type)
  <2>0. PICK q : q = start + p
    OBVIOUS
  <2>1. /\ \A j \in (p - k)..(p + k) : start + j \in (q - k)..(q + k)
        /\ \A j \in (q - k)..(q + k) : j - start \in (p - k)..(p + k) /\ start + (j - start) = j
        /\ \A j \in (p - k)..(p + k) : j # p => start + j # q
    BY <1>1, <2>0
  <2>2. ASSUME IsPivot(all, q, k, type), NEW j \in (p - k)..(p + k), j # p
        PROVE  Beyond(type, Tip(type, w[p]), Tip(type, w[j]))
    <3>1. Beyond(type, Tip(type, all[q]), Tip(type, all[start + j]))
      BY <2>1, <2>2 DEF IsPivot
    <3> QED BY <1>2, <1>3, <2>0, <3>1
  <2>3. ASSUME IsPivot(w, p, k, type), NEW j \in (q - k)..(q + k), j # q
        PROVE  Beyond(type, Tip(type, all[q]), Tip(type, all[j]))
    <3>1. PICK i \in (p - k)..(p + k) : start + i = j /\ i # p
      BY <1>1, <2>0, <2>1, <2>3
    <3>2. Beyond(type, Tip(type, w[p]), Tip(type, w[i]))
      BY <2>3, <3>1 DEF IsPivot
    <3> QED BY <1>2, <1>3, <2>0, <3>1, <3>2
  <2>4. IsPivot(all, q, k, type) => IsPivot(w, p, k, type)
    BY <2>2 DEF IsPivot
  <2>5. IsPivot(w, p, k, type) => IsPivot(all, q, k, type)
    BY <2>3 DEF IsPivot
  <2>6. IsPivot(w, p, k, type) \in BOOLEAN /\ IsPivot(all, q, k, type) \in BOOLEAN
    BY DEF IsPivot
  <2> QED BY <2>0, <2>4, <2>5, <2>6
<1>5. PICK o : o = Opposite(w, p, k, type)
  OBVIOUS
<1>6. /\ o \in (p + 1)..(p + k)
      /\ \A m \in (p + 1)..(p + k) : ~Beyond(type, Foot(type, w[o]), Foot(type, w[m]))
      /\ \A j \in (p + 1)..(p + k) :
           (\A m \in (p + 1)..(p + k) : ~Beyond(type, Foot(type, w[j]), Foot(type, w[m]))) => o <= j
  BY <1>1, <1>5, FurthestIsThere
<1>7. \A j \in (p + 1)..(p + k) : w[j] = all[start + j]
  BY <1>2, <1>3
<1>8. start + o = Opposite(all, start + p, k, type)
  <2>1. start + o \in (start + p + 1)..(start + p + k)
    BY <1>3, <1>6
  <2>2. ASSUME NEW m \in (start + p + 1)..(start + p + k)
        PROVE  ~Beyond(type, Foot(type, all[start + o]), Foot(type, all[m]))
    <3>1. PICK i \in (p + 1)..(p + k) : start + i = m
      BY <1>3
    <3> QED BY <1>6, <1>7, <3>1
  <2>3. ASSUME NEW j \in (start + p + 1)..(start + p + k),
               \A m \in (start + p + 1)..(start + p + k) : ~Beyond(type, Foot(type, all[j]), Foot(type, all[m]))
        PROVE  start + o <= j
    <3>1. PICK i \in (p + 1)..(p + k) : start + i = j
      BY <1>3
    <3>2. ASSUME NEW m \in (p + 1)..(p + k) PROVE ~Beyond(type, Foot(type, w[i]), Foot(type, w[m]))
      BY <1>3, <1>7, <2>3, <3>1
    <3>3. o <= i
      BY <1>6, <3>2
    <3> QED BY <1>1, <1>6, <3>1, <3>3
  <2> QED BY <1>1, <2>1, <2>2, <2>3, OppositeIs
<1>9. all[start + p] = w[p] /\ all[start + o] = w[o]
  BY <1>2, <1>3, <1>6, <1>7
<1>10. ReversalTicks(all, start + p, k, type) = ReversalTicks(w, p, k, type)
  BY <1>5, <1>8, <1>9 DEF ReversalTicks
<1> QED BY <1>4, <1>5, <1>8, <1>10

LEMMA WindowTurns ==
  ASSUME NEW w, NEW all, NEW start, NEW n, Windows(w, all, start, n), NEW tier,
         NEW k \in Nat \ {0}, k = tier.k, NEW period \in Nat \ {0}, NEW u,
         NEW p \in Nat, p > k, p > period, p + k <= n
  PROVE  p \in Turns(tier, period, w, u) <=> start + p \in Turns(tier, period, all, u)
<1>1. PICK q : q = start + p
  OBVIOUS
<1>2. /\ IsPivot(all, q, k, u) = IsPivot(w, p, k, u)
      /\ ReversalTicks(all, q, k, u) = ReversalTicks(w, p, k, u)
  BY <1>1, WindowPivots
<1>3. /\ q \in Nat /\ q > k /\ ~(q < period) /\ ~(p < period) /\ p <= n
  BY <1>1 DEF Windows
<1>4. TrueRangeSum(w, p, period) = TrueRangeSum(all, q, period)
  BY <1>1, <1>3, WindowRanges
<1>5. ChartAtr(all, q, period) = ChartAtr(w, p, period)
  BY <1>3, <1>4 DEF ChartAtr
<1>6. p \in Turns(tier, period, w, u) <=> q \in Turns(tier, period, all, u)
  BY <1>2, <1>3, <1>5 DEF Turns
<1> QED BY <1>1, <1>6

LEMMA WindowEnds ==
  ASSUME NEW w, NEW all, NEW start, NEW n, Windows(w, all, start, n), NEW tier,
         NEW k \in Nat \ {0}, k = tier.k, NEW period \in Nat \ {0}, NEW u,
         NEW p \in Nat, p > k, p > period, NEW j \in 1..n
  PROVE  EndsAt(Turns(tier, period, w, u), k, w, u, p, j) <=>
           EndsAt(Turns(tier, period, all, u), k, all, u, start + p, start + j)
<1>1. PICK S, Z, q, i : /\ S = Turns(tier, period, w, u) /\ Z = Turns(tier, period, all, u)
                        /\ q = start + p /\ i = start + j
  OBVIOUS
<1>2. /\ start \in Nat /\ n \in Nat /\ q \in Nat /\ i \in Nat /\ j \in Nat /\ j <= n
      /\ S \subseteq Nat /\ Z \subseteq Nat
  BY <1>1 DEF Windows, Turns
<1>3. \A r \in Nat : r > k /\ r > period /\ r + k <= n => (r \in S <=> start + r \in Z)
  BY <1>1, WindowTurns
<1>4. p + k <= j - 1 <=> q + k <= i - 1
  BY <1>1, <1>2
<1>5. ASSUME p + k <= j - 1
      PROVE  /\ p \in S <=> q \in Z
             /\ \A m \in (p + k + 1)..j : Past(w, u, p, m) = Past(all, u, q, start + m)
             /\ (\A r \in S : r > p => r + k > j - 1) <=> (\A r \in Z : r > q => r + k > i - 1)
             /\ (\A m \in (p + k + 1)..(j - 1) : ~Past(w, u, p, m)) <=>
                  (\A m \in (q + k + 1)..(i - 1) : ~Past(all, u, q, m))
  <2>1. p \in S <=> q \in Z
    <3>1. p + k <= n
      BY <1>2, <1>5
    <3> QED BY <1>1, <1>3, <3>1
  <2>2. ASSUME NEW m \in (p + k + 1)..j PROVE Past(w, u, p, m) = Past(all, u, q, start + m)
    <3>1. m \in 1..n /\ p \in 1..n
      BY <1>2, <1>5
    <3>2. w[m] = all[start + m] /\ w[p] = all[q]
      BY <1>1, <3>1 DEF Windows
    <3> QED BY <3>2 DEF Past
  <2>3. ASSUME \A r \in Z : r > q => r + k > i - 1, NEW r \in S, r > p PROVE r + k > j - 1
    <3> SUFFICES ASSUME r + k <= j - 1 PROVE FALSE
      BY <1>2
    <3>1. r \in Nat /\ r > k /\ r > period /\ r + k <= n
      BY <1>2, <2>3
    <3>2. start + r \in Z
      BY <1>3, <3>1
    <3>3. start + r > q /\ ~(start + r + k > i - 1)
      BY <1>1, <1>2, <2>3, <3>1
    <3> QED BY <2>3, <3>2, <3>3
  <2>4. ASSUME \A r \in S : r > p => r + k > j - 1, NEW r \in Z, r > q PROVE r + k > i - 1
    <3> SUFFICES ASSUME r + k <= i - 1 PROVE FALSE
      BY <1>2
    <3>1. PICK v : v = r - start
      OBVIOUS
    <3>2. v \in Nat /\ v > p /\ v > k /\ v > period /\ v + k <= n /\ v + k <= j - 1 /\ start + v = r
      BY <1>1, <1>2, <2>4, <3>1
    <3>3. v \in S
      BY <1>3, <3>2
    <3> QED BY <1>2, <2>4, <3>2, <3>3
  <2>5. ASSUME \A m \in (q + k + 1)..(i - 1) : ~Past(all, u, q, m), NEW m \in (p + k + 1)..(j - 1)
        PROVE  ~Past(w, u, p, m)
    <3>1. start + m \in (q + k + 1)..(i - 1) /\ m \in (p + k + 1)..j
      BY <1>1, <1>2
    <3> QED BY <2>2, <2>5, <3>1
  <2>6. ASSUME \A m \in (p + k + 1)..(j - 1) : ~Past(w, u, p, m), NEW m \in (q + k + 1)..(i - 1)
        PROVE  ~Past(all, u, q, m)
    <3>1. PICK v : v = m - start
      OBVIOUS
    <3>2. v \in (p + k + 1)..(j - 1) /\ v \in (p + k + 1)..j /\ start + v = m
      BY <1>1, <1>2, <3>1
    <3> QED BY <2>2, <2>6, <3>2
  <2> QED BY <2>1, <2>2, <2>3, <2>4, <2>5, <2>6
<1>7. p + k <= j - 1 => Past(w, u, p, j) = Past(all, u, q, i)
  <2> SUFFICES ASSUME p + k <= j - 1 PROVE Past(w, u, p, j) = Past(all, u, q, i)
    OBVIOUS
  <2>1. j \in (p + k + 1)..j
    BY <1>2
  <2> QED BY <1>1, <1>5, <2>1
<1>8. EndsAt(S, k, w, u, p, j) <=> EndsAt(Z, k, all, u, q, i)
  BY <1>2, <1>4, <1>5, <1>7 DEF EndsAt, Lives
<1> QED BY <1>1, <1>8

LEMMA PlacedIs ==
  ASSUME NEW box, NEW start \in Int, box.pivot \in Int, box.right \in Int,
         box = [type |-> box.type, pivot |-> box.pivot, broken |-> box.broken, right |-> box.right]
  PROVE  Placed(box, start) = [type |-> box.type, pivot |-> start + box.pivot,
                               broken |-> box.broken, right |-> start + box.right]
<1>1. box.pivot + start = start + box.pivot /\ box.right + start = start + box.right
  OBVIOUS
<1>2. PICK u, p, x, r, q, e : /\ u = box.type /\ p = box.pivot /\ x = box.broken /\ r = box.right
                              /\ q = start + p /\ e = start + r
  OBVIOUS
<1>3. Placed(box, start) = [[box EXCEPT !.pivot = q] EXCEPT !.right = e]
  BY <1>1, <1>2 DEF Placed
<1>4. box = [type |-> u, pivot |-> p, broken |-> x, right |-> r]
  BY <1>2
<1>5. [box EXCEPT !.pivot = q] = [type |-> u, pivot |-> q, broken |-> x, right |-> r]
  BY <1>4
<1>6. [[type |-> u, pivot |-> q, broken |-> x, right |-> r] EXCEPT !.right = e]
        = [type |-> u, pivot |-> q, broken |-> x, right |-> e]
  OBVIOUS
<1> QED BY <1>2, <1>3, <1>5, <1>6

\* The box of a swing confirmed within a window, unless the bar after the window ends it.
LEMMA WindowBox ==
  ASSUME NEW w, NEW all, NEW start, NEW n, Windows(w, all, start, n),
         Len(w) = n + 1, Len(all) = start + n, NEW tier,
         NEW k \in Nat \ {0}, k = tier.k, NEW period \in Nat \ {0}, NEW u \in Types,
         NEW p \in Turns(tier, period, w, u), p > period, p + k <= n,
         BoxOf(tier, period, w, u, p).right < n + 1
  PROVE  Placed(BoxOf(tier, period, w, u, p), start) = BoxOf(tier, period, all, u, start + p)
<1> DEFINE E == EndsOf(tier, period, w, u, p)
           F == EndsOf(tier, period, all, u, start + p)
           S == Turns(tier, period, w, u)
           Z == Turns(tier, period, all, u)
<1>1. /\ start \in Nat /\ n \in Nat /\ p \in Nat /\ p > k
      /\ w \in Seq(Bars(Int)) /\ all \in Seq(Bars(Int)) /\ p + k <= Len(w)
  BY DEF Windows, Turns
<1>2. PICK o : o = Opposite(w, p, k, u)
  OBVIOUS
<1>3. o \in (p + 1)..(p + k) /\ Opposite(all, start + p, k, u) = start + o
  BY <1>1, <1>2, OppositeIsThere, WindowPivots
<1>4. /\ \A j : j \in E <=> j \in 1..(n + 1) /\ EndsAt(S, k, w, u, p, j)
      /\ \A j : j \in F <=> j \in 1..(start + n) /\ EndsAt(Z, k, all, u, start + p, j)
  BY DEF EndsOf
<1>5. /\ S \subseteq Nat /\ Z \subseteq Nat
  BY DEF Turns
<1>6. /\ BoxOf(tier, period, w, u, p) =
           [type |-> u, pivot |-> p, broken |-> E # {}, right |-> Max({o} \cup E)]
      /\ BoxOf(tier, period, all, u, start + p) =
           [type |-> u, pivot |-> start + p, broken |-> F # {}, right |-> Max({start + o} \cup F)]
  BY <1>2, <1>3 DEF BoxOf
<1>7. Max({o} \cup E) < n + 1
  BY <1>6
<1> HIDE DEF E, F, S, Z
<1>8. \A i, j : i \in E /\ j \in E => i = j
  BY <1>1, <1>4, <1>5, EndsOnce
<1>9. \A j \in 1..n : j \in E <=> start + j \in F
  <2> SUFFICES ASSUME NEW j \in 1..n PROVE j \in E <=> start + j \in F
    OBVIOUS
  <2>1. j \in 1..(n + 1) /\ start + j \in 1..(start + n)
    BY <1>1
  <2>2. EndsAt(S, k, w, u, p, j) <=> EndsAt(Z, k, all, u, start + p, start + j)
    BY <1>1, WindowEnds DEF S, Z
  <2> QED BY <1>4, <2>1, <2>2
<1>10. ASSUME NEW i \in F PROVE i - start \in 1..n /\ start + (i - start) = i
  <2>1. /\ i \in 1..(start + n) /\ i \in Nat /\ start + p + k <= i - 1
    BY <1>4 DEF EndsAt, Lives
  <2> QED BY <1>1, <2>1
<1>11. ASSUME NEW j \in E PROVE j \in 1..n
  <2>1. E = {j}
    BY <1>8
  <2>2. j \in 1..(n + 1) /\ j \in Int /\ o \in Int
    BY <1>1, <1>3, <1>4
  <2>3. Max({o} \cup E) = Larger(o, j)
    BY <2>1, <2>2, MaxOfTwo
  <2> QED BY <1>1, <1>3, <1>7, <2>2, <2>3 DEF Larger
<1>12. CASE E = {}
  <2>1. F = {}
    <3> SUFFICES ASSUME NEW i \in F PROVE FALSE
      OBVIOUS
    <3>1. i - start \in E
      BY <1>9, <1>10
    <3> QED BY <1>12, <3>1
  <2>2. (E # {}) = FALSE /\ (F # {}) = FALSE
    BY <1>12, <2>1
  <2>3. {o} \cup E = {o} /\ {start + o} \cup F = {start + o}
    BY <1>12, <2>1
  <2>4. Max({o}) = o /\ Max({start + o}) = start + o /\ o \in Int
    <3>1. o \in Int /\ start + o \in Int
      BY <1>1, <1>3
    <3> QED BY <3>1, MaxOfOne
  <2>5. /\ BoxOf(tier, period, w, u, p) = [type |-> u, pivot |-> p, broken |-> FALSE, right |-> o]
        /\ BoxOf(tier, period, all, u, start + p) =
             [type |-> u, pivot |-> start + p, broken |-> FALSE, right |-> start + o]
    BY <1>6, <2>2, <2>3, <2>4
  <2>6. p \in Int /\ start \in Int
    BY <1>1
  <2>7. PICK b : b = BoxOf(tier, period, w, u, p)
    OBVIOUS
  <2>8. b = [type |-> u, pivot |-> p, broken |-> FALSE, right |-> o]
    BY <2>5, <2>7
  <2>9. Placed(b, start) = [type |-> u, pivot |-> start + p, broken |-> FALSE, right |-> start + o]
    <3>1. b.type = u /\ b.pivot = p /\ b.broken = FALSE /\ b.right = o
      BY <2>8
    <3>2. b = [type |-> b.type, pivot |-> b.pivot, broken |-> b.broken, right |-> b.right]
      BY <2>8, <3>1
    <3>3. Placed(b, start) = [type |-> b.type, pivot |-> start + b.pivot,
                              broken |-> b.broken, right |-> start + b.right]
      BY <2>4, <2>6, <3>1, <3>2, PlacedIs
    <3> QED BY <3>1, <3>3
  <2> QED BY <2>5, <2>7, <2>9
<1>13. CASE E # {}
  <2>1. PICK j : j \in E
    BY <1>13
  <2>2. E = {j} /\ j \in 1..n
    BY <1>8, <1>11, <2>1
  <2>3. start + j \in F
    BY <1>9, <2>1, <2>2
  <2>4. F = {start + j}
    <3> SUFFICES ASSUME NEW i \in F PROVE i = start + j
      BY <2>3
    <3>1. i - start \in E /\ start + (i - start) = i
      BY <1>9, <1>10
    <3> QED BY <2>2, <3>1
  <2>5. (E # {}) = TRUE /\ (F # {}) = TRUE
    BY <1>13, <2>4
  <2>6. /\ j \in Int /\ o \in Int /\ start + j \in Int /\ start + o \in Int /\ start \in Int
    BY <1>1, <1>3, <2>2
  <2>7. Max({o} \cup E) = Larger(o, j) /\ Max({start + o} \cup F) = Larger(start + o, start + j)
    BY <2>2, <2>4, <2>6, MaxOfTwo
  <2>8. /\ Larger(start + o, start + j) = start + Larger(o, j)
        /\ Larger(o, j) \in Int /\ p \in Int
    BY <1>1, <2>6 DEF Larger
  <2>9. /\ BoxOf(tier, period, w, u, p) = [type |-> u, pivot |-> p, broken |-> TRUE, right |-> Larger(o, j)]
        /\ BoxOf(tier, period, all, u, start + p) =
             [type |-> u, pivot |-> start + p, broken |-> TRUE, right |-> Larger(start + o, start + j)]
    BY <1>6, <2>5, <2>7
  <2>10. PICK b, r : b = BoxOf(tier, period, w, u, p) /\ r = Larger(o, j)
    OBVIOUS
  <2>11. b = [type |-> u, pivot |-> p, broken |-> TRUE, right |-> r]
    BY <2>9, <2>10
  <2>12. Placed(b, start) = [type |-> u, pivot |-> start + p, broken |-> TRUE, right |-> start + r]
    <3>1. b.type = u /\ b.pivot = p /\ b.broken = TRUE /\ b.right = r
      BY <2>11
    <3>2. b = [type |-> b.type, pivot |-> b.pivot, broken |-> b.broken, right |-> b.right]
      BY <2>11, <3>1
    <3>3. Placed(b, start) = [type |-> b.type, pivot |-> start + b.pivot,
                              broken |-> b.broken, right |-> start + b.right]
      BY <2>6, <2>8, <2>10, <3>1, <3>2, PlacedIs
    <3> QED BY <3>1, <3>3
  <2> QED BY <2>8, <2>9, <2>10, <2>12
<1> QED BY <1>12, <1>13

LEMMA BoxIs ==
  ASSUME NEW tier, NEW k \in Nat \ {0}, k = tier.k, NEW period, NEW all \in Seq(Bars(Int)), NEW u,
         NEW p \in Turns(tier, period, all, u), p + k <= Len(all),
         NEW b, b = BoxOf(tier, period, all, u, p)
  PROVE  /\ b.type = u /\ b.pivot = p /\ b.right \in Int /\ b.right > p
         /\ b = [type |-> b.type, pivot |-> b.pivot, broken |-> b.broken, right |-> b.right]
<1> DEFINE E == EndsOf(tier, period, all, u, p)
<1>1. PICK o : o = Opposite(all, p, k, u)
  OBVIOUS
<1>2. p \in Nat /\ Len(all) \in Nat
  BY DEF Turns
<1>3. o \in (p + 1)..(p + k)
  BY <1>1, <1>2, OppositeIsThere
<1>4. PICK S : S = {o} \cup E
  OBVIOUS
<1>5. S \subseteq 1..Len(all) /\ o \in S
  <2>1. E \subseteq 1..Len(all)
    BY DEF EndsOf
  <2>2. o \in 1..Len(all)
    BY <1>2, <1>3
  <2> QED BY <1>4, <2>1, <2>2
<1>6. Max(S) \in S /\ \A m \in S : m <= Max(S)
  BY <1>2, <1>5, HighestOf
<1>7. Max(S) \in Int /\ Max(S) > p
  <2>1. o <= Max(S) /\ Max(S) \in 1..Len(all)
    BY <1>5, <1>6
  <2> QED BY <1>2, <1>3, <2>1
<1>8. b = [type |-> u, pivot |-> p, broken |-> E # {}, right |-> Max(S)]
  BY <1>1, <1>4 DEF BoxOf
<1> HIDE DEF E
<1>9. PICK x, m : x = (E # {}) /\ m = Max(S)
  OBVIOUS
<1>10. b = [type |-> u, pivot |-> p, broken |-> x, right |-> m]
  BY <1>8, <1>9
<1>11. b.type = u /\ b.pivot = p /\ b.broken = x /\ b.right = m
  BY <1>10
<1> QED BY <1>7, <1>9, <1>10, <1>11

LEMMA PlacedBox ==
  ASSUME NEW tier, NEW k \in Nat \ {0}, k = tier.k, NEW period, NEW all \in Seq(Bars(Int)), NEW u,
         NEW p \in Turns(tier, period, all, u), p + k <= Len(all), NEW start \in Nat,
         NEW b, b = BoxOf(tier, period, all, u, p)
  PROVE  LET x == Placed(b, start)
         IN /\ x.type = u /\ x.pivot = start + p /\ x.right = start + b.right
            /\ b.right \in Int /\ x.right > x.pivot
<1>1. /\ b.type = u /\ b.pivot = p /\ b.right \in Int /\ b.right > p
      /\ b = [type |-> b.type, pivot |-> b.pivot, broken |-> b.broken, right |-> b.right]
  BY BoxIs
<1>2. p \in Int /\ start \in Int
  BY DEF Turns
<1>3. Placed(b, start) = [type |-> b.type, pivot |-> start + b.pivot,
                          broken |-> b.broken, right |-> start + b.right]
  BY <1>1, <1>2, PlacedIs
<1>4. PICK x : x = Placed(b, start)
  OBVIOUS
<1>5. x.type = u /\ x.pivot = start + p /\ x.right = start + b.right
  BY <1>1, <1>3, <1>4
<1>6. x.right > x.pivot
  BY <1>1, <1>2, <1>5
<1> QED BY <1>1, <1>4, <1>5, <1>6

\* What boxes show of some bars, when they are drawn with one more.
Draws(boxes, first, tier, k, period, all) ==
  /\ \A x \in boxes : x.pivot >= first /\ x.pivot + k < Len(all) + 1 /\ x.right < Len(all) + 1 =>
       \E u \in Types : \E q \in Turns(tier, period, all, u) :
         q + k <= Len(all) /\ x = BoxOf(tier, period, all, u, q)
  /\ \A u \in Types : \A q \in Turns(tier, period, all, u) : q >= first /\ q + k <= Len(all) =>
       \E x \in boxes : x.pivot = q /\ x.type = u

LEMMA WindowDraws ==
  ASSUME NEW w, NEW all, NEW start, NEW n, Windows(w, all, start, n),
         Len(w) = n + 1, Len(all) = start + n, NEW tier,
         NEW k \in Nat \ {0}, k = tier.k, NEW period \in Nat \ {0},
         NEW boxes, boxes = {Placed(b, start) : b \in Boxes(DetectSwings(tier, period, w))},
         NEW first, first = start + Larger(period, k) + 1
  PROVE  Draws(boxes, first, tier, k, period, all)
<1>1. /\ start \in Nat /\ n \in Nat /\ Len(all) + 1 = start + n + 1
      /\ w \in Seq(Bars(Int)) /\ all \in Seq(Bars(Int))
  BY DEF Windows
<1>2. /\ \A b \in Boxes(DetectSwings(tier, period, w)) : \E u \in Types : \E p \in Turns(tier, period, w, u) :
           p + k <= Len(w) /\ b = BoxOf(tier, period, w, u, p)
      /\ \A u \in Types : \A p \in Turns(tier, period, w, u) :
           p + k <= Len(w) => BoxOf(tier, period, w, u, p) \in Boxes(DetectSwings(tier, period, w))
  BY <1>1, BoxesShow
<1>3. \A p \in Int : start + p >= first <=> p > period /\ p > k
  BY <1>1 DEF Larger
<1>4. ASSUME NEW x \in boxes, x.pivot >= first, x.pivot + k < start + n + 1, x.right < start + n + 1
      PROVE  \E u \in Types : \E q \in Turns(tier, period, all, u) :
               q + k <= Len(all) /\ x = BoxOf(tier, period, all, u, q)
  <2>1. PICK c \in Boxes(DetectSwings(tier, period, w)) : x = Placed(c, start)
    OBVIOUS
  <2>2. PICK u \in Types : \E p \in Turns(tier, period, w, u) :
          p + k <= Len(w) /\ c = BoxOf(tier, period, w, u, p)
    BY <1>2
  <2>3. PICK p \in Turns(tier, period, w, u) : p + k <= Len(w) /\ c = BoxOf(tier, period, w, u, p)
    BY <2>2
  <2>4. PICK b : b = BoxOf(tier, period, w, u, p)
    OBVIOUS
  <2>5. x.pivot = start + p /\ x.right = start + b.right /\ b.right \in Int
    BY <1>1, <2>1, <2>3, <2>4, PlacedBox
  <2>6. p \in Nat /\ p \in Int
    BY DEF Turns
  <2>7. p > period /\ p > k
    BY <1>3, <1>4, <2>5, <2>6
  <2>8. p + k <= n /\ b.right < n + 1
    <3>1. start + p + k < start + n + 1 /\ start + b.right < start + n + 1
      BY <1>4, <2>5
    <3>2. start \in Int /\ n \in Int /\ k \in Int /\ b.right \in Int
      BY <1>1, <2>5
    <3> QED BY <2>6, <3>1, <3>2
  <2>9. x = BoxOf(tier, period, all, u, start + p)
    BY <2>1, <2>3, <2>4, <2>7, <2>8, WindowBox
  <2>10. start + p \in Turns(tier, period, all, u)
    BY <2>6, <2>7, <2>8, WindowTurns
  <2>11. start + p + k <= Len(all)
    BY <1>1, <2>6, <2>8
  <2> QED BY <2>9, <2>10, <2>11
<1>5. ASSUME NEW u \in Types, NEW q \in Turns(tier, period, all, u), q >= first, q + k <= Len(all)
      PROVE  \E x \in boxes : x.pivot = q /\ x.type = u
  <2>1. q \in Nat
    BY DEF Turns
  <2>2. PICK p : p = q - start
    OBVIOUS
  <2>3. p \in Int /\ start + p = q
    BY <1>1, <2>1, <2>2
  <2>4. p > period /\ p > k
    BY <1>3, <1>5, <2>3
  <2>5. p \in Nat /\ p + k <= n /\ p + k <= Len(w)
    BY <1>1, <1>5, <2>3, <2>4
  <2>6. p \in Turns(tier, period, w, u)
    BY <2>3, <2>4, <2>5, WindowTurns
  <2>7. PICK v \in Turns(tier, period, w, u) : v = p
    BY <2>6
  <2>8. PICK b : b = BoxOf(tier, period, w, u, v)
    OBVIOUS
  <2>9. v + k <= Len(w)
    BY <2>5, <2>7
  <2>10. b \in Boxes(DetectSwings(tier, period, w))
    BY <1>2, <2>8, <2>9
  <2>11. Placed(b, start).type = u /\ Placed(b, start).pivot = start + v
    BY <1>1, <2>8, <2>9, PlacedBox
  <2> QED BY <2>3, <2>7, <2>10, <2>11
<1> QED BY <1>1, <1>4, <1>5 DEF Draws

-----------------------------------------------------------------------------
(* The chart.                                                              *)

\* Where the chart last drew at the bar that forms, it drew the closed bars and some shape of it.
DrawnAt(d, n, closed) ==
  /\ d = [boxes |-> d.boxes, scanned |-> d.scanned]
  /\ d.scanned \in Nat /\ d.scanned <= n
  /\ d.scanned = n /\ ~(Smaller(n, ScanBars) < MinBarsNeeded) =>
       \E b \in Bars(Int) : d.boxes = [t \in DOMAIN Tiers |-> Scan(t, Append(closed, b))]
  /\ \A t \in DOMAIN Tiers : \A b \in d.boxes[t] : b.right > b.pivot

DrawInv == DrawnAt(drawn, Len(bars), Closed)

AllIn(boxes, tier, k, period, all, u) ==
  \A p \in Turns(tier, period, all, u) : p + k <= Len(all) => BoxOf(tier, period, all, u, p) \in boxes

LEMMA InWindow == \A a, n \in Nat : \A j \in 1..n : a + j \in 1..(a + n)
  OBVIOUS

\* A window that goes one bar further.
OneBarOn(w, all, start, n) ==
  Windows(w, all, start, n) /\ Len(w) = n + 1 /\ Len(all) = start + n

LEMMA ScanIs ==
  ASSUME NEW closed \in Seq(Bars(Int)), NEW b \in Bars(Int), NEW all, all = Append(closed, b),
         NEW start, start = ScanStart(Len(all)), NEW w, w = SubSeq(all, start + 1, Len(all)),
         NEW n, n = Len(all) - 1 - start
  PROVE  OneBarOn(w, closed, start, n)
<1>1. /\ all \in Seq(Bars(Int)) /\ Len(closed) \in Nat /\ Len(all) = Len(closed) + 1
      /\ \A i \in 1..Len(closed) : all[i] = closed[i]
  BY AppendProperties
<1>2. start \in Nat /\ start < Len(all)
  <2>1. ScanBars \in Nat /\ ScanBars # 0
    BY ChartAssumption
  <2> QED BY <1>1, <2>1 DEF ScanStart, Larger
<1>3. PICK v : v = w
  OBVIOUS
<1>4. /\ v \in Seq(Bars(Int)) /\ Len(v) = n + 1
      /\ \A j \in 1..Len(v) : v[j] = all[start + j]
  <2>1. /\ start + 1 \in Int /\ Len(all) \in Int /\ start + 1 <= Len(all)
        /\ \A j \in (start + 1)..Len(all) : j \in 1..Len(all)
        /\ Len(all) - (start + 1) + 1 = n + 1 /\ n \in Nat
    BY <1>1, <1>2
  <2>2. \A j \in (start + 1)..Len(all) : all[j] \in Bars(Int)
    BY <1>1, <2>1, ElementOfSeq
  <2>3. /\ v \in Seq(Bars(Int)) /\ Len(v) = n + 1
        /\ \A j \in 1..(n + 1) : v[j] = all[start + 1 + j - 1]
    BY <1>3, <2>1, <2>2, SubSeqProperties
  <2>4. ASSUME NEW j \in 1..(n + 1) PROVE v[j] = all[start + j]
    <3>1. start + 1 + j - 1 = start + j
      BY <1>2
    <3> QED BY <2>3, <3>1
  <2>5. \A j \in 1..Len(v) : v[j] = all[start + j]
    BY <2>3, <2>4
  <2> QED BY <2>3, <2>5
<1>5. n \in Nat /\ Len(closed) = start + n /\ start \in Nat /\ n <= Len(v) /\ start + n <= Len(closed)
  BY <1>1, <1>2, <1>4
<1>6. ASSUME NEW j \in 1..n PROVE v[j] = closed[start + j]
  <2>1. PICK m : m = n + 1
    OBVIOUS
  <2>2. j \in 1..m /\ start + j \in 1..Len(closed)
    <3>1. j \in Nat /\ 1 <= j /\ j <= n
      BY <1>5
    <3>2. j \in 1..m
      BY <1>5, <2>1, <3>1
    <3>3. start + j \in 1..(start + n)
      BY <1>5, InWindow
    <3> QED BY <1>5, <3>2, <3>3
  <2>3. v[j] = all[start + j]
    BY <1>4, <2>1, <2>2
  <2> QED BY <1>1, <2>2, <2>3
<1>7. Windows(v, closed, start, n)
  BY <1>4, <1>5, <1>6 DEF Windows
<1> QED BY <1>3, <1>4, <1>5, <1>7 DEF OneBarOn

\* Of the values of a function on some numbers one is the highest and one the lowest.
LEMMA ExtremesOf ==
  ASSUME NEW a \in Int, NEW b \in Int, a <= b, NEW f, \A j \in a..b : f[j] \in Int,
         NEW S, S = {f[j] : j \in a..b}
  PROVE  /\ Max(S) \in S /\ \A x \in S : x <= Max(S)
         /\ Min(S) \in S /\ \A x \in S : Min(S) <= x
<1> DEFINE High(n, m) == m \in a..(a + n) /\ \A j \in a..(a + n) : f[j] <= f[m]
           Low(n, m) == m \in a..(a + n) /\ \A j \in a..(a + n) : f[m] <= f[j]
           Bad == {n \in Nat : a + n <= b /\ ~((\E m : High(n, m)) /\ (\E m : Low(n, m)))}
<1>1. Bad = {}
  <2> SUFFICES ASSUME Bad # {} PROVE FALSE
    OBVIOUS
  <2>1. PICK n \in Bad : \A m \in Bad : n <= m
    BY LeastOf
  <2>2. n \in Nat /\ a + n <= b /\ \A j \in a..(a + n) : j \in a..b
    BY <2>1
  <2>3. \A j \in a..(a + n) : f[j] \in Int
    BY <2>2
  <2>4. CASE n = 0
    <3>1. \A j : j \in a..(a + n) <=> j = a
      BY <2>4
    <3>2. a \in a..(a + n) /\ f[a] \in Int /\ f[a] <= f[a]
      BY <2>3, <3>1
    <3>3. High(n, a) /\ Low(n, a)
      BY <3>1, <3>2
    <3> QED BY <2>1, <3>3
  <2>5. CASE n # 0
    <3>1. n - 1 \in Nat /\ ~(n <= n - 1) /\ a + (n - 1) <= b
      BY <2>2, <2>5
    <3>2. n - 1 \notin Bad
      <4> HIDE DEF Bad
      <4> QED BY <2>1, <3>1
    <3>3. PICK x, y : High(n - 1, x) /\ Low(n - 1, y)
      BY <3>1, <3>2
    <3>4. PICK z : z = a + n
      OBVIOUS
    <3>5. \A j : j \in a..(a + n) <=> j \in a..(a + (n - 1)) \/ j = z
      <4>1. z \in Int /\ a <= z /\ a + (n - 1) = z - 1 /\ a + n = z
        BY <2>2, <3>1, <3>4
      <4>2. \A j : j \in a..z <=> j \in a..(z - 1) \/ j = z
        BY <4>1
      <4> QED BY <4>1, <4>2
    <3>6. /\ x \in a..(a + n) /\ y \in a..(a + n) /\ z \in a..(a + n)
          /\ f[x] \in Int /\ f[y] \in Int /\ f[z] \in Int
          /\ \A j \in a..(a + n) : f[j] \in Int /\ (j = z \/ (f[j] <= f[x] /\ f[y] <= f[j]))
      BY <2>3, <3>3, <3>4, <3>5
    <3>7. \E m : High(n, m)
      <4>1. CASE f[z] <= f[x]
        <5>1. High(n, x)
          BY <3>6, <4>1
        <5> QED BY <5>1
      <4>2. CASE ~(f[z] <= f[x])
        <5>1. High(n, z)
          BY <3>6, <4>2
        <5> QED BY <5>1
      <4> QED BY <4>1, <4>2
    <3>8. \E m : Low(n, m)
      <4>1. CASE f[y] <= f[z]
        <5>1. Low(n, y)
          BY <3>6, <4>1
        <5> QED BY <5>1
      <4>2. CASE ~(f[y] <= f[z])
        <5>1. Low(n, z)
          BY <3>6, <4>2
        <5> QED BY <5>1
      <4> QED BY <4>1, <4>2
    <3> HIDE DEF High, Low
    <3> QED BY <2>1, <3>7, <3>8
  <2> QED BY <2>4, <2>5
<1>2. PICK n : n = b - a
  OBVIOUS
<1>3. n \in Nat /\ a + n = b
  BY <1>2
<1>4. PICK x, y : High(n, x) /\ Low(n, y)
  BY <1>1, <1>3
<1>5. f[x] \in S /\ \A e \in S : f[x] >= e
  BY <1>3, <1>4
<1>6. f[y] \in S /\ \A e \in S : f[y] <= e
  BY <1>3, <1>4
<1>7. Max(S) \in S /\ \A e \in S : Max(S) >= e
  BY <1>5 DEF Max
<1>8. Min(S) \in S /\ \A e \in S : Min(S) <= e
  BY <1>6 DEF Min
<1>9. \A e \in S : e \in Int
  OBVIOUS
<1>10. \A e \in S : e <= Max(S)
  BY <1>7, <1>9
<1> QED BY <1>7, <1>8, <1>10

LEMMA MinBarsIsANumber == MinBarsNeeded \in Int
<1> DEFINE K == {Tiers[t].k : t \in DOMAIN Tiers}
<1>1. K \subseteq Int /\ DOMAIN Tiers # {} /\ AtrPeriod \in Int
  BY ChartAssumption, TierAssumption
<1>2. PICK n \in Nat : ExistsSurjection(1..n, DOMAIN Tiers)
  BY ChartAssumption, FS_NatSurjection
<1>3. PICK g : /\ g \in [1..n -> DOMAIN Tiers]
               /\ \A t \in DOMAIN Tiers : \E j \in 1..n : g[j] = t
  BY <1>2 DEF ExistsSurjection, Surjection
<1> DEFINE f == [j \in 1..n |-> Tiers[g[j]].k]
<1>4. K = {f[j] : j \in 1..n}
  BY <1>3
<1>5. \A j \in 1..n : f[j] \in Int
  BY <1>1, <1>3
<1>6. 1 <= n
  BY <1>1, <1>3
<1> HIDE DEF f, K
<1>7. Max(K) \in K
  <2>1. 1 \in Int /\ n \in Int
    OBVIOUS
  <2> QED BY <1>4, <1>5, <1>6, <2>1, ExtremesOf
<1>8. Max(K) \in Int
  BY <1>1, <1>7
<1> QED BY <1>1, <1>8 DEF MinBarsNeeded, K

LEMMA ScanDraws ==
  ASSUME NEW closed \in Seq(Bars(Int)), NEW b \in Bars(Int), NEW t \in DOMAIN Tiers,
         NEW first, first = ScanStart(Len(closed) + 1) + Larger(AtrPeriod, Tiers[t].k) + 1
  PROVE  Draws(Scan(t, Append(closed, b)), first, Tiers[t], Tiers[t].k, AtrPeriod, closed)
<1>1. PICK all, start, w, n, tier, k :
        /\ all = Append(closed, b) /\ start = ScanStart(Len(all))
        /\ w = SubSeq(all, start + 1, Len(all)) /\ n = Len(all) - 1 - start
        /\ tier = Tiers[t] /\ k = tier.k
  OBVIOUS
<1>2. OneBarOn(w, closed, start, n)
  BY <1>1, ScanIs
<1>3. k \in Nat \ {0} /\ k = tier.k /\ AtrPeriod \in Nat \ {0}
  BY <1>1, ChartAssumption
<1>4. Scan(t, Append(closed, b)) = {Placed(x, start) : x \in Boxes(DetectSwings(tier, AtrPeriod, w))}
  BY <1>1 DEF Scan
<1>5. first = start + Larger(AtrPeriod, k) + 1
  <2>1. Len(all) = Len(closed) + 1
    BY <1>1, AppendProperties
  <2> QED BY <1>1, <2>1
<1>6. PICK boxes : boxes = Scan(t, Append(closed, b))
  OBVIOUS
<1>7. boxes = {Placed(x, start) : x \in Boxes(DetectSwings(tier, AtrPeriod, w))}
  BY <1>4, <1>6
<1>8. Draws(boxes, first, tier, k, AtrPeriod, closed)
  BY <1>2, <1>3, <1>5, <1>7, WindowDraws DEF OneBarOn
<1> QED BY <1>1, <1>6, <1>8

LEMMA DrawnSound == ASSUME SwingInv, DrawInv PROVE DrawnAsDecided
<1> SUFFICES ASSUME NoHalves, drawn.scanned = Len(bars), Smaller(Len(bars), ScanBars) >= MinBarsNeeded,
                    NEW t \in DOMAIN Tiers
             PROVE  LET first == ScanStart(Len(bars)) + Larger(AtrPeriod, Tiers[t].k) + 1
                        decided == {b \in Decided(t) : b.pivot >= first}
                        shown == {b \in drawn.boxes[t] : b.pivot >= first /\ b.pivot + Tiers[t].k < Len(bars)}
                        settled == {b \in shown : b.right < Len(bars)}
                    IN /\ settled \subseteq decided
                       /\ \A d \in decided : \E b \in shown : b.pivot = d.pivot /\ b.type = d.type
  BY DEF DrawnAsDecided
<1>1. /\ Continues(Closed, bars) /\ Closed \in Seq(Bars(Int)) /\ Len(bars) = Len(Closed) + 1
      /\ Len(Closed) \in Nat /\ Agreed(t, engines[t], Closed)
  BY ClosedGrows DEF SwingInv, Closed, Continues
<1>2. engines[t].log = DetectSwings(Tiers[t], AtrPeriod, Closed).events
  <2>1. HalvesFree(Closed)
    BY <1>1, ChartAssumption, SameHalves DEF NoHalves
  <2> QED BY <1>1, <2>1 DEF Agreed, Agree
<1>3. PICK b \in Bars(Int) : drawn.boxes = [u \in DOMAIN Tiers |-> Scan(u, Append(Closed, b))]
  <2>1. ScanBars \in Int
    BY ChartAssumption
  <2>2. ~(Smaller(Len(bars), ScanBars) < MinBarsNeeded)
    BY <1>1, <2>1, MinBarsIsANumber DEF Smaller
  <2> QED BY <2>2 DEF DrawInv, DrawnAt
<1>4. PICK c, tier, k : c = Closed /\ tier = Tiers[t] /\ k = tier.k
  OBVIOUS
<1>5. /\ c \in Seq(Bars(Int)) /\ Len(c) \in Nat /\ Len(bars) = Len(c) + 1
      /\ k \in Nat \ {0} /\ AtrPeriod \in Nat \ {0}
  BY <1>1, <1>4, ChartAssumption
<1>6. PICK boxes, first : /\ boxes = drawn.boxes[t]
                          /\ first = ScanStart(Len(c) + 1) + Larger(AtrPeriod, k) + 1
  OBVIOUS
<1>7. Draws(boxes, first, tier, k, AtrPeriod, c)
  <2>1. boxes = Scan(t, Append(c, b))
    BY <1>3, <1>4, <1>6
  <2>2. first = ScanStart(Len(c) + 1) + Larger(AtrPeriod, Tiers[t].k) + 1
    BY <1>4, <1>6
  <2>3. Draws(Scan(t, Append(c, b)), first, Tiers[t], Tiers[t].k, AtrPeriod, c)
    BY <1>5, <2>2, ScanDraws
  <2> QED BY <1>4, <2>1, <2>3
<1>8. PICK D : D = Decided(t)
  OBVIOUS
<1>9. /\ \A d \in D : \E u \in Types : \E p \in Turns(tier, AtrPeriod, c, u) :
            p + k <= Len(c) /\ d = BoxOf(tier, AtrPeriod, c, u, p)
      /\ \A u \in Types : AllIn(D, tier, k, AtrPeriod, c, u)
  <2>1. engines[t].log = DetectSwings(tier, AtrPeriod, c).events
    BY <1>2, <1>4
  <2>2. /\ \A d \in Decided(t) : \E u \in Types : \E p \in Turns(tier, AtrPeriod, c, u) :
             p + k <= Len(c) /\ d = BoxOf(tier, AtrPeriod, c, u, p)
        /\ \A u \in Types : \A p \in Turns(tier, AtrPeriod, c, u) :
             p + k <= Len(c) => BoxOf(tier, AtrPeriod, c, u, p) \in Decided(t)
    BY <1>4, <1>5, <2>1, DecidedShow
  <2> QED BY <1>8, <2>2 DEF AllIn
<1>10. ScanStart(Len(bars)) + Larger(AtrPeriod, Tiers[t].k) + 1 = first
  BY <1>4, <1>5, <1>6
<1>11. ASSUME NEW x \in boxes, x.pivot >= first, x.pivot + k < Len(bars), x.right < Len(bars)
       PROVE  x \in D
  <2>1. x.pivot + k < Len(c) + 1 /\ x.right < Len(c) + 1
    BY <1>5, <1>11
  <2>2. PICK u \in Types : \E q \in Turns(tier, AtrPeriod, c, u) :
          q + k <= Len(c) /\ x = BoxOf(tier, AtrPeriod, c, u, q)
    BY <1>7, <1>11, <2>1 DEF Draws
  <2>3. PICK q \in Turns(tier, AtrPeriod, c, u) :
          q + k <= Len(c) /\ x = BoxOf(tier, AtrPeriod, c, u, q)
    BY <2>2
  <2>4. \A p \in Turns(tier, AtrPeriod, c, u) :
          p + k <= Len(c) => BoxOf(tier, AtrPeriod, c, u, p) \in D
    BY <1>9, <2>2 DEF AllIn
  <2>5. BoxOf(tier, AtrPeriod, c, u, q) \in D
    BY <2>3, <2>4
  <2> QED BY <2>3, <2>5
<1>12. ASSUME NEW d \in D, d.pivot >= first
       PROVE  \E x \in boxes : /\ x.pivot >= first /\ x.pivot + k < Len(bars)
                               /\ x.pivot = d.pivot /\ x.type = d.type
  <2>1. PICK u \in Types : \E p \in Turns(tier, AtrPeriod, c, u) :
            p + k <= Len(c) /\ d = BoxOf(tier, AtrPeriod, c, u, p)
    BY <1>9
  <2>2. PICK p \in Turns(tier, AtrPeriod, c, u) : p + k <= Len(c) /\ d = BoxOf(tier, AtrPeriod, c, u, p)
    BY <2>1
  <2>3. d.type = u /\ d.pivot = p
    BY <1>4, <1>5, <2>2, BoxIs
  <2>4. PICK x \in boxes : x.pivot = p /\ x.type = u
    BY <1>7, <1>12, <2>2, <2>3 DEF Draws
  <2>5. x.pivot + k < Len(bars)
    <3>1. p \in Nat
      BY DEF Turns
    <3> QED BY <1>5, <2>2, <2>4, <3>1
  <2> QED BY <1>12, <2>3, <2>4, <2>5
<1> QED BY <1>4, <1>6, <1>10, <1>11, <1>12, <1>8

\* A box ends after its pivot, wherever it is drawn.
LEMMA ScanGoesOn ==
  ASSUME NEW closed \in Seq(Bars(Int)), NEW b \in Bars(Int), NEW t \in DOMAIN Tiers,
         NEW x \in Scan(t, Append(closed, b))
  PROVE  x.right > x.pivot
<1>1. PICK all, start, w, n, tier, k :
        /\ all = Append(closed, b) /\ start = ScanStart(Len(all))
        /\ w = SubSeq(all, start + 1, Len(all)) /\ n = Len(all) - 1 - start
        /\ tier = Tiers[t] /\ k = tier.k
  OBVIOUS
<1>2. Windows(w, closed, start, n)
  BY <1>1, ScanIs DEF OneBarOn
<1>3. w \in Seq(Bars(Int)) /\ start \in Nat
  BY <1>2 DEF Windows
<1>4. k \in Nat \ {0} /\ k = tier.k
  BY <1>1, ChartAssumption
<1>5. PICK c \in Boxes(DetectSwings(tier, AtrPeriod, w)) : x = Placed(c, start)
  BY <1>1 DEF Scan
<1>6. PICK u \in Types : \E p \in Turns(tier, AtrPeriod, w, u) :
        p + k <= Len(w) /\ c = BoxOf(tier, AtrPeriod, w, u, p)
  BY <1>3, <1>4, <1>5, BoxesShow
<1>7. PICK p \in Turns(tier, AtrPeriod, w, u) : p + k <= Len(w) /\ c = BoxOf(tier, AtrPeriod, w, u, p)
  BY <1>6
<1> QED BY <1>3, <1>4, <1>5, <1>7, PlacedBox

LEMMA NowDrawn ==
  ASSUME NEW closed \in Seq(Bars(Int)), NEW b \in Bars(Int), NEW n \in Nat, NEW d,
         d.boxes = [t \in DOMAIN Tiers |-> Scan(t, Append(closed, b))], d.scanned = n,
         d = [boxes |-> d.boxes, scanned |-> d.scanned]
  PROVE  DrawnAt(d, n, closed)
<1>1. ASSUME NEW t \in DOMAIN Tiers, NEW x \in d.boxes[t] PROVE x.right > x.pivot
  <2>1. x \in Scan(t, Append(closed, b))
    BY <1>1
  <2> QED BY <2>1, ScanGoesOn
<1>2. n <= n
  OBVIOUS
<1> QED BY <1>1, <1>2 DEF DrawnAt

LEMMA Redraws ==
  ASSUME NEW e, e = [boxes |-> e.boxes, scanned |-> e.scanned],
         \A t \in DOMAIN Tiers : \A x \in e.boxes[t] : x.right > x.pivot,
         NEW closed \in Seq(Bars(Int)), NEW b \in Bars(Int),
         NEW all, all = Append(closed, b), NEW d,
         d = IF Smaller(Len(all), ScanBars) < MinBarsNeeded THEN [e EXCEPT !.scanned = Len(all)]
             ELSE [boxes |-> [t \in DOMAIN Tiers |-> Scan(t, all)], scanned |-> Len(all)]
  PROVE  DrawnAt(d, Len(all), closed)
<1>1. Len(all) \in Nat
  BY AppendProperties
<1>2. PICK n : n = Len(all)
  OBVIOUS
<1>3. CASE Smaller(Len(all), ScanBars) < MinBarsNeeded
  <2>1. d = [e EXCEPT !.scanned = n]
    BY <1>2, <1>3
  <2>2. d = [boxes |-> e.boxes, scanned |-> n]
    BY <2>1
  <2>3. d.boxes = e.boxes /\ d.scanned = n
    BY <2>2
  <2>4. n <= n /\ n \in Nat /\ Smaller(n, ScanBars) < MinBarsNeeded
    BY <1>1, <1>2, <1>3
  <2>5. DrawnAt(d, n, closed)
    BY <2>2, <2>3, <2>4 DEF DrawnAt
  <2> QED BY <1>2, <2>5
<1>4. CASE ~(Smaller(Len(all), ScanBars) < MinBarsNeeded)
  <2>1. d = [boxes |-> [t \in DOMAIN Tiers |-> Scan(t, all)], scanned |-> n]
    BY <1>2, <1>4
  <2>2. d.boxes = [t \in DOMAIN Tiers |-> Scan(t, all)] /\ d.scanned = n
    BY <2>1
  <2>3. d = [boxes |-> d.boxes, scanned |-> d.scanned]
    BY <2>1, <2>2
  <2>4. d.boxes = [t \in DOMAIN Tiers |-> Scan(t, Append(closed, b))] /\ n \in Nat
    BY <1>1, <1>2, <2>2
  <2>5. DrawnAt(d, n, closed)
    BY <2>2, <2>3, <2>4, NowDrawn
  <2> QED BY <1>2, <2>5
<1> QED BY <1>3, <1>4

\* The forming bar in its new shape.
LEMMA ShapeForms ==
  ASSUME SwingInv, Shape
  PROVE  /\ Closed \in Seq(Bars(Int)) /\ Closed' = Closed /\ Len(bars') = Len(bars)
         /\ Len(bars) = Len(Closed) + 1 /\ Len(Closed) \in Nat
         /\ \E b \in ShapesAt[Len(bars)] : b \in Bars(Int) /\ bars' = Append(Closed, b)
<1>1. PICK b \in ShapesAt[Len(bars)] : bars' = Front(bars) \o <<b>>
  BY DEF Shape
<1>2. /\ bars \in Seq(Bars(Int)) /\ Len(bars) \in 1..MaxBars /\ Len(bars) # 0
  BY DEF SwingInv
<1>3. b \in Bars(Int)
  BY <1>1, <1>2, ChartAssumption
<1>4. Closed \in Seq(Bars(Int)) /\ Len(bars) = Len(Closed) + 1 /\ Len(Closed) \in Nat
  BY <1>2, ClosedGrows DEF Closed, Continues
<1>5. bars' = Append(Closed, b)
  BY <1>1, <1>3, <1>4, AppendIsConcat DEF Front, Closed
<1>6. Len(bars') = Len(bars) /\ Closed' = Closed
  <2>1. PICK c : c = Closed
    OBVIOUS
  <2>2. /\ Append(c, b) \in Seq(Bars(Int)) /\ Len(Append(c, b)) = Len(c) + 1
        /\ SubSeq(Append(c, b), 1, Len(Append(c, b)) - 1) = c
    BY <1>3, <1>4, <2>1, ClosedBefore
  <2>3. Closed' = SubSeq(bars', 1, Len(bars') - 1)
    BY DEF Closed
  <2> QED BY <1>4, <1>5, <2>1, <2>2, <2>3
<1> QED BY <1>1, <1>3, <1>4, <1>5, <1>6

\* The next bar as it opens.
LEMMA NextForms ==
  ASSUME SwingInv, NextBar
  PROVE  /\ bars \in Seq(Bars(Int)) /\ Closed' = bars /\ Len(bars') = Len(bars) + 1 /\ Len(bars) \in Nat
         /\ \E b \in ShapesAt[Len(bars) + 1] :
              Opening(b.open) \in Bars(Int) /\ bars' = Append(bars, Opening(b.open))
<1>1. PICK b \in ShapesAt[Len(bars) + 1] : bars' = Append(bars, Opening(b.open))
  BY DEF NextBar
<1>2. bars \in Seq(Bars(Int)) /\ Len(bars) \in 1..MaxBars
  BY DEF SwingInv
<1>3. Opening(b.open) \in Bars(Int)
  <2>1. Len(bars) + 1 \in 1..MaxBars
    <3>1. Len(bars) < MaxBars /\ MaxBars \in Nat
      BY ChartAssumption DEF NextBar
    <3> QED BY <1>2, <3>1
  <2>2. b \in Bars(Int)
    BY <1>1, <2>1, ChartAssumption
  <2> QED BY <2>2, OpeningIsABar
<1>4. Len(bars') = Len(bars) + 1 /\ Closed' = bars
  <2>1. Closed' = SubSeq(bars', 1, Len(bars') - 1)
    BY DEF Closed
  <2> QED BY <1>1, <1>2, <1>3, <2>1, ClosedBefore
<1> QED BY <1>1, <1>2, <1>3, <1>4

LEMMA ShapeDraws == ASSUME SwingInv, DrawInv, Shape PROVE DrawInv'
<1>1. /\ Closed \in Seq(Bars(Int)) /\ Closed' = Closed /\ Len(bars') = Len(bars)
      /\ \E b \in Bars(Int) : bars' = Append(Closed, b)
  BY ShapeForms
<1>2. PICK b \in Bars(Int) : bars' = Append(Closed, b)
  BY <1>1
<1>3. drawn' = drawn \/ drawn' = Redraw(bars')
  BY DEF Shape, OnCalculate
<1>4. CASE drawn' = drawn
  BY <1>1, <1>4 DEF DrawInv
<1>5. CASE drawn' # drawn
  <2>1. drawn' = RescanAndDraw(bars')
    BY <1>3, <1>5 DEF Redraw
  <2>2. PICK e, c, all, d : e = drawn /\ c = Closed /\ all = bars' /\ d = drawn'
    OBVIOUS
  <2>3. d = IF Smaller(Len(all), ScanBars) < MinBarsNeeded THEN [e EXCEPT !.scanned = Len(all)]
            ELSE [boxes |-> [t \in DOMAIN Tiers |-> Scan(t, all)], scanned |-> Len(all)]
    BY <2>1, <2>2 DEF RescanAndDraw
  <2>4. /\ e = [boxes |-> e.boxes, scanned |-> e.scanned]
        /\ \A t \in DOMAIN Tiers : \A x \in e.boxes[t] : x.right > x.pivot
    BY <2>2 DEF DrawInv, DrawnAt
  <2>5. c \in Seq(Bars(Int)) /\ all = Append(c, b)
    BY <1>1, <1>2, <2>2
  <2>6. DrawnAt(d, Len(all), c)
    BY <2>3, <2>4, <2>5, Redraws
  <2> QED BY <1>1, <2>2, <2>6 DEF DrawInv
<1> QED BY <1>4, <1>5

LEMMA NextBarDraws == ASSUME SwingInv, DrawInv, NextBar PROVE DrawInv'
<1>1. /\ bars \in Seq(Bars(Int)) /\ Closed' = bars /\ Len(bars') = Len(bars) + 1 /\ Len(bars) \in Nat
      /\ \E b \in Bars(Int) : bars' = Append(bars, b)
  BY NextForms
<1>2. PICK b \in Bars(Int) : bars' = Append(bars, b)
  BY <1>1
<1>3. drawn' = drawn \/ drawn' = Redraw(bars')
  BY DEF NextBar, OnCalculate
<1>4. PICK e, c, all, d : e = drawn /\ c = bars /\ all = bars' /\ d = drawn'
  OBVIOUS
<1>5. /\ e = [boxes |-> e.boxes, scanned |-> e.scanned]
      /\ e.scanned \in Nat /\ e.scanned <= Len(c)
      /\ \A t \in DOMAIN Tiers : \A x \in e.boxes[t] : x.right > x.pivot
  BY <1>4 DEF DrawInv, DrawnAt
<1>6. c \in Seq(Bars(Int)) /\ all = Append(c, b) /\ Len(all) = Len(c) + 1 /\ Len(c) \in Nat
  BY <1>1, <1>2, <1>4
<1>7. e.scanned # Len(all) /\ e.scanned <= Len(all)
  BY <1>5, <1>6
<1>8. CASE d = e
  <2>1. DrawnAt(d, Len(all), c)
    BY <1>5, <1>7, <1>8 DEF DrawnAt
  <2> QED BY <1>1, <1>4, <2>1 DEF DrawInv
<1>9. CASE d # e
  <2>1. drawn' = RescanAndDraw(bars')
    BY <1>3, <1>4, <1>9 DEF Redraw
  <2>2. d = IF Smaller(Len(all), ScanBars) < MinBarsNeeded THEN [e EXCEPT !.scanned = Len(all)]
            ELSE [boxes |-> [t \in DOMAIN Tiers |-> Scan(t, all)], scanned |-> Len(all)]
    BY <1>4, <2>1 DEF RescanAndDraw
  <2>3. DrawnAt(d, Len(all), c)
    BY <1>5, <1>6, <2>2, Redraws
  <2> QED BY <1>1, <1>4, <2>3 DEF DrawInv
<1> QED BY <1>8, <1>9

LEMMA InitDraws == Init => DrawInv
<1> SUFFICES ASSUME Init PROVE DrawInv
  OBVIOUS
<1>1. drawn = [boxes |-> [t \in DOMAIN Tiers |-> {}], scanned |-> 0]
  BY DEF Init
<1>2. Len(bars) \in Nat /\ Len(bars) # 0
  BY InitAgrees DEF SwingInv
<1>3. PICK d, n, c : d = drawn /\ n = Len(bars) /\ c = Closed
  OBVIOUS
<1>4. d.boxes = [t \in DOMAIN Tiers |-> {}] /\ d.scanned = 0
  BY <1>1, <1>3
<1>5. d = [boxes |-> d.boxes, scanned |-> d.scanned]
  BY <1>1, <1>3
<1>6. d.scanned \in Nat /\ d.scanned <= n /\ d.scanned # n
  BY <1>2, <1>3, <1>4
<1>7. DrawnAt(d, n, c)
  BY <1>4, <1>5, <1>6 DEF DrawnAt
<1> QED BY <1>3, <1>7 DEF DrawInv

-----------------------------------------------------------------------------
(* The pane.                                                               *)

LEMMA Divides ==
  ASSUME NEW x \in Int, NEW d \in Nat \ {0}
  PROVE  x \div d \in Int /\ x % d \in 0..(d - 1) /\ x = d * (x \div d) + (x % d)
<1>1. x \div d \in Int
  OBVIOUS
<1>2. x % d \in 0..(d - 1)
  OBVIOUS
<1>3. x = d * (x \div d) + (x % d)
  BY Z3
<1> QED BY <1>1, <1>2, <1>3

LEMMA TimesGrows ==
  ASSUME NEW d \in Nat, NEW a \in Int, NEW b \in Int, a + 1 <= b
  PROVE  d * a + d <= d * b
<1>1. PICK c : c = b - a - 1
  OBVIOUS
<1>2. c \in Nat /\ b = a + 1 + c
  BY <1>1
<1>3. d * c \in Nat
  BY <1>2
<1>4. d * b = d * a + d + d * c
  BY <1>2, Z3
<1>5. d * a \in Int /\ d * b \in Int
  OBVIOUS
<1> QED BY <1>3, <1>4, <1>5

\* What is more stays no less when it is rounded.
LEMMA RoundingKeepsOrder ==
  ASSUME NEW d \in Nat \ {0}, NEW x \in Int, NEW y \in Int, x <= y
  PROVE  /\ RoundHalfEven(x, d) \in Int /\ RoundHalfEven(y, d) \in Int
         /\ RoundHalfEven(x, d) <= RoundHalfEven(y, d)
<1>1. PICK p, r, q, s : p = x \div d /\ r = x % d /\ q = y \div d /\ s = y % d
  OBVIOUS
<1>2. p \in Int /\ r \in 0..(d - 1) /\ x = d * p + r
  BY <1>1, Divides
<1>3. q \in Int /\ s \in 0..(d - 1) /\ y = d * q + s
  BY <1>1, Divides
<1>4. /\ RoundHalfEven(x, d) = IF 2 * r > d \/ (2 * r = d /\ p % 2 = 1) THEN p + 1 ELSE p
      /\ RoundHalfEven(y, d) = IF 2 * s > d \/ (2 * s = d /\ q % 2 = 1) THEN q + 1 ELSE q
  BY <1>1 DEF RoundHalfEven
<1>5. p <= q
  <2> SUFFICES ASSUME q + 1 <= p PROVE FALSE
    BY <1>2, <1>3
  <2>1. d * q + d <= d * p
    BY <1>2, <1>3, TimesGrows
  <2>2. PICK a, b : a = d * q /\ b = d * p
    OBVIOUS
  <2>3. a \in Int /\ b \in Int /\ x = b + r /\ y = a + s /\ a + d <= b
    BY <1>2, <1>3, <2>1, <2>2
  <2> QED BY <1>2, <1>3, <2>3
<1>6. CASE p < q
  BY <1>2, <1>3, <1>4, <1>6
<1>7. CASE p = q
  <2>1. PICK a : a = d * p
    OBVIOUS
  <2>2. a \in Int /\ x = a + r /\ y = a + s
    BY <1>2, <1>3, <1>7, <2>1
  <2>3. r <= s /\ r \in Int /\ s \in Int
    BY <1>2, <1>3, <2>2
  <2> QED BY <1>2, <1>4, <1>7, <2>3
<1> QED BY <1>2, <1>3, <1>5, <1>6, <1>7

\* What is read at a bar is read of the bars up to it.
LEMMA SameReadings ==
  ASSUME NEW i \in Nat, NEW other, NEW all, \A j \in 1..i : other[j] = all[j],
         NEW period \in Nat \ {0}, i > period
  PROVE  /\ TrueRangeSum(other, i, period) = TrueRangeSum(all, i, period)
         /\ EfficiencyRatio(other, i, period) = EfficiencyRatio(all, i, period)
<1> DEFINE first == i - period + 1
<1>1. first \in Nat /\ first > 1
  OBVIOUS
<1>2. \A j \in first..i : j \in 1..i /\ j - 1 \in 1..i
  BY <1>1
<1>3. \A j \in first..i : TrueRange(other, j) = TrueRange(all, j)
  BY <1>2 DEF TrueRange
<1>4. \A j \in first..i :
        Distance(other[j].close, other[j - 1].close) = Distance(all[j].close, all[j - 1].close)
  BY <1>2
<1> HIDE DEF first
<1>5. [j \in first..i |-> TrueRange(other, j)] = [j \in first..i |-> TrueRange(all, j)]
  BY <1>3
<1>6. [j \in first..i |-> Distance(other[j].close, other[j - 1].close)]
        = [j \in first..i |-> Distance(all[j].close, all[j - 1].close)]
  BY <1>4
<1>7. PathLength(other, i, period) = PathLength(all, i, period)
  BY <1>6 DEF PathLength, first
<1>8. other[i] = all[i] /\ other[i - period] = all[i - period]
  <2>1. i \in 1..i /\ i - period \in 1..i
    OBVIOUS
  <2> QED BY <2>1
<1>9. EfficiencyRatio(other, i, period) = EfficiencyRatio(all, i, period)
  BY <1>7, <1>8 DEF EfficiencyRatio
<1>10. TrueRangeSum(other, i, period) = TrueRangeSum(all, i, period)
  BY <1>5 DEF TrueRangeSum, first
<1> QED BY <1>9, <1>10

\* A buffer holds what a calculation over the bars gives, but for the warm-up and the last.
PaneAt(p, all) ==
  /\ p = [er |-> p.er, atr |-> p.atr, scaled |-> p.scaled, seen |-> p.seen]
  /\ p.seen \in Nat /\ p.seen <= Len(all)
  /\ Len(p.er) = p.seen /\ Len(p.atr) = p.seen /\ Len(p.scaled) = p.seen
  /\ \A i \in (Warmup + 1)..(p.seen - 1) :
       /\ p.er[i] = EfficiencyRatio(all, i, ErPeriod)
       /\ p.atr[i] = AtrSma(all, i)
       /\ p.scaled[i] = Scaled(p.atr, i)

PaneInv == PaneAt(pane, bars)

LEMMA WarmupIs ==
  /\ AtrPeriod \in Nat \ {0} /\ ErPeriod \in Nat \ {0} /\ ScalePeriod \in Nat \ {0}
  /\ Warmup \in Nat /\ Warmup > AtrPeriod /\ Warmup > ErPeriod
<1>1. AtrPeriod \in Nat \ {0} /\ ErPeriod \in Nat \ {0} /\ ScalePeriod \in Nat \ {0}
  BY ChartAssumption
<1> QED BY <1>1 DEF Warmup, Larger

\* Bars that come after what has been calculated leave it as it is.
LEMMA PaneStays ==
  ASSUME NEW p, NEW all, PaneAt(p, all), NEW other, Len(other) \in Nat, p.seen <= Len(other),
         \A j \in 1..(p.seen - 1) : other[j] = all[j]
  PROVE  PaneAt(p, other)
<1>1. ASSUME NEW i \in (Warmup + 1)..(p.seen - 1)
      PROVE  /\ EfficiencyRatio(other, i, ErPeriod) = EfficiencyRatio(all, i, ErPeriod)
             /\ AtrSma(other, i) = AtrSma(all, i)
  <2>1. /\ i \in Nat /\ i > AtrPeriod /\ i > ErPeriod
        /\ \A j \in 1..i : j \in 1..(p.seen - 1)
    BY WarmupIs DEF PaneAt
  <2>2. \A j \in 1..i : other[j] = all[j]
    BY <2>1
  <2>3. EfficiencyRatio(other, i, ErPeriod) = EfficiencyRatio(all, i, ErPeriod)
    BY <2>1, <2>2, WarmupIs, SameReadings
  <2>4. TrueRangeSum(other, i, AtrPeriod) = TrueRangeSum(all, i, AtrPeriod)
    BY <2>1, <2>2, WarmupIs, SameReadings
  <2> QED BY <2>3, <2>4 DEF AtrSma
<1> QED BY <1>1 DEF PaneAt

\* The pane that has calculated.
Calculated(p, all) ==
  LET n == Len(all)
      start == Larger(p.seen, Warmup + 1)
      Kept(buffer, i) == IF i <= Len(buffer) THEN buffer[i] ELSE None
      atr == [i \in 1..n |-> IF i < start THEN Kept(p.atr, i) ELSE AtrSma(all, i)]
  IN [er |-> [i \in 1..n |-> IF i < start THEN Kept(p.er, i)
                             ELSE EfficiencyRatio(all, i, ErPeriod)],
      atr |-> atr,
      scaled |-> [i \in 1..n |-> IF i < start THEN Kept(p.scaled, i) ELSE Scaled(atr, i)],
      seen |-> n]

LEMMA PaneCalculates ==
  ASSUME NEW p, NEW all, IsSeq(all), PaneAt(p, all), NEW q, q = Calculated(p, all)
  PROVE  PaneAt(q, all)
<1> DEFINE n == Len(all)
           start == Larger(p.seen, Warmup + 1)
           Kept(buffer, i) == IF i <= Len(buffer) THEN buffer[i] ELSE None
           atr == [i \in 1..n |-> IF i < start THEN Kept(p.atr, i) ELSE AtrSma(all, i)]
           er == [i \in 1..n |-> IF i < start THEN Kept(p.er, i) ELSE EfficiencyRatio(all, i, ErPeriod)]
           scaled == [i \in 1..n |-> IF i < start THEN Kept(p.scaled, i) ELSE Scaled(atr, i)]
<1>1. q = [er |-> er, atr |-> atr, scaled |-> scaled, seen |-> n]
  BY DEF Calculated
<1>2. n \in Nat /\ p.seen \in Nat /\ p.seen <= n /\ Warmup \in Nat
  BY WarmupIs DEF PaneAt, IsSeq
<1>3. /\ start \in Nat
      /\ \A i \in (Warmup + 1)..(n - 1) : i < start => i \in (Warmup + 1)..(p.seen - 1)
  BY <1>2 DEF Larger
<1>4. \A i \in (Warmup + 1)..(p.seen - 1) :
        /\ Kept(p.er, i) = EfficiencyRatio(all, i, ErPeriod)
        /\ Kept(p.atr, i) = AtrSma(all, i)
        /\ Kept(p.scaled, i) = Scaled(p.atr, i)
  <2> SUFFICES ASSUME NEW i \in (Warmup + 1)..(p.seen - 1)
               PROVE  /\ Kept(p.er, i) = EfficiencyRatio(all, i, ErPeriod)
                      /\ Kept(p.atr, i) = AtrSma(all, i)
                      /\ Kept(p.scaled, i) = Scaled(p.atr, i)
    OBVIOUS
  <2>1. i <= p.seen
    BY <1>2
  <2> QED BY <2>1 DEF PaneAt
<1> HIDE DEF Kept
<1>5. \A i \in 1..n : /\ er[i] = IF i < start THEN Kept(p.er, i) ELSE EfficiencyRatio(all, i, ErPeriod)
                      /\ atr[i] = IF i < start THEN Kept(p.atr, i) ELSE AtrSma(all, i)
  OBVIOUS
<1>6. \A i \in 1..n : scaled[i] = IF i < start THEN Kept(p.scaled, i) ELSE Scaled(atr, i)
  OBVIOUS
<1>7. Len(er) = n /\ Len(atr) = n /\ Len(scaled) = n
  BY <1>2
<1> HIDE DEF er, atr, scaled, start, n
<1>8. ASSUME NEW i \in (Warmup + 1)..(n - 1)
      PROVE  /\ er[i] = EfficiencyRatio(all, i, ErPeriod)
             /\ atr[i] = AtrSma(all, i)
             /\ scaled[i] = Scaled(atr, i)
  <2>1. i \in 1..n
    BY <1>2
  <2>2. CASE ~(i < start)
    BY <1>5, <1>6, <2>1, <2>2
  <2>3. CASE i < start
    <3>1. i \in (Warmup + 1)..(p.seen - 1)
      BY <1>3, <2>3
    <3>2. er[i] = EfficiencyRatio(all, i, ErPeriod) /\ atr[i] = AtrSma(all, i)
          /\ scaled[i] = Scaled(p.atr, i)
      BY <1>4, <1>5, <1>6, <2>1, <2>3, <3>1
    <3>3. ASSUME NEW j \in Larger(Warmup + 1, i - ScalePeriod + 1)..i PROVE atr[j] = p.atr[j]
      <4>1. j \in (Warmup + 1)..(p.seen - 1) /\ j \in 1..n /\ j < start
        BY <1>2, <1>3, <2>3, <3>1, WarmupIs DEF Larger
      <4>2. atr[j] = Kept(p.atr, j) /\ Kept(p.atr, j) = AtrSma(all, j)
        BY <1>4, <1>5, <4>1
      <4>3. p.atr[j] = AtrSma(all, j)
        BY <4>1 DEF PaneAt
      <4> QED BY <4>2, <4>3
    <3>4. /\ {atr[j] : j \in Larger(Warmup + 1, i - ScalePeriod + 1)..i}
               = {p.atr[j] : j \in Larger(Warmup + 1, i - ScalePeriod + 1)..i}
          /\ atr[i] = p.atr[i]
      <4>1. i \in Larger(Warmup + 1, i - ScalePeriod + 1)..i
        BY <1>2, <3>1, WarmupIs DEF Larger
      <4> QED BY <3>3, <4>1
    <3>5. Scaled(atr, i) = Scaled(p.atr, i)
      BY <3>4 DEF Scaled
    <3> QED BY <3>2, <3>5
  <2> QED BY <2>2, <2>3
<1>9. q.er = er /\ q.atr = atr /\ q.scaled = scaled /\ q.seen = n
  BY <1>1
<1>10. q = [er |-> q.er, atr |-> q.atr, scaled |-> q.scaled, seen |-> q.seen]
  BY <1>1, <1>9
<1>11. n <= n
  BY <1>2
<1> QED BY <1>2, <1>7, <1>8, <1>9, <1>10, <1>11 DEF PaneAt, n

LEMMA Recalculates == Recalculated(bars', pane.seen)
                        = IF Len(bars') <= Warmup THEN pane ELSE Calculated(pane, bars')
  BY DEF Recalculated, Calculated, StartFrom

LEMMA ShapePanes == ASSUME SwingInv, PaneInv, Shape PROVE PaneInv'
<1>1. /\ Len(bars') = Len(bars) /\ Len(bars) \in Nat
      /\ \A i \in 1..(Len(bars) - 1) : bars'[i] = bars[i]
  <2>1. /\ Closed \in Seq(Bars(Int)) /\ Len(bars') = Len(bars) /\ Len(bars) = Len(Closed) + 1
        /\ Len(Closed) \in Nat
    BY ShapeForms
  <2>2. ClosedBars = Len(bars) - 1 /\ \A i \in 1..ClosedBars : bars'[i] = bars[i]
    BY ShapeKeepsClosed DEF ClosedBars
  <2> QED BY <2>1, <2>2
<1>2. IsSeq(bars')
  BY ShapeAgrees, SeqIsSeq DEF SwingInv
<1>3. pane' = pane \/ pane' = Recalculated(bars', pane.seen)
  BY DEF Shape, OnCalculate
<1>4. PICK p, all, other, q : p = pane /\ all = bars /\ other = bars' /\ q = pane'
  OBVIOUS
<1>5. PaneAt(p, other)
  <2>1. PaneAt(p, all)
    BY <1>4 DEF PaneInv
  <2>2. Len(other) \in Nat /\ p.seen <= Len(other) /\ p.seen \in Nat
    BY <1>1, <1>4, <2>1 DEF PaneAt
  <2>3. \A j \in 1..(p.seen - 1) : other[j] = all[j]
    <3>1. Len(other) = Len(all) /\ \A i \in 1..(Len(other) - 1) : other[i] = all[i]
      BY <1>1, <1>4
    <3>2. \A j \in 1..(p.seen - 1) : j \in 1..(Len(other) - 1)
      BY <2>2
    <3> QED BY <3>1, <3>2
  <2> QED BY <2>1, <2>2, <2>3, PaneStays
<1>6. CASE q = p
  BY <1>4, <1>5, <1>6 DEF PaneInv
<1>7. CASE q # p
  <2>1. q = Calculated(p, other)
    BY <1>3, <1>4, <1>7, Recalculates
  <2>2. IsSeq(other)
    BY <1>2, <1>4
  <2>3. PaneAt(q, other)
    BY <1>5, <2>1, <2>2, PaneCalculates
  <2> QED BY <1>4, <2>3 DEF PaneInv
<1> QED BY <1>6, <1>7

LEMMA NextBarPanes == ASSUME SwingInv, PaneInv, NextBar PROVE PaneInv'
<1>1. /\ Len(bars') = Len(bars) + 1 /\ Len(bars) \in Nat
      /\ \A i \in 1..Len(bars) : bars'[i] = bars[i]
  <2>1. Len(bars') = Len(bars) + 1 /\ Len(bars) \in Nat
    BY NextForms
  <2>2. Len(bars) = ClosedBars + 1 /\ \A i \in 1..(ClosedBars + 1) : bars'[i] = bars[i]
    BY NextBarCloses
  <2> QED BY <2>1, <2>2
<1>2. IsSeq(bars')
  BY NextBarAgrees, SeqIsSeq DEF SwingInv
<1>3. pane' = pane \/ pane' = Recalculated(bars', pane.seen)
  BY DEF NextBar, OnCalculate
<1>4. PICK p, all, other, q : p = pane /\ all = bars /\ other = bars' /\ q = pane'
  OBVIOUS
<1>5. PaneAt(p, other)
  <2>1. PaneAt(p, all)
    BY <1>4 DEF PaneInv
  <2>2. Len(other) \in Nat /\ p.seen <= Len(other) /\ p.seen \in Nat /\ p.seen <= Len(all)
    BY <1>1, <1>4, <2>1 DEF PaneAt
  <2>3. \A j \in 1..(p.seen - 1) : other[j] = all[j]
    <3>1. Len(all) \in Nat /\ \A i \in 1..Len(all) : other[i] = all[i]
      BY <1>1, <1>4
    <3>2. \A j \in 1..(p.seen - 1) : j \in 1..Len(all)
      BY <2>2, <3>1
    <3> QED BY <3>1, <3>2
  <2> QED BY <2>1, <2>2, <2>3, PaneStays
<1>6. CASE q = p
  BY <1>4, <1>5, <1>6 DEF PaneInv
<1>7. CASE q # p
  <2>1. q = Calculated(p, other)
    BY <1>3, <1>4, <1>7, Recalculates
  <2>2. IsSeq(other)
    BY <1>2, <1>4
  <2>3. PaneAt(q, other)
    BY <1>5, <2>1, <2>2, PaneCalculates
  <2> QED BY <1>4, <2>3 DEF PaneInv
<1> QED BY <1>6, <1>7

LEMMA InitPanes == Init => PaneInv
<1> SUFFICES ASSUME Init PROVE PaneInv
  OBVIOUS
<1>1. Len(bars) \in Nat
  BY InitAgrees DEF SwingInv
<1>2. PICK p, all : p = pane /\ all = bars
  OBVIOUS
<1>3. p = [er |-> <<>>, atr |-> <<>>, scaled |-> <<>>, seen |-> 0]
  BY <1>2 DEF Init
<1>4. p.er = <<>> /\ p.atr = <<>> /\ p.scaled = <<>> /\ p.seen = 0
  BY <1>3
<1>5. p = [er |-> p.er, atr |-> p.atr, scaled |-> p.scaled, seen |-> p.seen]
  BY <1>3, <1>4
<1>6. 0 <= Len(all) /\ Len(<<>>) = 0 /\ 0 \in Nat
  BY <1>1, <1>2
<1>7. \A i \in (Warmup + 1)..(0 - 1) : FALSE
  BY WarmupIs
<1> QED BY <1>2, <1>4, <1>5, <1>6, <1>7 DEF PaneInv, PaneAt

\* A sum of numbers is a number.
LEMMA SumIsInt ==
  ASSUME NEW value, NEW first \in Int, NEW last \in Int, first - 1 <= last,
         \A j \in first..last : value[j] \in Int
  PROVE  SumOver(value, first, last) \in Int
<1>1. PICK f : /\ \A j \in (first - 1)..last : f[j] = SumAt(f, value, first, j)
               /\ SumOver(value, first, last) = f[last]
  BY SumGoesOn
<1> DEFINE Bad == {n \in Nat : first - 1 + n <= last /\ f[first - 1 + n] \notin Int}
<1>2. Bad = {}
  <2> SUFFICES ASSUME Bad # {} PROVE FALSE
    OBVIOUS
  <2>1. PICK n \in Bad : \A m \in Bad : n <= m
    BY LeastOf
  <2>2. PICK j : j = first - 1 + n
    OBVIOUS
  <2>3. n \in Nat /\ j \in Int /\ first - 1 <= j /\ j <= last /\ f[j] \notin Int
    BY <2>1, <2>2
  <2>4. f[j] = SumAt(f, value, first, j)
    <3>1. j \in (first - 1)..last
      BY <2>3
    <3> QED BY <1>1, <3>1
  <2>5. CASE n = 0
    <3>1. j < first
      BY <2>2, <2>5
    <3> QED BY <2>3, <2>4, <3>1 DEF SumAt
  <2>6. CASE n # 0
    <3>1. n - 1 \in Nat /\ ~(n <= n - 1) /\ first - 1 + (n - 1) = j - 1 /\ j - 1 <= last
      BY <2>2, <2>3, <2>6
    <3>2. n - 1 \notin Bad
      <4> HIDE DEF Bad
      <4> QED BY <2>1, <3>1
    <3>3. f[j - 1] \in Int
      BY <3>1, <3>2
    <3>4. ~(j < first) /\ j \in first..last
      BY <2>2, <2>3, <2>6
    <3>5. value[j] \in Int /\ f[j] = f[j - 1] + value[j]
      BY <2>4, <3>4 DEF SumAt
    <3> QED BY <2>3, <3>3, <3>5
  <2> QED BY <2>5, <2>6
<1>3. PICK n : n = last - (first - 1)
  OBVIOUS
<1>4. n \in Nat /\ first - 1 + n = last /\ first - 1 + n <= last
  BY <1>3
<1>5. f[first - 1 + n] \in Int
  BY <1>2, <1>4
<1> QED BY <1>1, <1>4, <1>5

LEMMA RangeSumIs ==
  ASSUME NEW all \in Seq(Bars(Int)), NEW period \in Nat \ {0}, NEW i \in 1..Len(all), i >= period
  PROVE  TrueRangeSum(all, i, period) \in Int
<1> DEFINE first == i - period + 1
           value == [j \in first..i |-> TrueRange(all, j)]
<1>1. first \in Int /\ i \in Int /\ first - 1 <= i /\ first >= 1 /\ Len(all) \in Nat
  OBVIOUS
<1>2. \A j \in first..i : value[j] \in Int
  <2> SUFFICES ASSUME NEW j \in first..i PROVE TrueRange(all, j) \in Int
    OBVIOUS
  <2>1. j \in 1..Len(all)
    BY <1>1
  <2>2. TrueRange(all, j) \in Nat
    BY <2>1, RangesAre
  <2> QED BY <2>2
<1> HIDE DEF value, first
<1>3. SumOver(value, first, i) \in Int
  BY <1>1, <1>2, SumIsInt
<1> QED BY <1>3 DEF TrueRangeSum, value, first

\* Where every earlier value is at or below the current one, the rank is full.
LEMMA RankIsFull ==
  ASSUME NEW ratio, NEW past, NEW i, ratio[i] # None, past # {},
         \A j \in past : ratio[j] # None /\ AtMost(ratio[j], ratio[i])
  PROVE  PercentileRank(ratio, past, i) = <<Cardinality(past), Cardinality(past)>>
<1> DEFINE measured == {j \in past : ratio[j] # None}
           below == {j \in measured : AtMost(ratio[j], ratio[i])}
<1>1. measured = past
  OBVIOUS
<1>2. below = past
  BY <1>1
<1>3. PercentileRank(ratio, past, i) = IF ratio[i] = None \/ measured = {} THEN None
                                       ELSE <<Cardinality(below), Cardinality(measured)>>
  BY DEF PercentileRank
<1> HIDE DEF measured, below
<1> QED BY <1>1, <1>2, <1>3

AreExtremes(low, high, S) == high \in S /\ (\A x \in S : x <= high) /\ low \in S

LEMMA ScaleHasExtremes ==
  ASSUME NEW a \in Int, NEW b \in Int, a <= b, NEW f, \A j \in a..b : f[j] \in Int
  PROVE  AreExtremes(Min({f[j] : j \in a..b}), Max({f[j] : j \in a..b}), {f[j] : j \in a..b})
<1>1. PICK S : S = {f[j] : j \in a..b}
  OBVIOUS
<1>2. Max(S) \in S /\ (\A x \in S : x <= Max(S)) /\ Min(S) \in S
  BY <1>1, ExtremesOf
<1> QED BY <1>1, <1>2 DEF AreExtremes

\* The buffers of a calculated bar and what the EA reads at it.
LEMMA PaneReads ==
  ASSUME NEW p, NEW all \in Seq(Bars(Int)), PaneAt(p, all),
         NEW i \in (Warmup + 1)..(p.seen - 1), NEW reading,
         reading = Reading(all, i, ErPeriod, AtrPeriod, ScalePeriod - 1)
  PROVE  /\ p.er[i] = reading.er
         /\ p.atr[i] = AtrSma(all, i)
         /\ i - ScalePeriod > Warmup /\ p.scaled[i][1] = p.scaled[i][2]
              => reading.atrRank[1] = reading.atrRank[2]
<1> DEFINE past == Larger(1, i - (ScalePeriod - 1))..(i - 1)
           er == [j \in past \cup {i} |-> EfficiencyRatio(all, j, ErPeriod)]
           atr == [j \in past \cup {i} |-> Atr(all, j, AtrPeriod)]
           ratio == [j \in DOMAIN atr |-> IF atr[j] = None THEN None ELSE <<atr[j], 1>>]
<1>1. /\ reading.er = EfficiencyRatio(all, i, ErPeriod)
      /\ reading.atrRank = PercentileRank(ratio, past, i)
  <2>1. /\ reading.er = er[i]
        /\ reading.atrRank = PercentileRank(ratio, past, i)
    BY DEF Reading
  <2> QED BY <2>1
<1>2. /\ p.er[i] = EfficiencyRatio(all, i, ErPeriod) /\ p.atr[i] = AtrSma(all, i)
      /\ p.scaled[i] = Scaled(p.atr, i)
  BY DEF PaneAt
<1>3. /\ i \in Nat /\ Len(all) \in Nat /\ i < Len(all) /\ i < p.seen /\ p.seen \in Nat
      /\ i >= Warmup + 1
  BY WarmupIs DEF PaneAt
<1>4. ASSUME i - ScalePeriod > Warmup, p.scaled[i][1] = p.scaled[i][2]
      PROVE  reading.atrRank[1] = reading.atrRank[2]
  <2>1. PICK lo : lo = i - ScalePeriod + 1
    OBVIOUS
  <2>2. /\ lo \in Int /\ Warmup + 1 < lo /\ lo <= i /\ Larger(Warmup + 1, i - ScalePeriod + 1) = lo
        /\ past = lo..(i - 1)
    <3>1. lo \in Int /\ Warmup + 1 < lo /\ lo <= i
      BY <1>3, <1>4, <2>1, WarmupIs
    <3>2. Larger(Warmup + 1, i - ScalePeriod + 1) = lo
      BY <2>1, <3>1, WarmupIs DEF Larger
    <3>3. i - (ScalePeriod - 1) = lo /\ 1 <= lo
      BY <1>3, <2>1, <3>1, WarmupIs
    <3>4. Larger(1, lo) = lo
      BY <3>1, <3>3 DEF Larger
    <3> QED BY <3>1, <3>2, <3>3, <3>4
  <2> DEFINE scale == {p.atr[j] : j \in lo..i}
  <2>3. Scaled(p.atr, i) = IF Max(scale) > Min(scale)
                           THEN <<p.atr[i] - Min(scale), Max(scale) - Min(scale)>>
                           ELSE <<1, 2>>
    BY <2>2 DEF Scaled
  <2>4. ASSUME NEW j \in lo..i
        PROVE  /\ p.atr[j] = TrueRangeSum(all, j, AtrPeriod) /\ p.atr[j] \in Int
               /\ Atr(all, j, AtrPeriod) = RoundHalfEven(TrueRangeSum(all, j, AtrPeriod), AtrPeriod)
    <3>1. /\ j \in (Warmup + 1)..(p.seen - 1) /\ j \in 1..Len(all) /\ j > AtrPeriod /\ j >= AtrPeriod
          /\ ~(j <= AtrPeriod) /\ ~(j < AtrPeriod) /\ AtrPeriod \in Nat \ {0}
      BY <1>3, <2>2, WarmupIs
    <3>2. p.atr[j] = AtrSma(all, j)
      BY <3>1 DEF PaneAt
    <3>3. TrueRangeSum(all, j, AtrPeriod) \in Int
      BY <3>1, RangeSumIs
    <3> QED BY <3>1, <3>2, <3>3 DEF AtrSma, Atr
  <2> HIDE DEF past, er, atr
  <2>5. PICK high, low : high = Max(scale) /\ low = Min(scale)
    OBVIOUS
  <2>6. /\ high \in scale /\ \A x \in scale : x <= high
        /\ low \in scale
    <3>1. \A j \in lo..i : p.atr[j] \in Int
      BY <2>4
    <3>2. /\ Max(scale) \in scale /\ \A x \in scale : x <= Max(scale)
          /\ Min(scale) \in scale
      <4>1. i \in Int /\ lo \in Int /\ lo <= i
        BY <1>3, <2>2
      <4>2. PICK f : f = p.atr
        OBVIOUS
      <4>3. \A j \in lo..i : f[j] \in Int
        BY <3>1, <4>2
      <4>4. AreExtremes(Min({f[j] : j \in lo..i}), Max({f[j] : j \in lo..i}), {f[j] : j \in lo..i})
        BY <4>1, <4>3, ScaleHasExtremes
      <4>5. AreExtremes(Min(scale), Max(scale), scale)
        BY <4>2, <4>4
      <4> HIDE DEF scale
      <4> QED BY <4>5 DEF AreExtremes
    <3> HIDE DEF scale
    <3> QED BY <2>5, <3>2
  <2>7. scale \subseteq Int
    BY <2>4
  <2>8. i \in lo..i
    BY <1>3, <2>2
  <2>9. p.atr[i] = high /\ low # high
    <3>1. p.atr[i] \in Int /\ high \in Int /\ low \in Int
      BY <2>4, <2>6, <2>7, <2>8
    <3>2. p.scaled[i] = IF high > low THEN <<p.atr[i] - low, high - low>> ELSE <<1, 2>>
      <4> HIDE DEF scale
      <4> QED BY <1>2, <2>3, <2>5
    <3>3. high > low
      <4> SUFFICES ASSUME ~(high > low) PROVE FALSE
        OBVIOUS
      <4>1. p.scaled[i] = <<1, 2>>
        BY <3>2
      <4>2. p.scaled[i][1] = 1 /\ p.scaled[i][2] = 2
        BY <4>1
      <4>3. 1 = 2
        BY <1>4, <4>2, Zenon
      <4> QED BY <4>3
    <3>4. p.scaled[i] = <<p.atr[i] - low, high - low>>
      BY <3>2, <3>3
    <3>5. p.atr[i] - low = high - low
      <4>1. p.scaled[i][1] = p.atr[i] - low /\ p.scaled[i][2] = high - low
        BY <3>4
      <4> QED BY <1>4, <4>1
    <3> QED BY <3>1, <3>3, <3>5
  <2>10. past # {}
    <3>1. PICK j \in lo..i : low = p.atr[j]
      BY <2>6
    <3>2. j # i
      BY <2>9, <3>1
    <3>3. j \in lo..(i - 1)
      BY <1>3, <2>2, <3>2
    <3> QED BY <2>2, <3>3
  <2>11. \A j \in past : j \in lo..i
    BY <1>3, <2>2
  <2>12. ASSUME NEW j \in past \cup {i}
         PROVE  /\ Atr(all, j, AtrPeriod) \in Int /\ ratio[j] = <<Atr(all, j, AtrPeriod), 1>>
                /\ ratio[j] # None
                /\ Atr(all, j, AtrPeriod) <= Atr(all, i, AtrPeriod)
    <3>1. j \in lo..i
      BY <2>8, <2>11
    <3>2. PICK x, y : x = TrueRangeSum(all, j, AtrPeriod) /\ y = TrueRangeSum(all, i, AtrPeriod)
      OBVIOUS
    <3>3. /\ x = p.atr[j] /\ x \in Int /\ Atr(all, j, AtrPeriod) = RoundHalfEven(x, AtrPeriod)
          /\ y = p.atr[i] /\ y \in Int /\ Atr(all, i, AtrPeriod) = RoundHalfEven(y, AtrPeriod)
      BY <2>4, <2>8, <3>1, <3>2
    <3>4. x <= y
      <4>1. x \in scale
        BY <3>1, <3>3
      <4> HIDE DEF scale
      <4> QED BY <2>6, <2>9, <3>3, <4>1
    <3>5. /\ RoundHalfEven(x, AtrPeriod) \in Int
          /\ RoundHalfEven(x, AtrPeriod) <= RoundHalfEven(y, AtrPeriod)
      BY <3>3, <3>4, RoundingKeepsOrder, WarmupIs
    <3>6. PICK a : a = Atr(all, j, AtrPeriod)
      OBVIOUS
    <3>7. a \in Int /\ a # None /\ <<a, 1>> # None
      <4>1. a \in Int
        BY <3>3, <3>5, <3>6
      <4>2. <<a, 1>> \in Int \X Int
        BY <4>1
      <4> QED BY <4>1, <4>2, RatioAssumption
    <3>8. DOMAIN atr = past \cup {i} /\ atr[j] = a
      BY <3>6 DEF atr
    <3>9. ratio[j] = <<a, 1>>
      BY <3>7, <3>8
    <3> HIDE DEF ratio
    <3> QED BY <3>3, <3>5, <3>6, <3>7, <3>9
  <2>13. \A j \in past : ratio[j] # None /\ AtMost(ratio[j], ratio[i])
    <3> HIDE DEF ratio
    <3> SUFFICES ASSUME NEW j \in past PROVE ratio[j] # None /\ AtMost(ratio[j], ratio[i])
      OBVIOUS
    <3>1. PICK a, b : a = Atr(all, j, AtrPeriod) /\ b = Atr(all, i, AtrPeriod)
      OBVIOUS
    <3>2. a \in Int /\ b \in Int /\ a <= b /\ ratio[j] = <<a, 1>> /\ ratio[i] = <<b, 1>> /\ ratio[j] # None
      BY <2>12, <3>1
    <3>3. ratio[j][1] = a /\ ratio[j][2] = 1 /\ ratio[i][1] = b /\ ratio[i][2] = 1
      BY <3>2
    <3>4. a * 1 <= b * 1
      BY <3>2
    <3> QED BY <3>2, <3>3, <3>4 DEF AtMost
  <2>14. ratio[i] # None
    <3> HIDE DEF ratio
    <3> QED BY <2>12
  <2> HIDE DEF ratio
  <2>15. PercentileRank(ratio, past, i) = <<Cardinality(past), Cardinality(past)>>
    BY <2>10, <2>13, <2>14, RankIsFull
  <2>16. reading.atrRank = <<Cardinality(past), Cardinality(past)>>
    BY <1>1, <2>15
  <2> QED BY <2>16
<1> HIDE DEF past, er, atr, ratio
<1> QED BY <1>1, <1>2, <1>4

LEMMA PaneSound == ASSUME SwingInv, PaneInv PROVE PaneShowsReadings
<1> SUFFICES ASSUME pane.seen = Len(bars), NEW i \in (Warmup + 1)..Len(Closed)
             PROVE  LET reading == Reading(bars, i, ErPeriod, AtrPeriod, ScalePeriod - 1)
                    IN /\ pane.er[i] = reading.er
                       /\ pane.atr[i] = AtrSma(bars, i)
                       /\ /\ i - ScalePeriod > Warmup
                          /\ pane.scaled[i][1] = pane.scaled[i][2]
                          => reading.atrRank[1] = reading.atrRank[2]
  BY DEF PaneShowsReadings
<1>1. PICK p, all, reading : /\ p = pane /\ all = bars
                             /\ reading = Reading(all, i, ErPeriod, AtrPeriod, ScalePeriod - 1)
  OBVIOUS
<1>2. all \in Seq(Bars(Int)) /\ PaneAt(p, all)
  BY <1>1 DEF SwingInv, PaneInv
<1>3. i \in (Warmup + 1)..(p.seen - 1)
  <2>1. Len(bars) = Len(Closed) + 1 /\ Len(Closed) \in Nat
    BY ClosedGrows DEF SwingInv, Closed, Continues
  <2>2. p.seen - 1 = Len(Closed)
    BY <1>1, <2>1
  <2> QED BY <2>2
<1>4. /\ p.er[i] = reading.er
      /\ p.atr[i] = AtrSma(all, i)
      /\ i - ScalePeriod > Warmup /\ p.scaled[i][1] = p.scaled[i][2]
           => reading.atrRank[1] = reading.atrRank[2]
  BY <1>1, <1>2, <1>3, PaneReads
<1> QED BY <1>1, <1>4


-----------------------------------------------------------------------------
(* What the chart shows is current.                                        *)

Formed(all) ==
  \A i \in (Len(History) + 1)..Len(all) :
    all[i] \in ShapesAt[i] \cup {Opening(b.open) : b \in ShapesAt[i]}

ChartInv == SwingInv /\ Formed(bars) /\ DrawInv /\ PaneInv

\* A bar that may come next is formed like those before it.
LEMMA FormsOn ==
  ASSUME NEW front \in Seq(Bars(Int)), NEW b, b \in Bars(Int),
         \A i \in (Len(History) + 1)..Len(front) :
           front[i] \in ShapesAt[i] \cup {Opening(c.open) : c \in ShapesAt[i]},
         b \in ShapesAt[Len(front) + 1] \cup {Opening(c.open) : c \in ShapesAt[Len(front) + 1]}
  PROVE  Formed(Append(front, b))
<1>1. PICK all, n : all = Append(front, b) /\ n = Len(front)
  OBVIOUS
<1>2. /\ n \in Nat /\ Len(all) = n + 1 /\ all[n + 1] = b
      /\ \A i \in 1..n : all[i] = front[i]
  BY <1>1, AppendProperties
<1>3. ASSUME NEW i \in (Len(History) + 1)..Len(all)
      PROVE  all[i] \in ShapesAt[i] \cup {Opening(c.open) : c \in ShapesAt[i]}
  <2>1. i = n + 1 \/ (i \in 1..n /\ i \in (Len(History) + 1)..n)
    BY <1>2, HistoryIsBars
  <2>2. CASE i = n + 1
    BY <1>1, <1>2, <2>2
  <2>3. CASE i # n + 1
    BY <1>1, <1>2, <2>1, <2>3
  <2> QED BY <2>2, <2>3
<1>4. Formed(all)
  BY <1>3 DEF Formed
<1> QED BY <1>1, <1>4

LEMMA InitForms == Init => Formed(bars)
<1> SUFFICES ASSUME Init PROVE Formed(bars)
  OBVIOUS
<1>1. PICK b \in ShapesAt[Len(History) + 1] : bars = Append(History, Opening(b.open))
  BY DEF Init
<1>2. PICK h, c : h = History /\ c = Opening(b.open)
  OBVIOUS
<1>3. c \in Bars(Int)
  <2>1. b \in Bars(Int)
    BY <1>1, HistoryIsBars, ChartAssumption
  <2> QED BY <1>2, <2>1, OpeningIsABar
<1>4. h \in Seq(Bars(Int)) /\ Len(h) \in Nat /\ Len(h) = Len(History)
  BY <1>2, HistoryIsBars
<1>5. \A i \in (Len(History) + 1)..Len(h) : FALSE
  BY <1>4
<1>6. c \in {Opening(d.open) : d \in ShapesAt[Len(h) + 1]}
  BY <1>1, <1>2
<1>7. Formed(Append(h, c))
  BY <1>3, <1>4, <1>5, <1>6, FormsOn
<1> QED BY <1>1, <1>2, <1>7

LEMMA ShapeIsFormed == ASSUME SwingInv, Formed(bars), Shape PROVE Formed(bars')
<1>1. /\ Closed \in Seq(Bars(Int)) /\ Len(bars) = Len(Closed) + 1 /\ Len(Closed) \in Nat
      /\ \E b \in ShapesAt[Len(bars)] : b \in Bars(Int) /\ bars' = Append(Closed, b)
  BY ShapeForms
<1>2. PICK b \in ShapesAt[Len(bars)] : b \in Bars(Int) /\ bars' = Append(Closed, b)
  BY <1>1
<1>3. PICK c, all : c = Closed /\ all = bars
  OBVIOUS
<1>4. c \in Seq(Bars(Int)) /\ Len(all) = Len(c) + 1 /\ Len(c) \in Nat /\ \A i \in 1..Len(c) : c[i] = all[i]
  <2>1. Continues(Closed, bars)
    BY <1>1, ClosedGrows DEF SwingInv, Closed
  <2> QED BY <1>1, <1>3, <2>1 DEF Continues
<1>5. ASSUME NEW i \in (Len(History) + 1)..Len(c)
      PROVE  c[i] \in ShapesAt[i] \cup {Opening(d.open) : d \in ShapesAt[i]}
  <2>1. i \in 1..Len(c) /\ i \in (Len(History) + 1)..Len(all)
    BY <1>4, HistoryIsBars
  <2>2. all[i] \in ShapesAt[i] \cup {Opening(d.open) : d \in ShapesAt[i]}
    BY <1>3, <2>1 DEF Formed
  <2> QED BY <1>4, <2>1, <2>2
<1>6. b \in ShapesAt[Len(c) + 1] /\ b \in Bars(Int)
  BY <1>1, <1>2, <1>3
<1>7. Formed(Append(c, b))
  BY <1>4, <1>5, <1>6, FormsOn
<1> QED BY <1>2, <1>3, <1>7

LEMMA NextIsFormed == ASSUME SwingInv, Formed(bars), NextBar PROVE Formed(bars')
<1>1. /\ bars \in Seq(Bars(Int))
      /\ \E b \in ShapesAt[Len(bars) + 1] :
           Opening(b.open) \in Bars(Int) /\ bars' = Append(bars, Opening(b.open))
  BY NextForms
<1>2. PICK b \in ShapesAt[Len(bars) + 1] :
        Opening(b.open) \in Bars(Int) /\ bars' = Append(bars, Opening(b.open))
  BY <1>1
<1>3. PICK all, c : all = bars /\ c = Opening(b.open)
  OBVIOUS
<1>4. \A i \in (Len(History) + 1)..Len(all) :
        all[i] \in ShapesAt[i] \cup {Opening(d.open) : d \in ShapesAt[i]}
  BY <1>3 DEF Formed
<1>5. c \in {Opening(d.open) : d \in ShapesAt[Len(all) + 1]} /\ c \in Bars(Int) /\ all \in Seq(Bars(Int))
  BY <1>1, <1>2, <1>3
<1>6. Formed(Append(all, c))
  BY <1>4, <1>5, FormsOn
<1> QED BY <1>2, <1>3, <1>6

LEMMA ChartSound == ChartInv => ChartIsCurrent
<1> SUFFICES ASSUME ChartInv PROVE ChartIsCurrent
  OBVIOUS
<1>1. TypeOK
  <2>1. DrawnAt(drawn, Len(bars), Closed) /\ PaneAt(pane, bars) /\ Formed(bars)
    BY DEF ChartInv, DrawInv, PaneInv
  <2>2. drawn.scanned <= Len(bars) /\ \A t \in DOMAIN Tiers : \A b \in drawn.boxes[t] : b.right > b.pivot
    BY <2>1 DEF DrawnAt
  <2>3. pane.seen <= Len(bars) /\ {Len(pane.er), Len(pane.atr), Len(pane.scaled)} = {pane.seen}
    BY <2>1 DEF PaneAt
  <2>4. \A i \in (Len(History) + 1)..Len(bars) :
          bars[i] \in ShapesAt[i] \cup {Opening(b.open) : b \in ShapesAt[i]}
    BY <2>1 DEF Formed
  <2> QED BY <2>2, <2>3, <2>4 DEF TypeOK
<1>2. DrawnAsDecided /\ PaneShowsReadings
  BY DrawnSound, PaneSound DEF ChartInv
<1> QED BY <1>1, <1>2 DEF ChartIsCurrent

\* However the bars take shape and whenever the terminal was away: of the pivots whose average
\* lies within the scanned bars the settled boxes are swings the EA decided and every swing it
\* decided has its box (VO_Swings.mq5:150), the pane's buffers hold what one calculation over all
\* bars gives, and its highest average is the EA's (VO_EntryTiming.mq5:140, entry_timing.py:92).
THEOREM ChartStaysCurrent == ObservationSpec => []ChartIsCurrent
<1>1. ObservationInit => ChartInv
  BY InitAgrees, InitForms, InitDraws, InitPanes DEF ObservationInit, ChartInv
<1>2. ChartInv /\ [ObservationNext]_<<vars, observed>> => ChartInv'
  <2> SUFFICES ASSUME ChartInv, [ObservationNext]_<<vars, observed>> PROVE ChartInv'
    OBVIOUS
  <2>1. SwingInv /\ Formed(bars) /\ DrawInv /\ PaneInv
    BY DEF ChartInv
  <2>2. CASE Shape /\ UNCHANGED observed
    BY <2>1, <2>2, ShapeAgrees, ShapeIsFormed, ShapeDraws, ShapePanes DEF ChartInv
  <2>3. CASE NextBar /\ Observe
    BY <2>1, <2>3, NextBarAgrees, NextIsFormed, NextBarDraws, NextBarPanes DEF ChartInv
  <2>4. CASE UNCHANGED <<vars, observed>>
    <3>1. bars' = bars /\ engines' = engines /\ drawn' = drawn /\ pane' = pane
      BY <2>4 DEF vars
    <3>2. SwingInv' /\ Formed(bars)'
      BY <2>1, <3>1 DEF SwingInv, Closed, Formed
    <3>3. DrawInv' /\ PaneInv'
      BY <2>1, <3>1 DEF DrawInv, PaneInv, Closed
    <3> QED BY <3>2, <3>3 DEF ChartInv
  <2> QED BY <2>2, <2>3, <2>4 DEF ObservationNext
<1>3. ChartInv => ChartIsCurrent
  BY ChartSound
<1> QED BY <1>1, <1>2, <1>3, PTL DEF ObservationSpec


=============================================================================
