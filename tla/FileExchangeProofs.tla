-------------------------- MODULE FileExchangeProofs --------------------------
(***************************************************************************)
(* Theorems about the two files that one program rewrites and another reads *)
(* on timers of their own: the calendar snapshot behind the news gate, for  *)
(* any events, any calendar and any periods of the three timers, and the    *)
(* feed file behind the charts, for any bars, any log of the engine, any    *)
(* chart frame and any number of renames tried.                             *)
(***************************************************************************)
EXTENDS NewsCalendar, FeedExchange, FiniteSetTheorems, SequenceTheorems,
        WellFoundedInduction, TLAPS

(***************************************************************************)
(* The news gate.  What a dispatch is judged by is three steps old: the     *)
(* calendar as the bridge asked for it, the file as the runtime read it,    *)
(* the cache as the poll left it.  What a reader of any of them sees is     *)
(* right of every event that has stood still since the step before it       *)
(* (Shows), unless something went wrong since; and each step is at most one *)
(* timer old (OnTime).                                                      *)
(***************************************************************************)
NewsShapes ==
  /\ file \in [lines : Seq(Lines), open : BOOLEAN]
  /\ bridge \in [up : BOOLEAN, todo : SUBSET Lines, fired : Nat]
  /\ runtime \in [up : BOOLEAN, cache : SUBSET Lines, read : Nat, polled : Nat,
                  judging : BOOLEAN]
  /\ {now, calm} \subseteq Nat
  /\ verdict.by \subseteq Lines

OnTime ==
  /\ bridge.up => bridge.fired <= now /\ now <= bridge.fired + RefreshEvery
  /\ ~bridge.up => calm = now
  /\ runtime.up => /\ runtime.polled < runtime.read + ReadEvery
                   /\ now <= runtime.polled + PollEvery

\* Of an event that has stood since before the calendar was asked, these lines show where
\* it stands, and show it if they were asked for it.
Shows(some, asked) ==
  \A e \in Events :
    settled[e] < asked =>
      /\ \A l \in some : l.event = e => calendar[e] # Unscheduled /\ l.at = Labelled(calendar[e])
      /\ InBridgeScope(e) /\ AskedFor(e, asked) => [event |-> e, at |-> Labelled(calendar[e])] \in some

\* The lines of a set of values.
LabelledLines(values) == {LineOf(l) : l \in values}

SnapshotShows ==
  bridge.up /\ calm < bridge.fired =>
    Shows(ToSet(file.lines) \cup LabelledLines(bridge.todo), bridge.fired)

\* The snapshot that was read may have been as old as the bridge's timer.
CacheShows ==
  runtime.up /\ calm + RefreshEvery < runtime.read =>
    \E asked \in Nat :
      /\ asked <= runtime.read /\ runtime.read <= asked + RefreshEvery
      /\ Shows(runtime.cache, asked)

NewsInv ==
  NewsTypeOK /\ NewsShapes /\ OnTime /\ SnapshotShows /\ CacheShows /\ KnownEventsBlock /\ NoFalseBlackout

-----------------------------------------------------------------------------
LEMMA Periods ==
  /\ RefreshEvery \in Nat \ {0} /\ ReadEvery \in Nat \ {0} /\ PollEvery \in Nat \ {0}
  /\ Staleness = RefreshEvery + ReadEvery + PollEvery
  BY TimingAssumption DEF Staleness

\* The terminal's clock and what the bridge makes of it, at the times there are.
LEMMA Clocks ==
  ASSUME NewsTypeOK, NEW t \in 0..now \cup Releases
  PROVE  /\ t \in Nat
         /\ ServerAhead(t) \in Int /\ UtcOffset \in Int
         /\ ServerTime(t) = t + ServerAhead(t)
         /\ Labelled(t) = t + ServerAhead(t) + UtcOffset
         /\ Drift(t) = ServerAhead(t) + UtcOffset
<1>1. now \in 0..MaxTime /\ MaxTime \in Nat /\ Releases \subseteq Nat
  BY TimingAssumption DEF NewsTypeOK
<1>2. t \in 0..MaxTime \cup Releases /\ t \in Nat
  BY <1>1
<1>3. ServerAhead(t) \in Int /\ UtcOffset \in Int
  BY <1>2, TimingAssumption
<1> QED BY <1>2, <1>3 DEF ServerTime, Labelled, CalendarTimeToUtc, Drift

LEMMA LabelledLinesType ==
  ASSUME NEW values, values \subseteq Lines
  PROVE  LabelledLines(values) \subseteq Lines
  BY TimingAssumption DEF LabelledLines, LineOf, Lines, CalendarTimeToUtc

LEMMA ValuesType ==
  ASSUME NewsTypeOK
  PROVE  Values(now) \subseteq Lines
<1>1. ASSUME NEW e \in Events, AskedFor(e, now) PROVE ServerTime(calendar[e]) \in Int
  <2>1. calendar[e] \in Releases
    BY <1>1 DEF AskedFor, NewsTypeOK
  <2>2. /\ calendar[e] \in Nat /\ ServerAhead(calendar[e]) \in Int
        /\ ServerTime(calendar[e]) = calendar[e] + ServerAhead(calendar[e])
    BY <2>1, Clocks
  <2> QED BY <2>2
<1> QED BY <1>1 DEF Values, Lines

(* What is shown stays shown: an event that moves no longer counts.         *)

CalendarMoves == UNCHANGED <<calendar, settled>> \/ Provider

LEMMA CalendarStep ==
  ASSUME NewsTypeOK, CalendarMoves
  PROVE  \A e \in Events :
           /\ settled'[e] \in Nat
           /\ settled'[e] = settled[e] \/ settled'[e] = now
           /\ settled'[e] < now => settled'[e] = settled[e] /\ calendar'[e] = calendar[e]
<1>1. now \in Nat /\ \A e \in Events : settled[e] \in 0..now
  BY TimingAssumption DEF NewsTypeOK
<1>2. CASE UNCHANGED <<calendar, settled>>
  BY <1>1, <1>2
<1>3. CASE Provider
  <2>1. PICK e \in Events, at \in Releases \cup {Unscheduled} : Schedule(e, at)
    BY <1>3 DEF Provider
  <2>2. settled' = [settled EXCEPT ![e] = now] /\ calendar' = [calendar EXCEPT ![e] = at]
    BY <2>1 DEF Schedule
  <2> QED BY <1>1, <2>2 DEF NewsTypeOK
<1> QED BY <1>2, <1>3 DEF CalendarMoves

LEMMA ShowsKept ==
  ASSUME NewsTypeOK, CalendarMoves, NEW some, NEW asked \in Nat, asked <= now, Shows(some, asked)
  PROVE  Shows(some, asked)'
<1>1. now \in Nat
  BY TimingAssumption DEF NewsTypeOK
<1>2. \A e \in Events : settled'[e] < asked =>
                         settled'[e] = settled[e] /\ calendar'[e] = calendar[e]
  BY <1>1, CalendarStep
<1> QED BY <1>2 DEF Shows, AskedFor

LEMMA SnapshotKept ==
  ASSUME NewsInv, CalendarMoves, calm' \in {calm, now, now + 1},
         bridge'.up => bridge.up /\ bridge'.fired = bridge.fired,
         bridge'.up => ToSet(file'.lines) \cup LabelledLines(bridge'.todo)
                         = ToSet(file.lines) \cup LabelledLines(bridge.todo)
  PROVE  SnapshotShows'
<1> SUFFICES ASSUME bridge'.up, calm' < bridge'.fired
             PROVE  Shows(ToSet(file.lines) \cup LabelledLines(bridge.todo), bridge.fired)'
  BY DEF SnapshotShows, LabelledLines
<1>1. bridge.up /\ bridge.fired \in Nat /\ bridge.fired <= now /\ now \in Nat /\ calm \in Nat
  BY DEF NewsInv, NewsShapes, OnTime
<1>2. calm < bridge.fired
  BY <1>1
<1> DEFINE some == ToSet(file.lines) \cup LabelledLines(bridge.todo)
<1>3. Shows(some, bridge.fired)
  BY <1>1, <1>2 DEF NewsInv, SnapshotShows
<1>4. PICK X, f : X = some /\ f = bridge.fired
  OBVIOUS
<1>5. Shows(X, f)'
  BY <1>1, <1>3, <1>4, ShowsKept DEF NewsInv
<1>6. X = (ToSet(file.lines) \cup LabelledLines(bridge.todo))' /\ f = bridge'.fired
  BY <1>4 DEF LabelledLines
<1> QED BY <1>5, <1>6 DEF Shows, AskedFor, LabelledLines

LEMMA CacheKept ==
  ASSUME NewsInv, CalendarMoves, calm' \in {calm, now, now + 1},
         runtime'.up => /\ runtime.up
                        /\ runtime'.cache = runtime.cache /\ runtime'.read = runtime.read
  PROVE  CacheShows'
<1> SUFFICES ASSUME runtime'.up, calm' + RefreshEvery < runtime'.read
             PROVE  \E asked \in Nat :
                      /\ asked <= runtime.read /\ runtime.read <= asked + RefreshEvery
                      /\ Shows(runtime.cache, asked)'
  BY DEF CacheShows, Shows, AskedFor
<1>1. /\ runtime.up /\ runtime.read \in Nat /\ runtime.read <= now
      /\ now \in Nat /\ calm \in Nat /\ calm <= now /\ RefreshEvery \in Nat
  BY TimingAssumption DEF NewsInv, NewsShapes, NewsTypeOK
<1>2. calm + RefreshEvery < runtime.read
  BY <1>1
<1>3. PICK asked \in Nat : /\ asked <= runtime.read /\ runtime.read <= asked + RefreshEvery
                           /\ Shows(runtime.cache, asked)
  BY <1>1, <1>2 DEF NewsInv, CacheShows
<1>4. PICK X : X = runtime.cache
  OBVIOUS
<1>5. Shows(X, asked)'
  BY <1>1, <1>3, <1>4, ShowsKept DEF NewsInv
<1>6. Shows(runtime.cache, asked)'
  BY <1>1, <1>4, <1>5 DEF Shows, AskedFor
<1> QED BY <1>3, <1>6

LEMMA VerdictKept ==
  ASSUME NewsInv, CalendarMoves, now' = now, calm' \in {calm, now}, UNCHANGED verdict
  PROVE  (KnownEventsBlock /\ NoFalseBlackout)'
<1>1. now \in Nat /\ calm \in Nat /\ Staleness \in Nat /\ Staleness > 0
  BY Periods DEF NewsInv, NewsShapes
<1>2. ASSUME NEW e \in Events, Known(e)'
      PROVE  Known(e) /\ calendar'[e] = calendar[e]
  <2>1. settled'[e] \in Nat /\ settled'[e] + Staleness <= now /\ calm' + Staleness <= now
    BY <1>2, CalendarStep DEF NewsInv, Known
  <2>2. settled'[e] < now /\ calm' # now
    <3>1. \A s, n, d \in Nat : d > 0 /\ s + d <= n => s < n
      OBVIOUS
    <3>2. calm' \in Nat
      BY <1>1
    <3>3. settled'[e] < now
      BY <1>1, <2>1, <3>1
    <3>4. calm' < now
      BY <1>1, <2>1, <3>1, <3>2
    <3> QED BY <1>1, <3>2, <3>3, <3>4
  <2>3. settled'[e] = settled[e] /\ calendar'[e] = calendar[e]
    BY <2>2, CalendarStep DEF NewsInv
  <2> QED BY <2>1, <2>2, <2>3 DEF Known
<1>3. KnownEventsBlock'
  <2>1. InReach' <=> InReach
    BY DEF InReach
  <2>2. ASSUME NEW e \in Events, Known(e)', Wanted(e)' PROVE Known(e) /\ Wanted(e)
    BY <1>2, <2>2 DEF Wanted
  <2> QED BY <1>2, <2>1, <2>2 DEF NewsInv, KnownEventsBlock
<1>4. NoFalseBlackout'
  BY <1>2 DEF NewsInv, NoFalseBlackout, NewsShapes, Lines
<1> QED BY <1>3, <1>4


-----------------------------------------------------------------------------
(* The bridge.                                                             *)

LEMMA ScheduleInv ==
  ASSUME NewsInv, Provider
  PROVE  NewsInv'
<1>1. PICK e \in Events, at \in Releases \cup {Unscheduled} : Schedule(e, at)
  BY DEF Provider
<1>2. /\ CalendarMoves
      /\ UNCHANGED <<now, file, bridge, runtime, verdict, calm, faults>>
  BY <1>1 DEF CalendarMoves, Schedule
<1>3. NewsTypeOK'
  <2>1. calendar' = [calendar EXCEPT ![e] = at] /\ settled' = [settled EXCEPT ![e] = now]
    BY <1>1 DEF Schedule
  <2>2. now \in 0..now
    BY DEF NewsInv, NewsShapes
  <2> QED BY <1>2, <2>1, <2>2 DEF NewsInv, NewsTypeOK
<1>4. NewsShapes' /\ OnTime'
  BY <1>2 DEF NewsInv, NewsShapes, OnTime
<1>5. SnapshotShows'
  BY <1>2, SnapshotKept
<1>6. CacheShows'
  BY <1>2, CacheKept
<1>7. (KnownEventsBlock /\ NoFalseBlackout)'
  BY <1>2, VerdictKept
<1> QED BY <1>3, <1>4, <1>5, <1>6, <1>7 DEF NewsInv

(* What a step of the bridge leaves to be shown of it.                     *)
LEMMA BridgeKeeps ==
  ASSUME NewsInv, NoFault \/ Fault, UNCHANGED <<now, calendar, settled, runtime, verdict>>,
         file' \in [lines : Seq(Lines), open : BOOLEAN],
         bridge' \in [up : BOOLEAN, todo : SUBSET Lines, fired : Nat],
         ~file'.open => bridge'.todo = {}, file'.open => bridge'.up,
         bridge'.up => bridge'.fired <= now /\ now <= bridge'.fired + RefreshEvery,
         ~bridge'.up => calm' = now,
         SnapshotShows'
  PROVE  NewsInv'
<1>1. CalendarMoves /\ calm' \in {calm, now} /\ calm' \in Nat /\ calm' <= now /\ now \in Nat
  BY DEF CalendarMoves, NewsInv, NewsShapes, NewsTypeOK, Fault, NoFault
<1>2. NewsTypeOK'
  BY <1>1 DEF NewsInv, NewsTypeOK
<1>3. NewsShapes' /\ OnTime'
  BY <1>1 DEF NewsInv, NewsShapes, OnTime
<1>4. CacheShows'
  BY <1>1, CacheKept
<1>5. (KnownEventsBlock /\ NoFalseBlackout)'
  BY <1>1, VerdictKept
<1> QED BY <1>2, <1>3, <1>4, <1>5 DEF NewsInv

LEMMA BridgeInv ==
  ASSUME NewsInv, Bridge
  PROVE  NewsInv'
<1>0. /\ now \in Nat /\ calm \in Nat /\ calm <= now /\ RefreshEvery \in Nat \ {0}
      /\ file \in [lines : Seq(Lines), open : BOOLEAN]
      /\ bridge \in [up : BOOLEAN, todo : SUBSET Lines, fired : Nat]
      /\ ~file.open => bridge.todo = {}
      /\ file.open => bridge.up
      /\ bridge.up => bridge.fired <= now /\ now <= bridge.fired + RefreshEvery
      /\ ~bridge.up => calm = now
  BY Periods DEF NewsInv, NewsShapes, NewsTypeOK, OnTime
<1>1. CASE Refresh
  <2>1. /\ file' = [lines |-> NoLines, open |-> TRUE]
        /\ bridge' = [up |-> TRUE, todo |-> Values(now), fired |-> now]
        /\ NoFault /\ UNCHANGED <<now, calendar, settled, runtime, verdict>>
    BY <1>1 DEF Refresh, OpenSnapshot
  <2>2. Values(now) \subseteq Lines
    BY ValuesType DEF NewsInv
  <2>3. NoLines \in Seq(Lines) /\ ToSet(NoLines) = {}
    BY DEF NoLines, ToSet
  <2>4. Shows(LabelledLines(Values(now)), now)
    <3>1. ASSUME NEW l \in LabelledLines(Values(now)), NEW e \in Events, l.event = e
          PROVE  calendar[e] # Unscheduled /\ l.at = Labelled(calendar[e])
      BY <3>1 DEF LabelledLines, Values, LineOf, AskedFor, Labelled
    <3>2. ASSUME NEW e \in Events, AskedFor(e, now)
          PROVE  [event |-> e, at |-> Labelled(calendar[e])] \in LabelledLines(Values(now))
      <4> DEFINE value == [event |-> e, at |-> ServerTime(calendar[e])]
      <4>1. value \in Values(now)
        BY <3>2 DEF Values
      <4>2. LineOf(value) = [event |-> e, at |-> Labelled(calendar[e])]
        BY DEF LineOf, Labelled
      <4> QED BY <4>1, <4>2 DEF LabelledLines
    <3> QED BY <3>1, <3>2 DEF Shows
  <2>5. PICK X : X = LabelledLines(Values(now))
    OBVIOUS
  <2>6. Shows(X, now)'
    BY <2>1, <2>4, <2>5 DEF Shows, AskedFor
  <2>7. ToSet(file'.lines) \cup LabelledLines(bridge'.todo) = X /\ bridge'.fired = now'
    BY <2>1, <2>3, <2>5, Z3
  <2>8. SnapshotShows'
    BY <2>6, <2>7 DEF SnapshotShows, Shows, AskedFor, LabelledLines
  <2> QED BY <1>0, <2>1, <2>2, <2>3, <2>8, BridgeKeeps
<1>2. CASE RefreshFails
  <2>1. /\ bridge' = [up |-> TRUE, todo |-> {}, fired |-> now] /\ file' = file
        /\ Fault /\ UNCHANGED <<now, calendar, settled, runtime, verdict>>
    BY <1>2 DEF RefreshFails
  <2>2. SnapshotShows'
    BY <1>0, <2>1 DEF Fault, SnapshotShows
  <2> QED BY <1>0, <2>1, <2>2, BridgeKeeps
<1>3. CASE WriteLine
  <2>1. PICK l \in bridge.todo :
          /\ file' = IF InBridgeScope(l.event) THEN [file EXCEPT !.lines = Append(@, LineOf(l))] ELSE file
          /\ bridge' = [bridge EXCEPT !.todo = @ \ {l}]
    BY <1>3 DEF WriteLine
  <2>2. NoFault /\ file.open /\ UNCHANGED <<now, calendar, settled, runtime, verdict>>
    BY <1>3 DEF WriteLine
  <2>3. l \in Lines /\ LineOf(l) \in Lines /\ file.lines \in Seq(Lines)
    <3>1. l \in Lines /\ file.lines \in Seq(Lines)
      BY <1>0
    <3> QED BY <3>1, TimingAssumption DEF LineOf, Lines, CalendarTimeToUtc
  <2>e. PICK n : n = LineOf(l)
    OBVIOUS
  <2>4. /\ file' \in [lines : Seq(Lines), open : BOOLEAN]
        /\ file'.open = file.open
        /\ file'.lines = IF InBridgeScope(l.event) THEN Append(file.lines, n) ELSE file.lines
    <3>1. Append(file.lines, n) \in Seq(Lines)
      BY <2>3, <2>e
    <3>2. CASE InBridgeScope(l.event)
      <4>1. file' = [file EXCEPT !.lines = Append(file.lines, n)]
        BY <2>1, <2>e, <3>2
      <4> QED BY <1>0, <3>1, <3>2, <4>1
    <3>3. CASE ~InBridgeScope(l.event)
      BY <1>0, <2>1, <3>3
    <3> QED BY <3>2, <3>3
  <2>5. /\ bridge' \in [up : BOOLEAN, todo : SUBSET Lines, fired : Nat]
        /\ bridge'.up = bridge.up /\ bridge'.fired = bridge.fired
        /\ bridge'.todo = bridge.todo \ {l}
    BY <1>0, <2>1
  <2>6. ToSet(Append(file.lines, n)) = ToSet(file.lines) \cup {n}
    <3>1. /\ DOMAIN Append(file.lines, n) = 1..(Len(file.lines) + 1)
          /\ \A i \in 1..Len(file.lines) : Append(file.lines, n)[i] = file.lines[i]
          /\ Append(file.lines, n)[Len(file.lines) + 1] = n
          /\ DOMAIN file.lines = 1..Len(file.lines) /\ Len(file.lines) \in Nat
      BY <2>3
    <3>2. 1..(Len(file.lines) + 1) = 1..Len(file.lines) \cup {Len(file.lines) + 1}
      BY <3>1
    <3> QED BY <3>1, <3>2 DEF ToSet
  <2>7. SnapshotShows'
    <3>1. CASE InBridgeScope(l.event)
      <4>1. LabelledLines(bridge.todo) = LabelledLines(bridge.todo \ {l}) \cup {n}
        BY <2>e DEF LabelledLines
      <4>2. ToSet(file'.lines) \cup LabelledLines(bridge'.todo) = ToSet(file.lines) \cup LabelledLines(bridge.todo)
        BY <2>4, <2>5, <2>6, <3>1, <4>1
      <4> QED BY <2>2, <2>5, <4>2, SnapshotKept DEF CalendarMoves, NoFault
    <3>2. CASE ~InBridgeScope(l.event)
      <4>1. file'.lines = file.lines /\ bridge'.todo = bridge.todo \ {l}
        BY <2>4, <2>5, <3>2
      <4> DEFINE some == ToSet(file.lines) \cup LabelledLines(bridge.todo)
                 less == ToSet(file.lines) \cup LabelledLines(bridge.todo \ {l})
      <4>2. SUFFICES ASSUME bridge.up, calm < bridge.fired
                     PROVE  SnapshotShows'
        BY <2>2, <2>5 DEF SnapshotShows, NoFault
      <4>3. Shows(some, bridge.fired)
        BY <4>2 DEF NewsInv, SnapshotShows
      <4>4. less \subseteq some
        BY DEF LabelledLines
      <4>5. ASSUME NEW e \in Events, InBridgeScope(e),
                   [event |-> e, at |-> Labelled(calendar[e])] \in some
            PROVE  [event |-> e, at |-> Labelled(calendar[e])] \in less
        <5>1. LineOf(l).event # e
          BY <3>2, <4>5 DEF LineOf
        <5>2. [event |-> e, at |-> Labelled(calendar[e])] # LineOf(l)
          BY <5>1
        <5> QED BY <4>5, <5>2 DEF LabelledLines
      <4>6. Shows(less, bridge.fired)
        <5> HIDE DEF some, less
        <5> QED BY <4>3, <4>4, <4>5 DEF Shows
      <4>7. PICK X, f : X = less /\ f = bridge.fired
        OBVIOUS
      <4>8. Shows(X, f)'
        BY <2>2, <4>6, <4>7 DEF Shows, AskedFor
      <4>9. ToSet(file'.lines) \cup LabelledLines(bridge'.todo) = X /\ bridge'.fired = f
        BY <2>5, <4>1, <4>7
      <4> QED BY <4>8, <4>9 DEF SnapshotShows, Shows, AskedFor, LabelledLines
    <3> QED BY <3>1, <3>2
  <2> QED BY <1>0, <2>2, <2>4, <2>5, <2>7, BridgeKeeps
<1>4. CASE LookupFails
  <2>1. PICK l \in bridge.todo : bridge' = [bridge EXCEPT !.todo = @ \ {l}]
    BY <1>4 DEF LookupFails
  <2>2. Fault /\ file.open /\ UNCHANGED <<now, calendar, settled, file, runtime, verdict>>
    BY <1>4 DEF LookupFails
  <2>3. /\ bridge' \in [up : BOOLEAN, todo : SUBSET Lines, fired : Nat]
        /\ bridge'.up = bridge.up /\ bridge'.fired = bridge.fired
    BY <1>0, <2>1
  <2>4. SnapshotShows'
    BY <1>0, <2>2, <2>3 DEF Fault, SnapshotShows
  <2> QED BY <1>0, <2>2, <2>3, <2>4, BridgeKeeps
<1>5. CASE CloseSnapshot
  <2>1. /\ file' = [file EXCEPT !.open = FALSE] /\ bridge.todo = {} /\ bridge' = bridge
        /\ NoFault /\ UNCHANGED <<now, calendar, settled, runtime, verdict>>
    BY <1>5 DEF CloseSnapshot
  <2>2. file' \in [lines : Seq(Lines), open : BOOLEAN] /\ file'.lines = file.lines /\ ~file'.open
    BY <1>0, <2>1
  <2>3. SnapshotShows'
    BY <2>1, <2>2, SnapshotKept DEF CalendarMoves, NoFault
  <2>4. /\ bridge' \in [up : BOOLEAN, todo : SUBSET Lines, fired : Nat]
        /\ bridge'.up = bridge.up /\ bridge'.fired = bridge.fired /\ bridge'.todo = {}
    BY <1>0, <2>1
  <2>5. ~bridge'.up => calm' = now
    BY <1>0, <2>1 DEF NoFault
  <2> QED BY <1>0, <2>1, <2>2, <2>3, <2>4, <2>5, BridgeKeeps
<1>6. CASE BridgeDies
  <2>1. PICK n \in 0..Len(file.lines) : file' = [lines |-> SubSeq(file.lines, 1, n), open |-> FALSE]
    BY <1>6 DEF BridgeDies
  <2>2. Fault /\ bridge' = [bridge EXCEPT !.up = FALSE, !.todo = {}]
        /\ UNCHANGED <<now, calendar, settled, runtime, verdict>>
    BY <1>6 DEF BridgeDies
  <2>3. SubSeq(file.lines, 1, n) \in Seq(Lines)
    BY <1>0
  <2>4. /\ bridge' \in [up : BOOLEAN, todo : SUBSET Lines, fired : Nat]
        /\ ~bridge'.up /\ bridge'.todo = {}
    BY <1>0, <2>2
  <2>5. SnapshotShows'
    BY <2>4 DEF SnapshotShows
  <2>6. calm' = now
    BY <2>2 DEF Fault
  <2> QED BY <1>0, <2>1, <2>2, <2>3, <2>4, <2>5, <2>6, BridgeKeeps
<1> QED BY <1>1, <1>2, <1>3, <1>4, <1>5, <1>6 DEF Bridge

-----------------------------------------------------------------------------
(* The runtime.                                                            *)

LEMMA RuntimeKeeps ==
  ASSUME NewsInv, NoFault \/ Fault, UNCHANGED <<now, calendar, settled, file, bridge>>,
         runtime' \in [up : BOOLEAN, cache : SUBSET Lines, read : Nat, polled : Nat,
                       judging : BOOLEAN],
         runtime'.read <= runtime'.polled, runtime'.polled <= now,
         runtime'.up => /\ runtime'.polled < runtime'.read + ReadEvery
                        /\ now <= runtime'.polled + PollEvery,
         verdict'.by \subseteq Lines, verdict'.blocked = (verdict'.by # {}),
         CacheShows', (KnownEventsBlock /\ NoFalseBlackout)'
  PROVE  NewsInv'
<1>1. CalendarMoves /\ calm' \in {calm, now} /\ calm' \in Nat /\ calm' <= now /\ now \in Nat
  BY DEF CalendarMoves, NewsInv, NewsShapes, NewsTypeOK, Fault, NoFault
<1>2. NewsTypeOK'
  BY <1>1 DEF NewsInv, NewsTypeOK
<1>3. NewsShapes' /\ OnTime'
  BY <1>1 DEF NewsInv, NewsShapes, OnTime, NoFault, Fault
<1>4. SnapshotShows'
  BY <1>1, SnapshotKept
<1> QED BY <1>2, <1>3, <1>4 DEF NewsInv

LEMMA ReadingsType ==
  ASSUME NewsInv, NEW cache \in Readings
  PROVE  cache \subseteq Lines /\ (~file.open => cache = ToSet(file.lines))
<1>1. PICK n \in 0..Len(file.lines) : /\ cache = ToSet(SubSeq(file.lines, 1, n))
                                      /\ n = Len(file.lines) \/ file.open
  BY DEF Readings
<1>2. file.lines \in Seq(Lines)
  BY DEF NewsInv, NewsShapes
<1>3. SubSeq(file.lines, 1, n) \in Seq(Lines)
  BY <1>2
<1>4. cache \subseteq Lines
  BY <1>1, <1>3 DEF ToSet
<1>5. SubSeq(file.lines, 1, Len(file.lines)) = file.lines
  BY <1>2, SubSeqFull
<1> QED BY <1>1, <1>4, <1>5

\* A file that was read closed, with nothing wrong for as long as the bridge's timer.
LEMMA ReadShows ==
  ASSUME NewsInv, NEW cache \in Readings, IF file.open THEN Fault ELSE NoFault,
         UNCHANGED <<now, calendar, settled, file, bridge>>,
         runtime'.cache = cache, runtime'.read = now
  PROVE  CacheShows'
<1>0. now \in Nat /\ calm \in Nat /\ RefreshEvery \in Nat
  BY Periods DEF NewsInv, NewsShapes
<1> SUFFICES ASSUME calm' + RefreshEvery < now
             PROVE  \E asked \in Nat : /\ asked <= now /\ now <= asked + RefreshEvery
                                       /\ Shows(cache, asked)'
  BY DEF CacheShows, Shows, AskedFor
<1>1. ~file.open /\ calm' = calm
  <2>1. calm' # now
    BY <1>0
  <2> QED BY <2>1 DEF Fault, NoFault
<1>2. bridge.up /\ bridge.fired \in Nat /\ bridge.fired <= now
      /\ now <= bridge.fired + RefreshEvery /\ bridge.todo = {}
  <2>1. calm # now
    BY <1>0, <1>1
  <2> QED BY <1>1, <2>1 DEF NewsInv, OnTime, NewsShapes, NewsTypeOK
<1>3. calm < bridge.fired
  BY <1>0, <1>1, <1>2
<1>4. cache = ToSet(file.lines) \cup LabelledLines(bridge.todo)
  BY <1>1, <1>2, ReadingsType DEF LabelledLines
<1>5. Shows(cache, bridge.fired)
  BY <1>2, <1>3, <1>4 DEF NewsInv, SnapshotShows
<1>6. PICK f \in Nat : f = bridge.fired
  BY <1>2
<1>7. Shows(cache, f)'
  BY <1>5, <1>6 DEF Shows, AskedFor
<1> QED BY <1>2, <1>6, <1>7

(* The earliest of some lines is one of them, when none is before a time.  *)
LEMMA EarliestLine ==
  ASSUME NEW S, S \subseteq Lines, S # {}, NEW first \in Int, \A l \in S : first <= l.at
  PROVE  \E l \in S : \A k \in S : l.at <= k.at
<1> DEFINE times == {l.at - first : l \in S}
<1>0. \A l \in S : l.at \in Int
  BY DEF Lines
<1>1. times \subseteq Nat /\ times # {}
  BY <1>0
<1>2. IsWellFoundedOn(OpToRel(<, Nat), Nat)
  BY NatLessThanWellFounded
<1>3. PICK n \in times : \A m \in times : ~ (<<m, n>> \in OpToRel(<, Nat))
  BY <1>1, <1>2, WFMin
<1>4. ASSUME NEW m \in times PROVE n <= m
  <2>1. m \in Nat /\ n \in Nat /\ ~(m < n)
    BY <1>1, <1>3 DEF OpToRel
  <2> QED BY <2>1
<1>5. PICK l \in S : n = l.at - first
  OBVIOUS
<1>6. ASSUME NEW k \in S PROVE l.at <= k.at
  <2>1. l.at - first <= k.at - first
    BY <1>4, <1>5
  <2> QED BY <1>0, <2>1
<1> QED BY <1>6

\* The cache is right of what has stood for long enough, and was asked for all of it.
LEMMA CacheIsRight ==
  ASSUME NewsInv, runtime.up, NEW e \in Events, Known(e)
  PROVE  /\ \A l \in runtime.cache :
              l.event = e => calendar[e] # Unscheduled /\ l.at = Labelled(calendar[e])
         /\ /\ Wanted(e) /\ InReach
            /\ Labelled(calendar[e]) - Before <= now /\ now <= Labelled(calendar[e]) + After
            => [event |-> e, at |-> Labelled(calendar[e])] \in runtime.cache
<1>0. /\ now \in Nat /\ calm \in Nat /\ runtime.read \in Nat /\ runtime.polled \in Nat
      /\ settled[e] \in Nat
      /\ RefreshEvery \in Nat \ {0} /\ ReadEvery \in Nat \ {0} /\ PollEvery \in Nat \ {0}
      /\ {Before, After, Lookback, Lookahead} \subseteq Nat
  BY Periods, TimingAssumption DEF NewsInv, NewsShapes, NewsTypeOK
<1>1. /\ runtime.polled < runtime.read + ReadEvery /\ now <= runtime.polled + PollEvery
      /\ runtime.read <= runtime.polled /\ runtime.polled <= now
  BY DEF NewsInv, OnTime, NewsTypeOK
<1>2. /\ calm + RefreshEvery + ReadEvery + PollEvery <= now
      /\ settled[e] + RefreshEvery + ReadEvery + PollEvery <= now
  BY <1>0, Periods DEF Known
<1>3. calm + RefreshEvery < runtime.read /\ settled[e] + RefreshEvery < runtime.read
  BY <1>0, <1>1, <1>2
<1>4. PICK asked \in Nat : /\ asked <= runtime.read /\ runtime.read <= asked + RefreshEvery
                           /\ Shows(runtime.cache, asked)
  BY <1>3 DEF NewsInv, CacheShows
<1>5. settled[e] < asked
  BY <1>0, <1>3, <1>4
<1>6. ASSUME Wanted(e), InReach,
             Labelled(calendar[e]) - Before <= now, now <= Labelled(calendar[e]) + After
      PROVE  AskedFor(e, asked)
  <2>1. calendar[e] \in Releases /\ calendar[e] # Unscheduled
    BY <1>6 DEF Wanted, NewsInv, NewsTypeOK
  <2>2. asked \in 0..now /\ now - Staleness <= asked
    BY <1>0, <1>1, <1>4, Periods
  <2>3. After + Drift(asked) <= Lookback /\ Before + Staleness <= Lookahead + Drift(asked)
    BY <1>6, <2>2 DEF InReach
  <2>4. /\ ServerAhead(asked) \in Int /\ UtcOffset \in Int
        /\ ServerTime(asked) = asked + ServerAhead(asked)
        /\ Drift(asked) = ServerAhead(asked) + UtcOffset
    BY <2>2, Clocks DEF NewsInv
  <2>5. /\ calendar[e] \in Nat /\ ServerAhead(calendar[e]) \in Int
        /\ ServerTime(calendar[e]) = calendar[e] + ServerAhead(calendar[e])
        /\ Labelled(calendar[e]) = calendar[e] + ServerAhead(calendar[e]) + UtcOffset
    BY <2>1, Clocks DEF NewsInv
  <2>6. ServerTime(asked) - Lookback <= ServerTime(calendar[e])
    BY <1>0, <1>6, <2>2, <2>3, <2>4, <2>5
  <2>7. ServerTime(calendar[e]) <= ServerTime(asked) + Lookahead
    <3>1. Staleness \in Nat /\ now <= asked + Staleness
      BY <1>0, <2>2, Periods
    <3> QED BY <1>0, <1>6, <2>3, <2>4, <2>5, <3>1
  <2> QED BY <2>1, <2>6, <2>7 DEF AskedFor
<1> QED BY <1>4, <1>5, <1>6 DEF Shows, Wanted

LEMMA JudgesRight ==
  ASSUME NewsInv, Judge
  PROVE  (KnownEventsBlock /\ NoFalseBlackout)'
<1> DEFINE hits == {l \in runtime.cache : InGateScope(l.event) /\ InBlackout(l, now)}
           by == Blackout(runtime.cache, now)
<1>1. /\ verdict' = [at |-> now, blocked |-> by # {}, by |-> by]
      /\ runtime.up /\ NoFault /\ UNCHANGED <<now, calendar, settled, file, bridge>>
  BY DEF Judge
<1>2. \A e \in Events : Known(e)' <=> Known(e)
  BY <1>1 DEF Known, NoFault
<1>3. by \subseteq hits /\ hits \subseteq runtime.cache /\ runtime.cache \subseteq Lines
  BY DEF Blackout, NewsInv, NewsTypeOK
<1>4. hits # {} => by # {}
  <2>1. now \in Int /\ After \in Int /\ now - After \in Int
    BY TimingAssumption DEF NewsInv, NewsShapes
  <2>2. ASSUME NEW l \in hits PROVE now - After <= l.at
    <3>1. l.at \in Int /\ now <= l.at + After
      BY <1>3 DEF InBlackout, Lines
    <3> QED BY <2>1, <3>1
  <2> QED BY <1>3, <2>1, <2>2, EarliestLine DEF Blackout
<1>5. ASSUME NEW e \in Events, Known(e), Wanted(e), InReach,
             Labelled(calendar[e]) - Before <= now, now <= Labelled(calendar[e]) + After
      PROVE  by # {}
  <2>1. [event |-> e, at |-> Labelled(calendar[e])] \in runtime.cache
    BY <1>1, <1>5, CacheIsRight
  <2>2. [event |-> e, at |-> Labelled(calendar[e])] \in hits
    BY <1>5, <2>1 DEF InBlackout, Wanted
  <2> QED BY <1>4, <2>2
<1>6. KnownEventsBlock'
  <2>1. (InReach' <=> InReach) /\ \A e \in Events : Wanted(e)' <=> Wanted(e)
    BY <1>1 DEF InReach, Wanted
  <2> QED BY <1>1, <1>2, <1>5, <2>1 DEF KnownEventsBlock
<1>7. ASSUME NEW l \in by, Known(l.event)
      PROVE  calendar[l.event] # Unscheduled /\ l.at = Labelled(calendar[l.event])
  <2>1. l \in runtime.cache /\ l.event \in Events
    BY <1>3 DEF Lines
  <2> QED BY <1>1, <1>7, <2>1, CacheIsRight
<1>8. NoFalseBlackout'
  <2>1. \A l \in by : l.event \in Events
    BY <1>3 DEF Lines
  <2> QED BY <1>1, <1>2, <1>7, <2>1 DEF NoFalseBlackout
<1> QED BY <1>6, <1>8

LEMMA RuntimeInv ==
  ASSUME NewsInv, Runtime
  PROVE  NewsInv'
<1> DEFINE RuntimeType == [up : BOOLEAN, cache : SUBSET Lines, read : Nat, polled : Nat,
                           judging : BOOLEAN]
<1>0. /\ now \in Nat /\ runtime \in RuntimeType
      /\ runtime.read <= runtime.polled /\ runtime.polled <= now
      /\ ReadEvery \in Nat \ {0} /\ PollEvery \in Nat \ {0}
      /\ verdict.by \subseteq Lines /\ verdict.blocked = (verdict.by # {})
      /\ runtime.up => /\ runtime.polled < runtime.read + ReadEvery
                       /\ now <= runtime.polled + PollEvery
  BY Periods DEF NewsInv, NewsShapes, NewsTypeOK, OnTime
<1>1. CASE StartRuntime \/ PollReads
  <2>1. PICK cache \in Readings :
          \/ runtime' = [up |-> TRUE, cache |-> cache, read |-> now, polled |-> now, judging |-> TRUE]
          \/ /\ runtime.up
             /\ runtime' = [runtime EXCEPT !.cache = cache, !.read = now, !.polled = now,
                                           !.judging = TRUE]
    BY <1>1 DEF StartRuntime, PollReads
  <2>2. /\ IF file.open THEN Fault ELSE NoFault
        /\ UNCHANGED <<now, calendar, settled, file, bridge, verdict>>
    BY <1>1 DEF StartRuntime, PollReads
  <2>3. cache \in SUBSET Lines
    BY ReadingsType
  <2>4. /\ runtime' \in RuntimeType
        /\ runtime'.cache = cache /\ runtime'.read = now /\ runtime'.polled = now
    <3>1. CASE runtime' = [up |-> TRUE, cache |-> cache, read |-> now, polled |-> now, judging |-> TRUE]
      BY <1>0, <2>3, <3>1
    <3>2. CASE runtime' = [runtime EXCEPT !.cache = cache, !.read = now, !.polled = now,
                                          !.judging = TRUE]
      BY <1>0, <2>3, <3>2
    <3> QED BY <2>1, <3>1, <3>2
  <2>5. CacheShows'
    BY <2>2, <2>4, ReadShows
  <2>6. (KnownEventsBlock /\ NoFalseBlackout)'
    BY <2>2, VerdictKept DEF CalendarMoves, Fault, NoFault
  <2>7. now < now + ReadEvery /\ now <= now + PollEvery
    BY <1>0
  <2> QED BY <1>0, <2>2, <2>4, <2>5, <2>6, <2>7, RuntimeKeeps
<1>2. CASE PollKeeps
  <2>1. /\ runtime.up /\ ~Due /\ runtime' = [runtime EXCEPT !.polled = now, !.judging = TRUE]
        /\ NoFault /\ UNCHANGED <<now, calendar, settled, file, bridge, verdict>>
    BY <1>2 DEF PollKeeps
  <2>2. /\ runtime' \in RuntimeType /\ runtime'.up = runtime.up
        /\ runtime'.cache = runtime.cache /\ runtime'.read = runtime.read /\ runtime'.polled = now
    BY <1>0, <2>1
  <2>3. /\ runtime'.read <= runtime'.polled /\ runtime'.polled <= now
        /\ runtime'.polled < runtime'.read + ReadEvery /\ now <= runtime'.polled + PollEvery
    BY <1>0, <2>1, <2>2 DEF Due
  <2>4. CacheShows'
    BY <2>1, <2>2, CacheKept DEF CalendarMoves, NoFault
  <2>5. (KnownEventsBlock /\ NoFalseBlackout)'
    BY <2>1, VerdictKept DEF CalendarMoves, NoFault
  <2> QED BY <1>0, <2>1, <2>2, <2>3, <2>4, <2>5, RuntimeKeeps
<1>3. CASE Judge
  <2>1. /\ runtime.up /\ runtime' = [runtime EXCEPT !.judging = FALSE]
        /\ verdict'.by = Blackout(runtime.cache, now) /\ verdict'.blocked = (verdict'.by # {})
        /\ NoFault /\ UNCHANGED <<now, calendar, settled, file, bridge>>
    BY <1>3 DEF Judge
  <2>2. /\ runtime' \in RuntimeType /\ runtime'.up = runtime.up
        /\ runtime'.cache = runtime.cache /\ runtime'.read = runtime.read
        /\ runtime'.polled = runtime.polled
    BY <1>0, <2>1
  <2>3. verdict'.by \subseteq Lines
    BY <1>0, <2>1 DEF Blackout
  <2>4. CacheShows'
    BY <2>1, <2>2, CacheKept DEF CalendarMoves, NoFault
  <2> QED BY <1>0, <1>3, <2>1, <2>2, <2>3, <2>4, JudgesRight, RuntimeKeeps
<1>4. CASE RuntimeDies
  <2>1. /\ runtime' = [runtime EXCEPT !.up = FALSE, !.cache = {}, !.judging = FALSE]
        /\ verdict' = NoVerdict
        /\ NoFault /\ UNCHANGED <<now, calendar, settled, file, bridge>>
    BY <1>4 DEF RuntimeDies
  <2>2. /\ runtime' \in RuntimeType /\ ~runtime'.up
        /\ runtime'.read = runtime.read /\ runtime'.polled = runtime.polled
    BY <1>0, <2>1
  <2>3. verdict'.by = {} /\ verdict'.blocked = FALSE
    BY <2>1 DEF NoVerdict
  <2>4. CacheShows'
    BY <2>2 DEF CacheShows
  <2>5. (KnownEventsBlock /\ NoFalseBlackout)'
    BY <2>1, <2>3 DEF KnownEventsBlock, NoFalseBlackout, NoVerdict
  <2> QED BY <1>0, <2>1, <2>2, <2>3, <2>4, <2>5, RuntimeKeeps
<1> QED BY <1>1, <1>2, <1>3, <1>4 DEF Runtime

-----------------------------------------------------------------------------
LEMMA TickInv ==
  ASSUME NewsInv, Tick
  PROVE  NewsInv'
<1>1. /\ now' = now + 1 /\ now < MaxTime /\ verdict' = NoVerdict
      /\ bridge.up => now < bridge.fired + RefreshEvery
      /\ runtime.up => now < runtime.polled + PollEvery
      /\ calm' = IF bridge.up THEN calm ELSE now + 1
      /\ UNCHANGED <<calendar, settled, changes, file, bridge, runtime, faults>>
  BY DEF Tick
<1>2. /\ now \in Nat /\ MaxTime \in Nat /\ calm \in Nat /\ calm <= now
      /\ runtime.read \in Nat /\ runtime.polled \in Nat /\ bridge.fired \in Nat
      /\ RefreshEvery \in Nat /\ PollEvery \in Nat
  BY TimingAssumption DEF NewsInv, NewsTypeOK, NewsShapes
<1>3. NewsTypeOK'
  <2>1. settled' \in [Events -> 0..now']
    BY <1>1, <1>2 DEF NewsInv, NewsTypeOK
  <2>2. now' \in 0..MaxTime /\ calm' <= now' /\ runtime'.polled <= now'
    BY <1>1, <1>2 DEF NewsInv, NewsTypeOK
  <2>3. verdict'.blocked = (verdict'.by # {})
    BY <1>1 DEF NoVerdict
  <2> QED BY <1>1, <2>1, <2>2, <2>3 DEF NewsInv, NewsTypeOK
<1>4. NewsShapes'
  BY <1>1, <1>2 DEF NewsInv, NewsShapes, NoVerdict
<1>5. OnTime'
  BY <1>1, <1>2 DEF NewsInv, OnTime
<1>6. SnapshotShows'
  BY <1>1, SnapshotKept DEF CalendarMoves
<1>7. CacheShows'
  BY <1>1, CacheKept DEF CalendarMoves
<1>8. (KnownEventsBlock /\ NoFalseBlackout)'
  BY <1>1 DEF KnownEventsBlock, NoFalseBlackout, NoVerdict
<1> QED BY <1>3, <1>4, <1>5, <1>6, <1>7, <1>8 DEF NewsInv

LEMMA NewsInitInv == NewsInit => NewsInv
<1> SUFFICES ASSUME NewsInit PROVE NewsInv
  OBVIOUS
<1>1. <<>> \in Seq(Lines)
  OBVIOUS
<1>2. NewsTypeOK
  <2>1. now = 0 /\ MaxTime \in Nat /\ calm = 0
    BY TimingAssumption DEF NewsInit
  <2>2. settled \in [Events -> 0..now]
    BY <2>1 DEF NewsInit
  <2>3. verdict.blocked = (verdict.by # {})
    BY DEF NewsInit, NoVerdict
  <2> QED BY <1>1, <2>1, <2>2, <2>3 DEF NewsInit, NewsTypeOK, NoLines
<1>3. NewsShapes
  BY <1>1 DEF NewsInit, NewsShapes, NoLines, NoVerdict
<1>4. OnTime /\ SnapshotShows /\ CacheShows
  BY DEF NewsInit, OnTime, SnapshotShows, CacheShows
<1>5. KnownEventsBlock /\ NoFalseBlackout
  BY DEF NewsInit, KnownEventsBlock, NoFalseBlackout, NoVerdict
<1> QED BY <1>2, <1>3, <1>4, <1>5 DEF NewsInv

LEMMA NewsNextInv == NewsInv /\ [NewsNext]_newsVars => NewsInv'
<1> SUFFICES ASSUME NewsInv, [NewsNext]_newsVars PROVE NewsInv'
  OBVIOUS
<1>1. CASE UNCHANGED newsVars
  <2>1. /\ CalendarMoves
        /\ UNCHANGED <<now, calendar, settled, file, bridge, runtime, verdict, calm>>
    BY <1>1 DEF newsVars, CalendarMoves
  <2>2. NewsTypeOK' /\ NewsShapes' /\ OnTime'
    BY <2>1 DEF NewsInv, NewsTypeOK, NewsShapes, OnTime
  <2>3. SnapshotShows' /\ CacheShows'
    BY <2>1, SnapshotKept, CacheKept
  <2>4. (KnownEventsBlock /\ NoFalseBlackout)'
    BY <2>1, VerdictKept
  <2> QED BY <2>2, <2>3, <2>4 DEF NewsInv
<1> QED BY <1>1, ScheduleInv, BridgeInv, RuntimeInv, TickInv DEF NewsNext

(* A dispatch judged inside the window of an event that has stood for as    *)
(* long as the timers take is blocked, across restarts of the runtime, when *)
(* nothing failed for as long (news_gate.py:92).  The window is around the  *)
(* time the bridge labels UTC, whatever its offset and the terminal's clock *)
(* are.                                                                    *)
THEOREM KnownEventsAreBlocked == NewsSpec => []KnownEventsBlock
<1>1. NewsInv => KnownEventsBlock
  BY DEF NewsInv
<1> QED BY <1>1, NewsInitInv, NewsNextInv, PTL DEF NewsSpec

(* What the gate is for: nothing goes out while such an event is released,  *)
(* if what is labelled UTC never errs by more than the gate's buffers.  The *)
(* bridge's offset is a constant (VO_CalendarBridge.mq5:133), so the        *)
(* premise asks as much of the terminal's clock.                           *)
THEOREM ReleasesAreBlocked ==
  ASSUME \A t \in 0..MaxTime \cup Releases : -After <= Drift(t) /\ Drift(t) <= Before
  PROVE  NewsSpec => []ReleasesBlock
<1>1. ASSUME NewsInv PROVE ReleasesBlock
  <2> SUFFICES ASSUME verdict # NoVerdict, NEW e \in Events,
                      Known(e), Wanted(e), calendar[e] = now
               PROVE  verdict.blocked
    BY DEF ReleasesBlock
  <2>1. /\ now \in 0..MaxTime /\ MaxTime \in Nat /\ now \in Nat
        /\ {Before, After, Lookback, Lookahead} \subseteq Nat
    BY <1>1, TimingAssumption DEF NewsInv, NewsTypeOK
  <2>2. InReach
    <3> SUFFICES ASSUME NEW asked \in 0..now
                 PROVE  After + Drift(asked) <= Lookback
                          /\ Before + Staleness <= Lookahead + Drift(asked)
      BY DEF InReach
    <3>1. /\ -After <= Drift(asked) /\ Drift(asked) <= Before /\ Drift(asked) \in Int
      <4>1. asked \in 0..MaxTime
        BY <2>1
      <4>2. ServerAhead(asked) + UtcOffset \in Int
        BY <1>1, Clocks DEF NewsInv
      <4> QED BY <1>1, <4>1, <4>2, Clocks DEF NewsInv
    <3>2. Staleness \in Nat
      BY Periods
    <3> QED BY <2>1, <3>1, <3>2, ScopeAssumption
  <2>3. Labelled(now) - Before <= now /\ now <= Labelled(now) + After
    <3>1. now \in 0..now
      BY <2>1
    <3>2. /\ ServerAhead(now) \in Int /\ UtcOffset \in Int
          /\ Labelled(now) = now + ServerAhead(now) + UtcOffset
          /\ Drift(now) = ServerAhead(now) + UtcOffset
      BY <1>1, <3>1, Clocks DEF NewsInv
    <3>3. -After <= Drift(now) /\ Drift(now) <= Before
      BY <2>1
    <3> QED BY <2>1, <3>2, <3>3
  <2> QED BY <1>1, <2>2, <2>3 DEF NewsInv, KnownEventsBlock
<1> QED BY <1>1, NewsInitInv, NewsNextInv, PTL DEF NewsSpec

(* The types hold, and no dispatch is blocked for an event that was moved   *)
(* or withdrawn as long ago (VO_CalendarBridge.mq5:19).                     *)
THEOREM VerdictsAreGrounded == NewsSpec => []VerdictIsGrounded
<1>1. NewsInv => VerdictIsGrounded
  BY DEF NewsInv, VerdictIsGrounded
<1> QED BY <1>1, NewsInitInv, NewsNextInv, PTL DEF NewsSpec

-----------------------------------------------------------------------------
(***************************************************************************)
(* The feed and its charts.  A chart that keeps what it drew keeps it for a *)
(* reason that outlives the file: what is drawn is the drawing of the       *)
(* header's build, on the bar the chart was on when it drew it              *)
(* (DrawnFromOne), and that bar is this one unless a new bar came, which    *)
(* forgets the header (NeverAhead).                                         *)
(***************************************************************************)
Shapes ==
  /\ watch = [pc |-> watch.pc, build |-> watch.build, tried |-> watch.tried]
  /\ chart = [pc |-> chart.pc, got |-> chart.got, header |-> chart.header,
              seen |-> chart.seen, drawn |-> chart.drawn]
  /\ lines = [pc |-> lines.pc, got |-> lines.got, drawn |-> lines.drawn]

\* The file a publish renames is whole by then.
PublishIsWhole ==
  /\ watch.pc \in {"writing", "renaming"} => watch.build \in Builds
  /\ watch.pc = "renaming" => tmp = Whole(watch.build)

NeverAhead == chart.seen <= ChartEdge

DrawnFromOne ==
  chart.header # None =>
    /\ \E edge \in Nat : chart.drawn = Drawing(Whole(chart.header), edge)
    /\ chart.seen = ChartEdge => chart.drawn = Drawing(Whole(chart.header), ChartEdge)

Inv == TypeOK /\ Shapes /\ WholeFeedsOnly /\ PublishIsWhole /\ NeverAhead /\ DrawnFromOne

-----------------------------------------------------------------------------
(* A set of naturals has a least member.                                   *)
LEMMA LeastOf ==
  ASSUME NEW S, S \subseteq Nat, S # {}
  PROVE  Min(S) \in S /\ \A n \in S : Min(S) <= n
<1>1. PICK n \in S : \A m \in S : ~ (<<m, n>> \in OpToRel(<, Nat))
  <2>1. IsWellFoundedOn(OpToRel(<, Nat), Nat)
    BY NatLessThanWellFounded
  <2> QED BY <2>1, WFMin
<1>2. ASSUME NEW m \in S PROVE n <= m
  <2>1. m \in Nat /\ n \in Nat /\ ~(m < n)
    BY <1>1 DEF OpToRel
  <2> QED BY <2>1
<1> QED BY <1>2 DEF Min

LEMMA NoneIsNone == None \notin Builds /\ None \notin Builds \X Builds
<1> DEFINE all == [stamp : Nat, covers : Nat]
<1>1. Builds \subseteq all
  BY FeedAssumption DEF Builds
<1>2. None \notin all /\ None \notin all \X all
  BY NoneAssumption
<1>3. Builds \X Builds \subseteq all \X all
  BY <1>1
<1> QED BY <1>1, <1>2, <1>3

(* What a reader has half of is the build of the whole feed.               *)
LEMMA ReadersHaveTheFeed ==
  ASSUME TypeOK, WholeFeedsOnly, NEW r \in {chart, lines}, r.got # None
  PROVE  feed # None /\ r.got = feed[1] /\ r.got = feed[2] /\ feed = Whole(r.got)
<1>1. r.got \in Builds /\ feed = <<r.got, r.got>>
  BY DEF TypeOK, WholeFeedsOnly, Whole
<1>2. feed # None
  BY <1>1, NoneIsNone
<1> QED BY <1>1, <1>2 DEF Whole

(* The stamp of a new build is one of five, and not in use.                *)
LEMMA StampIsNew ==
  ASSUME TypeOK, WholeFeedsOnly
  PROVE  NewStamp \in 0..4 /\ NewStamp \notin StampsInUse
<1> DEFINE a == IF feed = None THEN 0 ELSE feed[1].stamp
           b == IF chart.header = None THEN 0 ELSE chart.header.stamp
           free == (0..Cardinality(StampsInUse)) \ StampsInUse
<1>1. StampsInUse \subseteq {a, b}
  <2>1. feed # None => HalvesOf(feed) = {feed[1]}
    BY DEF WholeFeedsOnly, HalvesOf
  <2>2. feed = None => HalvesOf(feed) = {}
    BY DEF HalvesOf
  <2>3. \A r \in {chart, lines} : r.got # None => r.got = feed[1] /\ feed # None
    BY ReadersHaveTheFeed
  <2> QED BY <2>1, <2>2, <2>3 DEF StampsInUse
<1>2. IsFiniteSet(StampsInUse) /\ Cardinality(StampsInUse) \in 0..2
  <2>1. IsFiniteSet({a, b}) /\ Cardinality({a, b}) <= 2 /\ Cardinality({a, b}) \in Nat
    <3>1. IsFiniteSet({a}) /\ Cardinality({a}) = 1
      BY FS_Singleton
    <3>2. IsFiniteSet({a} \cup {b})
          /\ Cardinality({a} \cup {b}) = IF b \in {a} THEN Cardinality({a}) ELSE Cardinality({a}) + 1
      BY <3>1, FS_AddElement
    <3>3. {a} \cup {b} = {a, b}
      OBVIOUS
    <3> QED BY <3>1, <3>2, <3>3
  <2>2. IsFiniteSet(StampsInUse) /\ Cardinality(StampsInUse) <= Cardinality({a, b})
    BY <1>1, <2>1, FS_Subset
  <2>3. Cardinality(StampsInUse) \in Nat
    BY <2>2, FS_CardinalityType
  <2> QED BY <2>1, <2>2, <2>3
<1>3. free # {}
  <2>1. SUFFICES ASSUME 0..Cardinality(StampsInUse) \subseteq StampsInUse PROVE FALSE
    OBVIOUS
  <2>2. Cardinality(0..Cardinality(StampsInUse)) = Cardinality(StampsInUse) + 1
    BY <1>2, FS_Interval
  <2>3. Cardinality(0..Cardinality(StampsInUse)) <= Cardinality(StampsInUse)
    BY <1>2, <2>1, FS_Subset
  <2> QED BY <1>2, <2>2, <2>3
<1>4. free \subseteq 0..4
  BY <1>2
<1>5. Min(free) \in free
  BY <1>3, <1>4, LeastOf
<1> QED BY <1>4, <1>5 DEF NewStamp

-----------------------------------------------------------------------------
(* The bar the chart is on.                                                *)

LEMMA EdgeType ==
  ASSUME closed \in Nat
  PROVE  ChartEdge \in Nat /\ ChartEdge <= closed + 1
<1>1. ChartFrame \in Nat \ {0}
  BY FeedAssumption
<1> DEFINE q == closed \div ChartFrame
<1>2. q \in Nat /\ q * ChartFrame <= closed
  BY <1>1
<1>3. q * ChartFrame \in Nat
  BY <1>1, <1>2
<1> QED BY <1>2, <1>3 DEF ChartEdge

LEMMA EdgeGoesOn ==
  ASSUME closed \in Nat, closed' = closed + 1
  PROVE  ChartEdge <= ChartEdge' /\ ChartEdge' \in Nat
<1>1. ChartFrame \in Nat \ {0}
  BY FeedAssumption
<1> DEFINE q == closed \div ChartFrame
           p == (closed + 1) \div ChartFrame
<1>2. q \in Nat /\ p \in Nat /\ q <= p
  BY <1>1
<1>3. q * ChartFrame <= p * ChartFrame /\ {q * ChartFrame, p * ChartFrame} \subseteq Nat
  BY <1>1, <1>2
<1>4. ChartEdge = q * ChartFrame + 1 /\ ChartEdge' = p * ChartFrame + 1
  BY DEF ChartEdge
<1> HIDE DEF q, p
<1> QED BY <1>3, <1>4

-----------------------------------------------------------------------------
(* A band ends at a bar its feed was made from, or it is open.             *)

LEMMA LogIsPrefix ==
  ASSUME NEW covers \in Nat
  PROVE  /\ Len(LogOf(covers)) \in Nat
         /\ DOMAIN LogOf(covers) = 1..Len(LogOf(covers))
         /\ \A i \in DOMAIN LogOf(covers) : LogOf(covers)[i].at <= covers
<1> DEFINE Late == {n \in Nat : n > Len(States) \/ (n > 0 /\ States[n].at > covers)}
           log == LogOf(covers)
<1>1. /\ Len(States) \in Nat /\ DOMAIN States = 1..Len(States)
      /\ \A i \in 1..Len(States) : States[i].at \in Nat
      /\ \A i, j \in 1..Len(States) : i <= j => States[i].at <= States[j].at
  BY LogAssumption
<1>2. Late \subseteq Nat /\ Len(States) + 1 \in Late
  BY <1>1
<1>3. PICK n \in Late : \A m \in Late : n <= m
  BY <1>2, LeastOf
<1>4. n \in Nat \ {0}
  BY <1>1, <1>3
<1>5. \A i \in 1..Len(States) : States[i].at <= covers <=> i <= n - 1
  <2> TAKE i \in 1..Len(States)
  <2>1. CASE i < n
    <3>1. i \notin Late
      BY <1>3, <1>4, <2>1
    <3> QED BY <1>1, <1>4, <2>1, <3>1
  <2>2. CASE i >= n
    <3>1. n \in 1..Len(States) /\ States[n].at > covers
      BY <1>1, <1>3, <1>4, <2>2
    <3>2. States[i].at > covers
      BY <1>1, <2>2, <3>1
    <3> QED BY <1>1, <1>4, <2>2, <3>2
  <2> QED BY <1>4, <2>1, <2>2
<1>6. n - 1 \in Nat /\ n - 1 <= Len(States)
  BY <1>1, <1>2, <1>3, <1>4
<1>7. DOMAIN log = 1..(n - 1)
  <2>1. DOMAIN log = {i \in 1..Len(States) : States[i].at <= covers}
    BY <1>1 DEF LogOf, Restrict
  <2> QED BY <1>1, <1>5, <1>6, <2>1
<1>8. Len(log) = n - 1
  BY <1>6, <1>7
<1>9. \A i \in DOMAIN log : log[i].at <= covers
  BY DEF LogOf, Restrict
<1> QED BY <1>6, <1>7, <1>8, <1>9

LEMMA SegmentEnds ==
  ASSUME NEW covers \in 0..Len(Prices), NEW s \in FeedOf[covers].segments
  PROVE  s.end = None \/ s.end <= covers
<1> DEFINE log == LogOf(covers)
           bars == SubSeq(Prices, 1, covers)
<1>1. /\ Len(log) \in Nat /\ DOMAIN log = 1..Len(log)
      /\ \A i \in DOMAIN log : log[i].at <= covers
  <2>1. covers \in Nat
    BY FeedAssumption
  <2> QED BY <2>1, LogIsPrefix
<1> HIDE DEF log, bars
<1>2. ASSUME NEW i \in RunStarts(log)
      PROVE  RunEnd(log, i) > Len(log) \/ RunEnd(log, i) \in DOMAIN log
  <2> DEFINE later == {j \in RunStarts(log) : j > i}
  <2>1. later \subseteq DOMAIN log /\ later \subseteq Nat
    BY <1>1 DEF RunStarts
  <2>2. later # {} => Min(later) \in later
    BY <2>1, LeastOf
  <2> HIDE DEF later
  <2>3. RunEnd(log, i) = IF later = {} THEN Len(log) + 1 ELSE Min(later)
    BY DEF RunEnd, later
  <2> QED BY <1>1, <2>1, <2>2, <2>3
<1>3. ASSUME NEW i \in RunStarts(log)
      PROVE  Segment(log, bars, i).end = None \/ Segment(log, bars, i).end <= covers
  BY <1>1, <1>2 DEF Segment
<1>4. \A t \in Segments(log, bars) : t.end = None \/ t.end <= covers
  BY <1>3 DEF Segments
<1>5. \A t \in TrimWarmup(Segments(log, bars), TrimFrom) : t.end = None \/ t.end <= covers
  <2> TAKE t \in TrimWarmup(Segments(log, bars), TrimFrom)
  <2>1. PICK u \in Segments(log, bars) : t = [u EXCEPT !.start = Larger(@, TrimFrom)]
    BY DEF TrimWarmup
  <2>2. t.end = u.end
    BY <2>1
  <2> QED BY <1>4, <2>2
<1>6. FeedOf[covers] = Feed(log, bars, TrimFrom)
  BY DEF FeedOf, log, bars
<1> QED BY <1>4, <1>5, <1>6 DEF Feed

LEMMA BandsEnd ==
  ASSUME NEW build \in Builds, NEW edge \in Nat, NEW b \in Drawing(Whole(build), edge).bands
  PROVE  b.end <= build.covers
<1> DEFINE covers == build.covers
           read == LinesIn(Whole(build))
<1>1. covers \in 0..Len(Prices) /\ covers \in Nat
  BY FeedAssumption DEF Builds
<1>2. Whole(build)[1] = build
  BY DEF Whole
<1>3. PICK l \in Tagged(read, "BAND") : b = DrawBand(l, covers, edge)
  BY <1>2 DEF Drawing
<1>4. l \in LinesOf[covers] /\ l.tag = "BAND"
  BY <1>2, <1>3 DEF Tagged, LinesIn
<1>5. \/ \E s \in FeedOf[covers].segments : l = BandLine(s)
      \/ \E m \in FeedOf[covers].markers : l = MarkLine(m)
      \/ \E x : l = SessionLine(x)
      \/ \E r : l = StatLine(r)
  BY <1>1, <1>4 DEF LinesOf
<1>6. PICK s \in FeedOf[covers].segments : l = BandLine(s)
  BY <1>4, <1>5 DEF MarkLine, SessionLine, StatLine
<1>7. l.end = 0 \/ l.end <= covers
  BY <1>1, <1>6, SegmentEnds DEF BandLine
<1> QED BY <1>1, <1>3, <1>7 DEF DrawBand, LiveEdge, Smaller

-----------------------------------------------------------------------------
(* The bands of a log: on each bar, the run of the last record by then.     *)

IsLog(states) ==
  /\ Len(states) \in Nat /\ DOMAIN states = 1..Len(states)
  /\ \A i \in 1..Len(states) : states[i].at \in Nat
  /\ \A i, j \in 1..Len(states) : i <= j => states[i].at <= states[j].at

\* The k-th is the last record by a bar.
IsLatest(states, k, bar) ==
  /\ k \in 1..Len(states) /\ states[k].at <= bar
  /\ k < Len(states) => bar < states[k + 1].at

LEMMA RunsEndWhereOneStarts ==
  ASSUME NEW states, IsLog(states), NEW i \in RunStarts(states)
  PROVE  /\ i \in 1..Len(states)
         /\ RunEnd(states, i) \in Nat
         /\ i < RunEnd(states, i)
         /\ RunEnd(states, i) = Len(states) + 1 \/ RunEnd(states, i) \in RunStarts(states)
         /\ \A j \in RunStarts(states) : j > i => RunEnd(states, i) <= j
<1> DEFINE later == {j \in RunStarts(states) : j > i}
<1>1. Len(states) \in Nat /\ RunStarts(states) \subseteq 1..Len(states)
  BY DEF IsLog, RunStarts
<1>2. later # {} => Min(later) \in later /\ \A j \in later : Min(later) <= j
  <2>1. later \subseteq Nat
    BY <1>1
  <2> QED BY <2>1, LeastOf
<1>3. CASE later = {}
  <2>1. RunEnd(states, i) = Len(states) + 1
    BY <1>3 DEF RunEnd
  <2> QED BY <1>1, <1>3, <2>1
<1>4. CASE later # {}
  <2>1. RunEnd(states, i) = Min(later)
    BY <1>4 DEF RunEnd
  <2> QED BY <1>1, <1>2, <1>4, <2>1
<1> QED BY <1>3, <1>4

LEMMA RunsKeepTheirRegime ==
  ASSUME NEW states, IsLog(states), NEW i \in RunStarts(states),
         NEW j \in i..(RunEnd(states, i) - 1)
  PROVE  states[j].regime = states[i].regime
<1> DEFINE end == RunEnd(states, i)
           Others == {m \in i..(end - 1) : states[m].regime # states[i].regime}
<1>1. /\ i \in 1..Len(states) /\ end \in Nat /\ Len(states) \in Nat
      /\ end = Len(states) + 1 \/ end \in RunStarts(states)
      /\ \A m \in RunStarts(states) : m > i => end <= m
  BY RunsEndWhereOneStarts DEF IsLog
<1>2. end <= Len(states) + 1
  BY <1>1 DEF RunStarts, IsLog
<1> HIDE DEF end
<1>3. SUFFICES ASSUME Others # {} PROVE FALSE
  BY DEF end
<1>4. PICK n \in Others : \A m \in Others : n <= m
  <2>1. Others \subseteq Nat
    BY <1>1
  <2> QED BY <1>3, <2>1, LeastOf
<1>5. n \in Nat /\ n > i /\ n <= end - 1
  BY <1>1, <1>4
<1>6. n - 1 \in i..(end - 1) /\ n - 1 \notin Others
  BY <1>1, <1>4, <1>5
<1>7. states[n].regime # states[n - 1].regime
  BY <1>4, <1>6
<1>8. n \in DOMAIN states
  BY <1>1, <1>2, <1>5 DEF IsLog
<1>9. n \in RunStarts(states)
  BY <1>7, <1>8 DEF RunStarts
<1> QED BY <1>1, <1>5, <1>9

LEMMA EachRecordIsInARun ==
  ASSUME NEW states, IsLog(states), NEW k \in 1..Len(states)
  PROVE  \E i \in RunStarts(states) : i <= k /\ k < RunEnd(states, i)
<1> DEFINE Back == {m \in Nat : k - m \in RunStarts(states)}
<1>1. Len(states) \in Nat /\ k \in Nat /\ 1 \in RunStarts(states)
  BY DEF IsLog, RunStarts
<1>2. k - 1 \in Back
  <2>1. k - (k - 1) = 1 /\ k - 1 \in Nat
    BY <1>1
  <2> QED BY <1>1, <2>1
<1>3. PICK m \in Back : \A n \in Back : m <= n
  BY <1>2, LeastOf
<1> DEFINE i == k - m
           end == RunEnd(states, i)
<1>4. m \in Nat /\ i \in RunStarts(states) /\ i <= k
  BY <1>1, <1>3
<1>5. /\ end \in Nat /\ i \in Nat /\ i < end
      /\ end = Len(states) + 1 \/ end \in RunStarts(states)
  <2> HIDE DEF i
  <2> QED BY <1>1, <1>4, RunsEndWhereOneStarts
<1>6. i = k - m
  OBVIOUS
<1>7. ASSUME end \in RunStarts(states), end <= k PROVE FALSE
  <2> HIDE DEF end, i
  <2>1. k - end \in Nat /\ k - (k - end) = end
    BY <1>1, <1>5, <1>7
  <2>2. k - end \in Back
    BY <1>7, <2>1
  <2>3. m <= k - end
    BY <1>3, <2>2
  <2> QED BY <1>1, <1>4, <1>5, <1>6, <2>3
<1>8. k < end
  <2> HIDE DEF end, i
  <2> QED BY <1>1, <1>5, <1>7
<1> QED BY <1>4, <1>8

\* A bar is in the band of the run that holds the last record by then, and in no other.
LEMMA OneRunCovers ==
  ASSUME NEW states, IsLog(states), NEW bars, NEW bar \in Nat, NEW k,
         IsLatest(states, k, bar), NEW i \in RunStarts(states)
  PROVE  Covers(Segment(states, bars, i), bar) <=> i <= k /\ k < RunEnd(states, i)
<1> DEFINE end == RunEnd(states, i)
           segment == Segment(states, bars, i)
<1>1. /\ i \in 1..Len(states) /\ end \in Nat /\ i < end /\ Len(states) \in Nat
      /\ end = Len(states) + 1 \/ end \in 1..Len(states)
  BY RunsEndWhereOneStarts DEF IsLog, RunStarts
<1>2. /\ k \in 1..Len(states) /\ states[k].at <= bar
      /\ k < Len(states) => bar < states[k + 1].at
  BY DEF IsLatest
<1>3. /\ \A j \in 1..Len(states) : states[j].at \in Nat
      /\ \A j, l \in 1..Len(states) : j <= l => states[j].at <= states[l].at
  BY DEF IsLog
<1>4. segment.start = states[i].at
      /\ segment.end = IF end > Len(states) THEN None ELSE states[end].at
  BY DEF Segment
<1> HIDE DEF end, segment
<1>5. end <= Len(states) => states[end].at \in Nat /\ states[end].at # None
  BY <1>1, <1>3, NoneAssumption
<1>6. Covers(segment, bar)
        <=> states[i].at <= bar /\ (end <= Len(states) => bar < states[end].at)
  BY <1>1, <1>4, <1>5 DEF Covers
<1>7. ASSUME i <= k, k < end PROVE Covers(segment, bar)
  <2>1. states[i].at <= bar
    BY <1>1, <1>2, <1>3, <1>7
  <2>2. ASSUME end <= Len(states) PROVE bar < states[end].at
    <3>1. k < Len(states) /\ k + 1 \in 1..Len(states) /\ k + 1 <= end /\ end \in 1..Len(states)
      BY <1>1, <1>2, <1>7, <2>2
    <3>2. states[k + 1].at <= states[end].at /\ bar < states[k + 1].at
      BY <1>2, <1>3, <3>1
    <3> QED BY <1>3, <3>1, <3>2
  <2> QED BY <1>6, <2>1, <2>2
<1>8. ASSUME states[i].at <= bar PROVE i <= k
  <2> SUFFICES ASSUME k < i PROVE FALSE
    BY <1>1, <1>2
  <2>1. k < Len(states) /\ k + 1 \in 1..Len(states) /\ k + 1 <= i
    BY <1>1, <1>2
  <2>2. states[k + 1].at <= states[i].at /\ bar < states[k + 1].at
    BY <1>1, <1>2, <1>3, <2>1
  <2> QED BY <1>1, <1>3, <1>8, <2>1, <2>2
<1>9. ASSUME end <= Len(states) => bar < states[end].at PROVE k < end
  <2> SUFFICES ASSUME end <= k PROVE FALSE
    BY <1>1, <1>2
  <2>1. end \in 1..Len(states) /\ states[end].at <= states[k].at
    BY <1>1, <1>2, <1>3
  <2>2. bar < states[end].at
    BY <1>9, <2>1
  <2> QED BY <1>2, <1>3, <2>1, <2>2
<1> QED BY <1>6, <1>7, <1>8, <1>9 DEF segment, end

LEMMA RunsAreApart ==
  ASSUME NEW states, IsLog(states), NEW k \in Nat,
         NEW i \in RunStarts(states), i <= k, k < RunEnd(states, i),
         NEW j \in RunStarts(states), j <= k, k < RunEnd(states, j)
  PROVE  i = j
<1>1. i \in Nat /\ j \in Nat /\ RunEnd(states, i) \in Nat /\ RunEnd(states, j) \in Nat
  BY RunsEndWhereOneStarts
<1>2. ~(j > i) /\ ~(i > j)
  BY <1>1, RunsEndWhereOneStarts
<1> QED BY <1>1, <1>2

\* The bands of a log over some bars, on one of them.
LEMMA BandsOfALog ==
  ASSUME NEW states, IsLog(states), NEW bars, NEW bar \in DOMAIN bars, bar \in Nat
  PROVE  /\ (\A i \in 1..Len(states) : bar < states[i].at)
               => \A s \in Segments(states, bars) : ~Covers(s, bar)
         /\ \A k : IsLatest(states, k, bar) =>
              \E s \in Segments(states, bars) :
                /\ Covers(s, bar) /\ s.regime = states[k].regime
                /\ \A t \in Segments(states, bars) : Covers(t, bar) => t = s
<1>1. ASSUME \A i \in 1..Len(states) : bar < states[i].at, NEW s \in Segments(states, bars)
      PROVE  ~Covers(s, bar)
  <2>1. PICK i \in RunStarts(states) : s = Segment(states, bars, i)
    BY DEF Segments
  <2>2. s.start = states[i].at /\ i \in 1..Len(states)
    BY <2>1, RunsEndWhereOneStarts DEF Segment
  <2>3. states[i].at \in Nat /\ bar < states[i].at
    BY <1>1, <2>2 DEF IsLog
  <2> QED BY <2>2, <2>3 DEF Covers
<1>2. ASSUME NEW k, IsLatest(states, k, bar)
      PROVE  \E s \in Segments(states, bars) :
                /\ Covers(s, bar) /\ s.regime = states[k].regime
                /\ \A t \in Segments(states, bars) : Covers(t, bar) => t = s
  <2>1. k \in 1..Len(states) /\ k \in Nat
    BY <1>2 DEF IsLatest, IsLog
  <2>2. PICK i \in RunStarts(states) : i <= k /\ k < RunEnd(states, i)
    BY <2>1, EachRecordIsInARun
  <2> DEFINE s == Segment(states, bars, i)
  <2>3. Covers(s, bar)
    BY <1>2, <2>2, OneRunCovers
  <2>4. s \in Segments(states, bars)
    <3>1. bar \in s.spanned
      BY <2>3 DEF Segment, Covers
    <3> QED BY <3>1 DEF Segments
  <2>5. s.regime = states[k].regime
    <3> DEFINE end == RunEnd(states, i)
    <3>1. i \in Nat /\ end \in Nat /\ i < end
      <4>1. i \in 1..Len(states) /\ end \in Nat /\ i < end
        BY RunsEndWhereOneStarts
      <4> QED BY <4>1
    <3>2. k \in i..(end - 1) /\ end - 1 \in i..(end - 1)
      BY <2>1, <2>2, <3>1
    <3>3. states[k].regime = states[i].regime /\ states[end - 1].regime = states[i].regime
      BY <3>2, RunsKeepTheirRegime
    <3>4. s.regime = states[end - 1].regime
      BY DEF Segment, Representative
    <3> QED BY <3>3, <3>4
  <2>6. ASSUME NEW t \in Segments(states, bars), Covers(t, bar) PROVE t = s
    <3>1. PICK j \in RunStarts(states) : t = Segment(states, bars, j)
      BY DEF Segments
    <3>2. j <= k /\ k < RunEnd(states, j)
      BY <1>2, <2>6, <3>1, OneRunCovers
    <3>3. i = j
      BY <2>1, <2>2, <3>2, RunsAreApart
    <3> QED BY <3>1, <3>3
  <2> QED BY <2>3, <2>4, <2>5, <2>6
<1> QED BY <1>1, <1>2

\* The cold start cut off a feed leaves the bands of every later bar as they were.
LEMMA TrimLeavesLaterBars ==
  ASSUME NEW states, IsLog(states), NEW bars, NEW from \in Nat, NEW bar \in Nat, bar >= from
  PROVE  /\ \A s \in Segments(states, bars) :
              Covers(s, bar) => [s EXCEPT !.start = Larger(@, from)]
                                   \in TrimWarmup(Segments(states, bars), from)
         /\ \A s \in Segments(states, bars) :
              LET t == [s EXCEPT !.start = Larger(@, from)]
              IN /\ t.regime = s.regime
                 /\ Covers(t, bar) <=> Covers(s, bar)
<1> SUFFICES ASSUME NEW s \in Segments(states, bars)
             PROVE  LET t == [s EXCEPT !.start = Larger(@, from)]
                    IN /\ Covers(s, bar) => t \in TrimWarmup(Segments(states, bars), from)
                       /\ t.regime = s.regime
                       /\ Covers(t, bar) <=> Covers(s, bar)
  OBVIOUS
<1> DEFINE t == [s EXCEPT !.start = Larger(@, from)]
<1>1. PICK i \in RunStarts(states) : s = Segment(states, bars, i)
  BY DEF Segments
<1>2. s.start = states[i].at
      /\ s.end = IF RunEnd(states, i) > Len(states) THEN None ELSE states[RunEnd(states, i)].at
  BY <1>1 DEF Segment
<1>3. s.start \in Nat /\ (s.end = None \/ s.end \in Nat)
  <2>1. /\ i \in 1..Len(states) /\ Len(states) \in Nat /\ RunEnd(states, i) \in Nat
        /\ RunEnd(states, i) = Len(states) + 1 \/ RunEnd(states, i) \in 1..Len(states)
    BY RunsEndWhereOneStarts DEF IsLog, RunStarts
  <2> QED BY <1>2, <2>1 DEF IsLog
<1>4. t.start = Larger(s.start, from) /\ t.end = s.end /\ t.regime = s.regime
  BY <1>1 DEF Segment
<1>5. Covers(t, bar) <=> Covers(s, bar)
  BY <1>3, <1>4 DEF Covers, Larger
<1>6. Covers(s, bar) => s.end = None \/ s.end > from
  BY <1>3 DEF Covers
<1>7. Covers(s, bar) => t \in TrimWarmup(Segments(states, bars), from)
  BY <1>6 DEF TrimWarmup
<1> QED BY <1>4, <1>5, <1>7

LEMMA LogsAreLogs ==
  ASSUME NEW covers \in Nat
  PROVE  /\ IsLog(LogOf(covers))
         /\ \A i \in 1..Len(LogOf(covers)) : LogOf(covers)[i] = States[i]
         /\ 1..Len(LogOf(covers)) = {i \in 1..Len(States) : States[i].at <= covers}
<1> DEFINE log == LogOf(covers)
<1>1. Len(log) \in Nat /\ DOMAIN log = 1..Len(log)
  BY LogIsPrefix
<1>2. /\ Len(States) \in Nat /\ DOMAIN States = 1..Len(States)
      /\ \A i \in 1..Len(States) : States[i].at \in Nat
      /\ \A i, j \in 1..Len(States) : i <= j => States[i].at <= States[j].at
  BY LogAssumption
<1>3. DOMAIN log = {i \in 1..Len(States) : States[i].at <= covers}
  BY <1>2 DEF LogOf, Restrict
<1>4. \A i \in DOMAIN log : log[i] = States[i]
  BY DEF LogOf, Restrict
<1> HIDE DEF log
<1>5. 1..Len(log) \subseteq 1..Len(States) /\ \A i \in 1..Len(log) : log[i] = States[i]
  BY <1>1, <1>3, <1>4
<1>6. IsLog(log)
  BY <1>1, <1>2, <1>5 DEF IsLog
<1> QED BY <1>1, <1>3, <1>5, <1>6 DEF log

\* What regime_feed.py says of its segments and regime_report.py and regime_windows.py
\* rely on: the bands of a feed follow one another.  No two cover one bar, a bar from the
\* first record on is covered, and its band is of the regime of the last record by that
\* bar, however many bars and records the feed was built from after it: what is drawn
\* over the past never changes its regime from one build to the next.
THEOREM BandsFollowOneAnother ==
  ASSUME NEW covers \in 0..Len(Prices), NEW bar \in TrimFrom..covers
  PROVE  LET by == {i \in 1..Len(States) : States[i].at <= bar}
             on == {s \in FeedOf[covers].segments : Covers(s, bar)}
         IN IF by = {} THEN on = {}
            ELSE \E s : on = {s} /\ s.regime = States[Max(by)].regime
<1> DEFINE log == LogOf(covers)
           bars == SubSeq(Prices, 1, covers)
           untrimmed == Segments(log, bars)
           trimmed == TrimWarmup(untrimmed, TrimFrom)
           by == {i \in 1..Len(States) : States[i].at <= bar}
           on == {s \in FeedOf[covers].segments : Covers(s, bar)}
           last == Len(LogOf(bar))
<1>1. /\ covers \in Nat /\ bar \in Nat /\ TrimFrom \in Nat \ {0}
      /\ TrimFrom <= bar /\ bar <= covers
  BY FeedAssumption
<1>2. DOMAIN bars = 1..covers /\ Len(bars) = covers
  <2> DEFINE all == {Prices[i] : i \in 1..covers}
  <2>1. \A i \in 1..covers : Prices[i] \in all
    OBVIOUS
  <2>2. 1 \in Int /\ covers \in Int /\ 1 <= covers
    BY <1>1
  <2> HIDE DEF all
  <2>3. bars \in Seq(all) /\ Len(bars) = covers - 1 + 1
    BY <2>1, <2>2, SubSeqProperties
  <2>4. DOMAIN bars = 1..Len(bars)
    BY <2>3
  <2> QED BY <1>1, <2>3, <2>4
<1>3. IsLog(log) /\ \A i \in 1..Len(log) : log[i] = States[i]
  BY <1>1, LogsAreLogs
<1>4. 1..Len(log) = {i \in 1..Len(States) : States[i].at <= covers}
  BY <1>1, LogsAreLogs
<1>5. last \in Nat /\ by = 1..last
  BY <1>1, LogsAreLogs DEF IsLog
<1>6. FeedOf[covers].segments = trimmed
  BY <1>1, <1>2 DEF FeedOf, Feed
<1>7. bar \in DOMAIN bars
  BY <1>1, <1>2
<1>8. Len(States) \in Nat /\ \A i \in 1..Len(States) : States[i].at \in Nat
  BY LogAssumption
<1>9. Len(log) \in Nat
  BY <1>3 DEF IsLog
<1> HIDE DEF log, bars, last
<1>10. \A t \in trimmed : Covers(t, bar) =>
          \E s \in untrimmed : t = [s EXCEPT !.start = Larger(@, TrimFrom)] /\ Covers(s, bar)
  <2> TAKE t \in trimmed
  <2>1. PICK s \in untrimmed : t = [s EXCEPT !.start = Larger(@, TrimFrom)]
    BY DEF TrimWarmup
  <2>2. Covers(t, bar) <=> Covers(s, bar)
    BY <1>1, <1>3, <2>1, TrimLeavesLaterBars
  <2> QED BY <2>1, <2>2
<1>11. CASE by = {}
  <2>1. \A i \in 1..Len(log) : bar < log[i].at
    <3> TAKE i \in 1..Len(log)
    <3>1. i \in 1..Len(States) /\ log[i] = States[i] /\ i \notin by
      BY <1>3, <1>4, <1>11
    <3> QED BY <1>1, <1>8, <3>1
  <2>2. \A s \in untrimmed : ~Covers(s, bar)
    BY <1>1, <1>3, <1>7, <2>1, BandsOfALog
  <2> QED BY <1>6, <1>10, <1>11, <2>2
<1>12. CASE by # {}
  <2>1. last \in by /\ last >= 1
    BY <1>5, <1>12
  <2>2. last \in 1..Len(log)
    BY <1>1, <1>4, <1>8, <2>1
  <2>3. last < Len(log) => bar < log[last + 1].at
    <3> SUFFICES ASSUME last < Len(log) PROVE bar < log[last + 1].at
      OBVIOUS
    <3>1. last + 1 \in 1..Len(log) /\ last + 1 \notin by
      BY <1>5, <1>9
    <3>2. last + 1 \in 1..Len(States) /\ log[last + 1] = States[last + 1]
      BY <1>3, <1>4, <3>1
    <3> QED BY <1>1, <1>8, <3>1, <3>2
  <2>4. IsLatest(log, last, bar)
    BY <1>3, <2>1, <2>2, <2>3 DEF IsLatest
  <2>5. PICK s \in untrimmed :
          /\ Covers(s, bar) /\ s.regime = log[last].regime
          /\ \A t \in untrimmed : Covers(t, bar) => t = s
    BY <1>1, <1>3, <1>7, <2>4, BandsOfALog
  <2> DEFINE t == [s EXCEPT !.start = Larger(@, TrimFrom)]
  <2>6. t \in trimmed /\ Covers(t, bar) /\ t.regime = States[last].regime
    <3>1. t \in trimmed
      BY <1>1, <1>3, <2>5, TrimLeavesLaterBars
    <3>2. t.regime = s.regime /\ (Covers(t, bar) <=> Covers(s, bar))
      BY <1>1, <1>3, TrimLeavesLaterBars
    <3>3. log[last] = States[last]
      BY <1>3, <2>2
    <3> QED BY <2>5, <3>1, <3>2, <3>3
  <2>7. \A u \in trimmed : Covers(u, bar) => u = t
    BY <1>10, <2>5
  <2>8. on = {t}
    BY <1>6, <2>6, <2>7
  <2>9. Max(by) = last
    <3>1. \A m \in by : m \in Nat /\ m <= last
      BY <1>5
    <3>2. Max(by) \in by /\ \A m \in by : Max(by) >= m
      BY <2>1, <3>1 DEF Max
    <3> DEFINE most == Max(by)
    <3>3. most \in by /\ most >= last
      BY <2>1, <3>2
    <3>4. most \in Nat /\ most <= last
      BY <3>1, <3>3
    <3> HIDE DEF most
    <3>5. most = last
      BY <1>5, <3>3, <3>4
    <3> QED BY <3>5 DEF most
  <2> QED BY <1>12, <2>6, <2>8, <2>9
<1> QED BY <1>11, <1>12

-----------------------------------------------------------------------------
LEMMA InitInv == Init => Inv
<1> SUFFICES ASSUME Init PROVE Inv
  OBVIOUS
<1>1. /\ closed = 0 /\ feed = None /\ tmp = None /\ crashes = 0
      /\ watch = [pc |-> "idle", build |-> None, tried |-> 0]
      /\ chart = [pc |-> "idle", got |-> None, header |-> None, seen |-> 0, drawn |-> Nothing]
      /\ lines = [pc |-> "idle", got |-> None, drawn |-> {}]
  BY DEF Init, NewChart
<1>2. Attempts - 1 \in Nat /\ Len(Prices) \in Nat /\ MaxCrashes \in Nat
  BY FeedAssumption
<1>3. TypeOK /\ Shapes
  BY <1>1, <1>2 DEF TypeOK, Shapes
<1>4. WholeFeedsOnly /\ PublishIsWhole /\ DrawnFromOne
  BY <1>1 DEF WholeFeedsOnly, PublishIsWhole, DrawnFromOne
<1>5. NeverAhead
  BY <1>1, EdgeType DEF NeverAhead
<1> QED BY <1>3, <1>4, <1>5 DEF Inv

LEMMA NextInv == Inv /\ [Next]_vars => Inv'
<1> SUFFICES ASSUME Inv, [Next]_vars PROVE Inv'
  OBVIOUS
<1> USE DEF Inv
<1>0. /\ Attempts \in Nat \ {0} /\ Len(Prices) \in Nat /\ MaxCrashes \in Nat
      /\ ChartEdge \in Nat /\ ChartEdge <= Len(Prices) + 1
      /\ None \notin Builds /\ None \notin Builds \X Builds
  <2>1. closed \in Nat /\ closed <= Len(Prices) /\ Len(Prices) \in Nat
    BY FeedAssumption DEF TypeOK
  <2> QED BY <2>1, FeedAssumption, EdgeType, NoneIsNone
<1>1. CASE BarOnWire
  <2>1. /\ closed \in Nat /\ closed' = closed + 1 /\ closed' \in 0..Len(Prices)
        /\ UNCHANGED <<feed, tmp, watch, chart, lines, hung, crashes>>
    BY <1>0, <1>1 DEF BarOnWire, TypeOK
  <2>2. ChartEdge <= ChartEdge' /\ ChartEdge' \in Nat
    BY <2>1, EdgeGoesOn
  <2>3. TypeOK' /\ Shapes' /\ WholeFeedsOnly' /\ PublishIsWhole'
    BY <2>1 DEF TypeOK, Shapes, WholeFeedsOnly, PublishIsWhole
  <2>4. NeverAhead' /\ (chart'.seen = ChartEdge' => ChartEdge' = ChartEdge)
    BY <1>0, <2>1, <2>2 DEF NeverAhead, TypeOK
  <2>5. DrawnFromOne'
    BY <2>1, <2>4 DEF DrawnFromOne
  <2> QED BY <2>3, <2>4, <2>5
<1>2. CASE Publish
  <2> DEFINE build == [stamp |-> NewStamp, covers |-> closed]
  <2>1. build \in Builds
    BY StampIsNew DEF Builds, TypeOK
  <2>2. /\ watch' = [pc |-> "writing", build |-> build, tried |-> 0]
        /\ tmp' = <<build, None>>
        /\ UNCHANGED <<closed, feed, chart, lines, hung, crashes>>
    BY <1>2 DEF Publish
  <2> HIDE DEF build
  <2>3. TypeOK'
    BY <1>0, <2>1, <2>2 DEF TypeOK
  <2>4. PublishIsWhole' /\ Shapes'
    BY <2>1, <2>2 DEF PublishIsWhole, Shapes
  <2>5. WholeFeedsOnly' /\ NeverAhead' /\ DrawnFromOne'
    BY <2>2 DEF WholeFeedsOnly, NeverAhead, DrawnFromOne, ChartEdge
  <2> QED BY <2>3, <2>4, <2>5
<1>3. CASE WriteRest
  <2>1. /\ watch.build \in Builds /\ tmp' = <<watch.build, watch.build>>
        /\ watch' = [watch EXCEPT !.pc = "renaming"]
        /\ UNCHANGED <<closed, feed, chart, lines, hung, crashes>>
    BY <1>3 DEF WriteRest, PublishIsWhole, Whole
  <2>2. watch' = [pc |-> "renaming", build |-> watch.build, tried |-> watch.tried]
    BY <2>1 DEF Shapes
  <2>3. TypeOK'
    BY <1>0, <2>1, <2>2 DEF TypeOK
  <2>4. PublishIsWhole' /\ Shapes'
    BY <2>1, <2>2 DEF PublishIsWhole, Shapes, Whole
  <2>5. WholeFeedsOnly' /\ NeverAhead' /\ DrawnFromOne'
    BY <2>1 DEF WholeFeedsOnly, NeverAhead, DrawnFromOne, ChartEdge
  <2> QED BY <2>3, <2>4, <2>5
<1>4. CASE Rename
  <2>1. /\ watch.build \in Builds /\ feed' = <<watch.build, watch.build>> /\ tmp' = None
        /\ watch' = [pc |-> "idle", build |-> None, tried |-> 0]
        /\ chart.pc # "reading" /\ lines.pc # "reading"
        /\ UNCHANGED <<closed, chart, lines, hung, crashes>>
    BY <1>4 DEF Rename, Opened, PublishIsWhole, Whole
  <2>2. TypeOK'
    BY <1>0, <2>1 DEF TypeOK
  <2>3. PublishIsWhole' /\ Shapes'
    BY <2>1 DEF PublishIsWhole, Shapes
  <2>4. WholeFeedsOnly' /\ NeverAhead' /\ DrawnFromOne'
    BY <2>1 DEF WholeFeedsOnly, NeverAhead, DrawnFromOne, ChartEdge
  <2> QED BY <2>2, <2>3, <2>4
<1>5. CASE Refused
  <2>1. /\ watch.pc = "renaming" /\ watch' = AfterRefusal(watch)
        /\ UNCHANGED <<closed, feed, tmp, chart, lines, hung, crashes>>
    BY <1>5 DEF Refused
  <2>2. \/ watch' = [pc |-> "idle", build |-> None, tried |-> 0]
        \/ /\ watch' = [pc |-> "renaming", build |-> watch.build, tried |-> watch.tried + 1]
           /\ watch.tried + 1 # Attempts
    BY <2>1 DEF AfterRefusal, Shapes
  <2>3. TypeOK'
    BY <1>0, <2>1, <2>2 DEF TypeOK
  <2>4. PublishIsWhole' /\ Shapes'
    BY <2>1, <2>2 DEF PublishIsWhole, Shapes
  <2>5. WholeFeedsOnly' /\ NeverAhead' /\ DrawnFromOne'
    BY <2>1 DEF WholeFeedsOnly, NeverAhead, DrawnFromOne, ChartEdge
  <2> QED BY <2>3, <2>4, <2>5
<1>6. CASE WatchDies \/ WatchAgain
  <2>1. /\ watch'.pc \in {"dead", "idle"} /\ watch'.tried \in {0, watch.tried}
        /\ watch' = [pc |-> watch'.pc, build |-> watch'.build, tried |-> watch'.tried]
        /\ crashes' \in 0..MaxCrashes
        /\ UNCHANGED <<closed, feed, tmp, chart, lines, hung>>
    BY <1>0, <1>6 DEF WatchDies, WatchAgain, TypeOK, Shapes
  <2>2. TypeOK'
    BY <1>0, <2>1 DEF TypeOK
  <2>3. PublishIsWhole' /\ Shapes'
    BY <2>1 DEF PublishIsWhole, Shapes
  <2>4. WholeFeedsOnly' /\ NeverAhead' /\ DrawnFromOne'
    BY <2>1 DEF WholeFeedsOnly, NeverAhead, DrawnFromOne, ChartEdge
  <2> QED BY <2>2, <2>3, <2>4
<1>7. CASE ChartOpens
  <2> DEFINE c == IF chart.seen # ChartEdge THEN OnNewBar(chart) ELSE chart
             h == IF chart.seen # ChartEdge THEN None ELSE chart.header
  <2>1. /\ chart' = IF feed = None THEN c ELSE [c EXCEPT !.pc = "reading", !.got = feed[1]]
        /\ chart.pc = "idle"
        /\ UNCHANGED <<closed, feed, tmp, watch, lines, hung, crashes>>
    BY <1>7 DEF ChartOpens, Opened, TypeOK
  <2>2. c = [pc |-> "idle", got |-> chart.got, header |-> h, seen |-> ChartEdge,
             drawn |-> chart.drawn]
    BY <2>1 DEF OnNewBar, Shapes
  <2>b. h \in {None, chart.header} /\ (h # None => chart.seen = ChartEdge)
    OBVIOUS
  <2> HIDE DEF c, h
  <2>3. \/ /\ feed = None
           /\ chart' = [pc |-> "idle", got |-> chart.got, header |-> h, seen |-> ChartEdge,
                        drawn |-> chart.drawn]
        \/ /\ feed # None
           /\ chart' = [pc |-> "reading", got |-> feed[1], header |-> h, seen |-> ChartEdge,
                        drawn |-> chart.drawn]
    BY <2>1, <2>2
  <2>4. feed # None => feed[1] \in Builds /\ feed = <<feed[1], feed[1]>>
    BY DEF TypeOK, WholeFeedsOnly
  <2>5. TypeOK'
    <3>1. /\ chart'.pc \in {"idle", "reading"} /\ chart'.got \in Builds \cup {None}
          /\ chart'.got = None <=> chart'.pc = "idle"
      BY <1>0, <2>1, <2>3, <2>4 DEF TypeOK
    <3>2. chart'.header \in Builds \cup {None}
      BY <2>b, <2>3 DEF TypeOK
    <3>3. chart'.seen \in 0..(Len(Prices) + 1)
      BY <1>0, <2>3
    <3> QED BY <2>1, <3>1, <3>2, <3>3 DEF TypeOK
  <2>6. PublishIsWhole' /\ Shapes'
    BY <2>1, <2>3 DEF PublishIsWhole, Shapes
  <2>7. WholeFeedsOnly'
    BY <2>1, <2>3, <2>4 DEF WholeFeedsOnly, Whole
  <2>8. chart'.seen = ChartEdge /\ chart'.header = h /\ chart'.drawn = chart.drawn
    BY <2>3
  <2>9. NeverAhead' /\ DrawnFromOne'
    BY <1>0, <2>1, <2>b, <2>8 DEF NeverAhead, DrawnFromOne, ChartEdge
  <2> QED BY <2>5, <2>6, <2>7, <2>9
<1>8. CASE ChartDraws
  <2> DEFINE header == Header(chart.got)
  <2>1. /\ chart.pc = "reading" /\ chart.got \in Builds /\ feed = Whole(chart.got)
        /\ feed[2] = chart.got
        /\ UNCHANGED <<closed, feed, tmp, watch, lines, hung, crashes>>
    BY <1>0, <1>8, ReadersHaveTheFeed DEF ChartDraws, TypeOK
  <2>2. header \in {None, chart.got}
    BY DEF Header
  <2>3. \/ /\ header # None /\ header = chart.header
           /\ chart' = [pc |-> "idle", got |-> None, header |-> chart.header, seen |-> chart.seen,
                        drawn |-> chart.drawn]
        \/ chart' = [pc |-> "idle", got |-> None, header |-> header, seen |-> chart.seen,
                     drawn |-> Drawing(Whole(chart.got), ChartEdge)]
    BY <1>8, <2>1 DEF ChartDraws, Shapes, Whole
  <2> HIDE DEF header
  <2>4. TypeOK'
    BY <1>0, <2>1, <2>2, <2>3 DEF TypeOK
  <2>5. PublishIsWhole' /\ Shapes' /\ WholeFeedsOnly'
    BY <2>1, <2>3 DEF PublishIsWhole, Shapes, WholeFeedsOnly
  <2>6. NeverAhead'
    BY <2>1, <2>3 DEF NeverAhead, ChartEdge
  <2>7. DrawnFromOne'
    BY <1>0, <2>1, <2>2, <2>3 DEF DrawnFromOne, ChartEdge
  <2> QED BY <2>4, <2>5, <2>6, <2>7
<1>9. CASE (\E removed \in BOOLEAN : ChartReloads(removed)) \/ TerminalRestarts
  <2>1. /\ \E drawn : chart' = [pc |-> "idle", got |-> None, header |-> None, seen |-> 0,
                                drawn |-> drawn]
        /\ lines' = [pc |-> lines'.pc, got |-> lines'.got, drawn |-> lines.drawn]
        /\ lines' = lines \/ (lines'.pc = "idle" /\ lines'.got = None)
        /\ crashes' \in 0..MaxCrashes
        /\ UNCHANGED <<closed, feed, tmp, watch>>
    <3>1. crashes < MaxCrashes => crashes + 1 \in 0..MaxCrashes
      BY <1>0 DEF TypeOK
    <3>2. CASE TerminalRestarts
      <4>1. lines' = [pc |-> "idle", got |-> None, drawn |-> lines.drawn]
        BY <3>2 DEF TerminalRestarts, Shapes
      <4> QED BY <3>1, <3>2, <4>1 DEF TerminalRestarts, NewChart
    <3>3. CASE \E removed \in BOOLEAN : ChartReloads(removed)
      <4>1. lines' = [pc |-> lines'.pc, got |-> lines'.got, drawn |-> lines.drawn]
        BY <3>3 DEF ChartReloads, Shapes
      <4>2. PICK removed \in BOOLEAN : ChartReloads(removed)
        BY <3>3
      <4>3. chart' = NewChart(IF removed THEN Nothing ELSE chart.drawn)
            /\ crashes < MaxCrashes /\ crashes' = crashes + 1
            /\ UNCHANGED <<closed, feed, tmp, watch, lines, hung>>
        BY <4>2 DEF ChartReloads
      <4> DEFINE left == IF removed THEN Nothing ELSE chart.drawn
      <4>4. chart' = [pc |-> "idle", got |-> None, header |-> None, seen |-> 0, drawn |-> left]
        BY <4>3 DEF NewChart
      <4>5. \E drawn : chart' = [pc |-> "idle", got |-> None, header |-> None, seen |-> 0,
                                 drawn |-> drawn]
        <5> WITNESS left
        <5> QED BY <4>4
      <4>6. /\ crashes' \in 0..MaxCrashes /\ lines' = lines
            /\ UNCHANGED <<closed, feed, tmp, watch>>
        BY <3>1, <4>3
      <4> QED BY <4>1, <4>5, <4>6
    <3> QED BY <1>9, <3>2, <3>3
  <2>2. TypeOK'
    BY <1>0, <2>1 DEF TypeOK
  <2>3. PublishIsWhole' /\ Shapes' /\ WholeFeedsOnly'
    BY <2>1 DEF PublishIsWhole, Shapes, WholeFeedsOnly
  <2>4. NeverAhead' /\ DrawnFromOne'
    BY <1>0, <2>1 DEF NeverAhead, DrawnFromOne, ChartEdge
  <2> QED BY <2>2, <2>3, <2>4
<1>10. CASE LinesOpen \/ LinesDraw
  <2>1. \/ /\ feed # None
           /\ lines' = [pc |-> "reading", got |-> feed[1], drawn |-> lines.drawn]
        \/ lines' = [pc |-> "idle", got |-> None, drawn |-> lines'.drawn]
    <3>1. CASE LinesOpen
      BY <3>1 DEF LinesOpen, Shapes
    <3>2. CASE LinesDraw
      <4>1. lines' = [pc |-> "idle", got |-> None, drawn |-> SessionLines(<<lines.got, feed[2]>>)]
        BY <3>2 DEF LinesDraw
      <4> HIDE DEF SessionLines
      <4> QED BY <4>1
    <3> QED BY <1>10, <3>1, <3>2
  <2>2. UNCHANGED <<closed, feed, tmp, watch, chart, hung, crashes>>
    BY <1>10 DEF LinesOpen, LinesDraw
  <2>3. feed # None => feed[1] \in Builds /\ feed = <<feed[1], feed[1]>>
    BY DEF TypeOK, WholeFeedsOnly
  <2>4. TypeOK'
    BY <1>0, <2>1, <2>2, <2>3 DEF TypeOK
  <2>5. PublishIsWhole' /\ Shapes'
    BY <2>1, <2>2 DEF PublishIsWhole, Shapes
  <2>6. WholeFeedsOnly'
    BY <2>1, <2>2, <2>3 DEF WholeFeedsOnly, Whole
  <2>7. NeverAhead' /\ DrawnFromOne'
    BY <2>2 DEF NeverAhead, DrawnFromOne, ChartEdge
  <2> QED BY <2>4, <2>5, <2>6, <2>7
<1>11. CASE TerminalHangs \/ TerminalAnswers
  <2>1. /\ crashes' \in 0..MaxCrashes
        /\ UNCHANGED <<closed, feed, tmp, watch, chart, lines>>
    BY <1>0, <1>11 DEF TerminalHangs, TerminalAnswers, TypeOK
  <2> QED BY <2>1 DEF TypeOK, Shapes, WholeFeedsOnly, PublishIsWhole, NeverAhead, DrawnFromOne,
                     ChartEdge
<1>12. CASE UNCHANGED vars
  BY <1>12 DEF vars, TypeOK, Shapes, WholeFeedsOnly, PublishIsWhole, NeverAhead, DrawnFromOne,
               ChartEdge
<1> QED BY <1>1, <1>2, <1>3, <1>4, <1>5, <1>6, <1>7, <1>8, <1>9, <1>10, <1>11, <1>12 DEF Next

(* Whatever is renamed, refused, killed or reloaded when, a chart shows one *)
(* whole feed and claims nothing that feed does not (VO_Regime.mq5:315).    *)
THEOREM ChartsShowOneFeed == Spec => []FeedIsTakenWhole
<1>1. Inv => FeedIsTakenWhole
  <2>1. ASSUME Inv, chart.header # None PROVE NothingBeyondTheFeed
    <3>1. PICK edge \in Nat : chart.drawn = Drawing(Whole(chart.header), edge)
      BY <2>1 DEF Inv, DrawnFromOne
    <3>2. chart.header \in Builds
      BY <2>1 DEF Inv, TypeOK
    <3> QED BY <3>1, <3>2, BandsEnd DEF NothingBeyondTheFeed
  <2> QED BY <2>1 DEF Inv, DrawnFromOne, FeedIsTakenWhole, ChartIsOneFeed, NothingBeyondTheFeed
<1> QED BY <1>1, InitInv, NextInv, PTL DEF Spec
===============================================================================
