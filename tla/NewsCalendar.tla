---------------------------- MODULE NewsCalendar ----------------------------
(***************************************************************************)
(* The way of a news event from the terminal's calendar to the gate: the   *)
(* calendar bridge (VO_CalendarBridge.mq5) truncates and rewrites one       *)
(* snapshot file on a timer, the runtime (ea_runtime.py) reads the file     *)
(* whole on a timer of its own and caches what it read, and the news gate   *)
(* (news_gate.py) judges each dispatch by that cache.                      *)
(*                                                                         *)
(* Time is counted in polls of the runtime.  Bridge, runtime and calendar   *)
(* move between any two of each other's steps.                             *)
(*                                                                         *)
(* The terminal's calendar is on its server's clock.  The bridge adds a     *)
(* fixed offset to it and calls the sum UTC, and the gate compares that     *)
(* with its own clock.                                                     *)
(***************************************************************************)
EXTENDS Integers, Sequences, SequencesExt, FiniteSets

CONSTANTS
  Events,            \* the calendar's events
  Importance,        \* [Events -> 0..3], NONE to HIGH
  Currency,          \* [Events -> a currency]
  Releases,          \* the times an event may be scheduled for
  BridgeMin, BridgeCurrencies,   \* InpMinImportance, InpCurrencyFilter
  GateMin, GateCurrencies,       \* min_importance, currencies
  Before, After,                 \* the gate's buffers
  Lookback, Lookahead,           \* what the bridge asks the calendar for
  ServerAhead(_),                \* how far the terminal's clock is ahead of UTC at a time
  UtcOffset,                     \* InpCalendarUtcOffsetMinutes
  RefreshEvery,                  \* InpRefreshMinutes
  ReadEvery,                     \* calendar_refresh_seconds
  PollEvery,                     \* the longest time from poll to poll
  MaxTime, MaxChanges, MaxFaults,  \* bounds of the model
  Unscheduled                    \* an event that is not on the calendar

ASSUME TimingAssumption ==
  /\ {RefreshEvery, ReadEvery, PollEvery} \subseteq Nat \ {0}
  /\ {Before, After, Lookback, Lookahead, MaxTime, MaxChanges, MaxFaults} \subseteq Nat
  /\ Releases \subseteq Nat
  /\ UtcOffset \in Int
  /\ \A t \in 0..MaxTime \cup Releases : ServerAhead(t) \in Int
  /\ Unscheduled \notin Nat

\* How long the two timers and a slow poll together may keep a change from the gate.
Staleness == RefreshEvery + ReadEvery + PollEvery

\* The bridge asks for two hours and fourteen days (VO_CalendarBridge.mq5:66), the gate's
\* buffers are minutes.
ASSUME ScopeAssumption ==
  /\ Before + After <= Lookback
  /\ Before + After + Staleness <= Lookahead

VARIABLES
  now,
  calendar,   \* when an event is released, in UTC: [Events -> Releases or Unscheduled]
  settled,    \* since when an event has stood as it does
  changes,    \* how often the calendar changed
  file,       \* [lines, open]: the lines on disk, and whether a refresh has it open
  bridge,     \* [up, todo, fired]: the values still to write, the timer's last firing
  runtime,    \* [up, cache, read, polled, judging]
  verdict,    \* the last judgement: [at, blocked, by]
  calm,       \* since when nothing between calendar and cache went wrong
  faults      \* how often something did

newsVars == <<now, calendar, settled, changes, file, bridge, runtime, verdict, calm, faults>>

-----------------------------------------------------------------------------
NoLines == <<>>

\* What is in a file or a cache: an event, and the time it is said to be scheduled for.
Lines == [event : Events, at : Int]

\* TimeCurrent, and the time of a calendar value: the terminal's clock at a time of UTC.
ServerTime(t) == t + ServerAhead(t)

\* CalendarTimeToUtcIso: an input of the program that is set by hand, 0 by default.
CalendarTimeToUtc(raw) == raw + UtcOffset

\* What the gate takes a time of UTC for when the bridge tells it, and by how much it errs.
Labelled(t) == CalendarTimeToUtc(ServerTime(t))
Drift(t) == Labelled(t) - t

InBridgeScope(e) ==
  /\ Importance[e] >= BridgeMin
  /\ BridgeCurrencies = {} \/ Currency[e] \in BridgeCurrencies

\* None in the configuration means every currency: here, all of them listed.
InGateScope(e) == Importance[e] >= GateMin /\ Currency[e] \in GateCurrencies

\* The range that is asked for, by the terminal's clock on both sides.
AskedFor(e, at) ==
  /\ calendar[e] # Unscheduled
  /\ ServerTime(at) - Lookback <= ServerTime(calendar[e])
  /\ ServerTime(calendar[e]) <= ServerTime(at) + Lookahead

\* CalendarValueHistory.  Nothing is known of the order of what it returns.
Values(at) ==
  {[event |-> e, at |-> ServerTime(calendar[e])] : e \in {e \in Events : AskedFor(e, at)}}

\* A mutant: the time is taken the way the offset is meant for a server behind UTC.
LineOffTheOtherWay(value) == [event |-> value.event, at |-> value.at - UtcOffset]

\* The line of a value: its time is labelled UTC.
LineOf(value) == [event |-> value.event, at |-> CalendarTimeToUtc(value.at)]

\* The bridge writes no duration: the window is the release and its buffers.
InBlackout(line, at) == line.at - Before <= at /\ at <= line.at + After

\* evaluate_news_blackout: the earliest of the events whose window covers at.
Blackout(cache, at) ==
  LET hits == {l \in cache : InGateScope(l.event) /\ InBlackout(l, at)}
  IN {l \in hits : \A k \in hits : l.at <= k.at}

NoVerdict == [at |-> 0, blocked |-> FALSE, by |-> {}]

NewsInit ==
  /\ now = 0
  /\ calendar \in [Events -> Releases \cup {Unscheduled}]
  /\ settled = [e \in Events |-> 0]
  /\ changes = 0
  /\ file = [lines |-> NoLines, open |-> FALSE]
  /\ bridge = [up |-> FALSE, todo |-> {}, fired |-> 0]
  /\ runtime = [up |-> FALSE, cache |-> {}, read |-> 0, polled |-> 0, judging |-> FALSE]
  /\ verdict = NoVerdict
  /\ calm = 0
  /\ faults = 0

Fault == /\ faults < MaxFaults
         /\ faults' = faults + 1
         /\ calm' = now

NoFault == UNCHANGED <<calm, faults>>

-----------------------------------------------------------------------------
\* The calendar's provider schedules, moves or withdraws an event.
Schedule(e, at) ==
  /\ changes < MaxChanges
  /\ at # calendar[e]
  /\ calendar' = [calendar EXCEPT ![e] = at]
  /\ settled' = [settled EXCEPT ![e] = now]
  /\ changes' = changes + 1
  /\ UNCHANGED <<now, file, bridge, runtime, verdict, calm, faults>>

\* A mutant: the output is opened like the bar log, to append.
OpenToAppend ==
  /\ file' = [file EXCEPT !.open = TRUE]
  /\ bridge' = [up |-> TRUE, todo |-> Values(now), fired |-> now]

\* RefreshSnapshot down to FileOpen, which truncates the file.
OpenSnapshot ==
  /\ file' = [lines |-> NoLines, open |-> TRUE]
  /\ bridge' = [up |-> TRUE, todo |-> Values(now), fired |-> now]

\* OnInit and OnTimer.  The timer fires RefreshEvery after it fired last.
Refresh ==
  /\ bridge.up => /\ ~file.open
                  /\ now = bridge.fired + RefreshEvery
  /\ OpenSnapshot
  /\ NoFault
  /\ UNCHANGED <<now, calendar, settled, changes, runtime, verdict>>

\* The calendar or the file cannot be opened: the old snapshot stays as it is.
RefreshFails ==
  /\ bridge.up => /\ ~file.open
                  /\ now = bridge.fired + RefreshEvery
  /\ Fault
  /\ bridge' = [up |-> TRUE, todo |-> {}, fired |-> now]
  /\ UNCHANGED <<now, calendar, settled, changes, file, runtime, verdict>>

\* One value of the loop: written when both filters pass it.
WriteLine ==
  /\ file.open
  /\ \E l \in bridge.todo :
       /\ file' = IF InBridgeScope(l.event)
                  THEN [file EXCEPT !.lines = Append(@, LineOf(l))]
                  ELSE file
       /\ bridge' = [bridge EXCEPT !.todo = @ \ {l}]
  /\ NoFault
  /\ UNCHANGED <<now, calendar, settled, changes, runtime, verdict>>

\* CalendarEventById or CalendarCountryById fails: the value is left out.
LookupFails ==
  /\ file.open
  /\ Fault
  /\ \E l \in bridge.todo : bridge' = [bridge EXCEPT !.todo = @ \ {l}]
  /\ UNCHANGED <<now, calendar, settled, changes, file, runtime, verdict>>

CloseSnapshot ==
  /\ file.open
  /\ bridge.todo = {}
  /\ file' = [file EXCEPT !.open = FALSE]
  /\ NoFault
  /\ UNCHANGED <<now, calendar, settled, changes, bridge, runtime, verdict>>

\* The terminal ends; what was not yet flushed is not in the file.
BridgeDies ==
  /\ bridge.up
  /\ Fault
  /\ \E n \in 0..Len(file.lines) :
       /\ n = Len(file.lines) \/ file.open
       /\ file' = [lines |-> SubSeq(file.lines, 1, n), open |-> FALSE]
  /\ bridge' = [bridge EXCEPT !.up = FALSE, !.todo = {}]
  /\ UNCHANGED <<now, calendar, settled, changes, runtime, verdict>>

-----------------------------------------------------------------------------
\* read_calendar_snapshot: the lines on disk, less a torn last one.  A file
\* that a refresh has open may show any part of what was written to it.
Readings ==
  {ToSet(SubSeq(file.lines, 1, n)) :
     n \in {k \in 0..Len(file.lines) : k = Len(file.lines) \/ file.open}}

Due == now - runtime.read >= ReadEvery

\* A mutant: a restarted runtime waits for the first interval to pass.
StartWithoutRead ==
  /\ ~runtime.up
  /\ runtime' = [up |-> TRUE, cache |-> {}, read |-> now, polled |-> now, judging |-> TRUE]
  /\ NoFault
  /\ UNCHANGED <<now, calendar, settled, changes, file, bridge, verdict>>

\* The process starts with an empty cache; its first poll reads whatever the time.
StartRuntime ==
  /\ ~runtime.up
  /\ \E cache \in Readings :
       runtime' = [up |-> TRUE, cache |-> cache, read |-> now, polled |-> now, judging |-> TRUE]
  /\ IF file.open THEN Fault ELSE NoFault
  /\ UNCHANGED <<now, calendar, settled, changes, file, bridge, verdict>>

\* A poll that reads the file: what it holds replaces the cache, even when it is empty.
PollReads ==
  /\ runtime.up
  /\ Due
  /\ \E cache \in Readings :
       runtime' = [runtime EXCEPT !.cache = cache, !.read = now, !.polled = now, !.judging = TRUE]
  /\ IF file.open THEN Fault ELSE NoFault
  /\ UNCHANGED <<now, calendar, settled, changes, file, bridge, verdict>>

\* A poll before the next read is due keeps the cache.
PollKeeps ==
  /\ runtime.up
  /\ ~Due
  /\ runtime.polled < now
  /\ runtime' = [runtime EXCEPT !.polled = now, !.judging = TRUE]
  /\ NoFault
  /\ UNCHANGED <<now, calendar, settled, changes, file, bridge, verdict>>

\* A poll that found a trade asks the gate, after the publish it waited for.
Judge ==
  /\ runtime.up
  /\ runtime.judging
  /\ LET by == Blackout(runtime.cache, now)
     IN verdict' = [at |-> now, blocked |-> by # {}, by |-> by]
  /\ runtime' = [runtime EXCEPT !.judging = FALSE]
  /\ NoFault
  /\ UNCHANGED <<now, calendar, settled, changes, file, bridge>>

\* The terminal has the file open for itself, and the read raises; nothing catches it.
RuntimeDies ==
  /\ runtime.up
  /\ runtime' = [runtime EXCEPT !.up = FALSE, !.cache = {}, !.judging = FALSE]
  /\ verdict' = NoVerdict
  /\ NoFault
  /\ UNCHANGED <<now, calendar, settled, changes, file, bridge>>

-----------------------------------------------------------------------------
\* Time passes: a refresh is shorter than a unit, timers and polls are on time,
\* and while the bridge is down nothing is in order.
Tick ==
  /\ now < MaxTime
  /\ ~file.open
  /\ bridge.up => now < bridge.fired + RefreshEvery
  /\ runtime.up => now < runtime.polled + PollEvery
  /\ now' = now + 1
  /\ calm' = IF bridge.up THEN calm ELSE now + 1
  /\ verdict' = NoVerdict
  /\ UNCHANGED <<calendar, settled, changes, file, bridge, runtime, faults>>

Provider == \E e \in Events, at \in Releases \cup {Unscheduled} : Schedule(e, at)
Bridge == Refresh \/ RefreshFails \/ WriteLine \/ LookupFails \/ CloseSnapshot \/ BridgeDies
Runtime == StartRuntime \/ PollReads \/ PollKeeps \/ Judge \/ RuntimeDies

NewsNext == Provider \/ Bridge \/ Runtime \/ Tick

NewsSpec == NewsInit /\ [][NewsNext]_newsVars

-----------------------------------------------------------------------------
NewsTypeOK ==
  /\ now \in 0..MaxTime
  /\ calendar \in [Events -> Releases \cup {Unscheduled}]
  /\ settled \in [Events -> 0..now]
  /\ file.lines \in Seq(Lines)
  /\ bridge.todo \subseteq Lines
  /\ ~file.open => bridge.todo = {}
  /\ file.open => bridge.up
  /\ runtime.cache \subseteq Lines
  /\ runtime.read <= runtime.polled /\ runtime.polled <= now
  /\ verdict.blocked = (verdict.by # {})
  /\ calm <= now

-----------------------------------------------------------------------------
\* Nothing went wrong on the way for long enough, and the event has stood as long.
Known(e) == calm + Staleness <= now /\ settled[e] + Staleness <= now

\* Whenever it was that the bridge asked last, the terminal's clock was not so far ahead
\* that an event left the range asked for while the gate still expects it.
InReach ==
  \A asked \in 0..now :
    now - Staleness <= asked => /\ After + Drift(asked) <= Lookback
                                /\ Before + Staleness <= Lookahead + Drift(asked)

Wanted(e) == calendar[e] # Unscheduled /\ InBridgeScope(e) /\ InGateScope(e)

\* A dispatch judged inside the window of an event that both filters want is
\* blocked, once the event has stood for Staleness and no read was torn and no
\* refresh failed for as long: also across restarts of the runtime
\* (ea_runtime.py:170, economic_calendar_ingestion.py:111, news_gate.py:92).
\* The window is around the time the bridge labels UTC (VO_CalendarBridge.mq5:238).
KnownEventsBlock ==
  verdict # NoVerdict =>
    \A e \in Events :
      /\ Known(e) /\ Wanted(e) /\ InReach
      /\ Labelled(calendar[e]) - Before <= now
      /\ now <= Labelled(calendar[e]) + After
      => verdict.blocked

\* What the gate is for (news_gate.py:3-5): nothing goes out while such an event is being
\* released.  The offset was right when it was set, by the one calibration that
\* VO_CalendarBridge.mq5:43-50 asks for, and is a constant ever after.
ReleasesBlock ==
  /\ verdict # NoVerdict
  /\ Drift(0) = 0
  => \A e \in Events : Known(e) /\ Wanted(e) /\ calendar[e] = now => verdict.blocked

\* Under the same conditions no dispatch is blocked for an event that was moved or
\* withdrawn: the snapshot is rewritten whole, so nothing stale outlives it
\* (VO_CalendarBridge.mq5:19-25 gives this as the reason for truncating).
NoFalseBlackout ==
  \A l \in verdict.by :
    Known(l.event) => /\ calendar[l.event] # Unscheduled
                      /\ l.at = Labelled(calendar[l.event])

\* The gate's state is of its types, its verdict blocked exactly by an event, and by none
\* that is no longer there (news_gate.py:92).
VerdictIsGrounded == NewsTypeOK /\ NoFalseBlackout

=============================================================================
