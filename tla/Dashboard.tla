----------------------------- MODULE Dashboard -----------------------------
(***************************************************************************)
(* The dashboard backend: run_ea_link reads RuntimeState lines from the    *)
(* EA's telemetry port into the StateHub, which fans them out to the       *)
(* ws_runtime task of every browser.  One event loop runs them all: a task *)
(* is interrupted only where it waits, and StateHub.publish never waits.   *)
(*                                                                         *)
(* A RuntimeState is the number of the publish that made it, and whether   *)
(* it says CONNECTED.                                                      *)
(***************************************************************************)
EXTENDS Naturals, Sequences, SequencesExt

CONSTANTS
  Browsers,    \* the browser tabs that may open /ws/runtime
  QueueSize,   \* maxsize of a subscriber's queue
  MaxWire,     \* bound: lines on their way from the EA
  MaxPublish   \* bound: the hub publishes this often

ASSUME DashboardAssumption ==
  {QueueSize, MaxWire, MaxPublish} \subseteq Nat \ {0}

VARIABLES
  ea,        \* the EA at the other end: down, up, closed or reset
  wire,      \* the lines it has sent that the link has not read
  link,      \* what run_ea_link's task is at
  current,   \* _current
  tab,       \* each browser's ws_runtime task
  gone,      \* the browsers that have been closed
  queue,     \* each subscriber's queue
  outgoing,  \* what each ws_runtime task is sending
  shown      \* what each browser has last received

hubVars == <<current, queue>>
tabVars == <<tab, gone, outgoing, shown>>
dashboardVars == <<ea, wire, link, hubVars, tabVars>>

State == [id : 0..MaxPublish, connected : BOOLEAN]
Initial == [id |-> 0, connected |-> FALSE]

(* state: one that parses.  junk: one _parse_line rejects with an error    *)
(* its caller catches.  poison: one that fails outside that try, by not    *)
(* being UTF-8, not an object or too long.                                 *)
Lines == {"state", "junk", "poison"}

DashboardTypeOK ==
  /\ ea \in {"down", "up", "closed", "reset"}
  /\ wire \in Seq(Lines) /\ Len(wire) <= MaxWire
  /\ link \in {"connecting", "reading", "sleeping", "dead"}
  /\ current \in State
  /\ tab \in [Browsers -> {"away", "sending", "waiting"}]
  /\ gone \subseteq Browsers
  /\ queue \in [Browsers -> Seq(State)]
  /\ \A b \in Browsers : Len(queue[b]) <= QueueSize
  /\ outgoing \in [Browsers -> State]
  /\ shown \in [Browsers -> State]

DashboardInit ==
  /\ ea = "down"
  /\ wire = <<>>
  /\ link = "connecting"
  /\ current = Initial
  /\ tab = [b \in Browsers |-> "away"]
  /\ gone = {}
  /\ queue = [b \in Browsers |-> <<>>]
  /\ outgoing = [b \in Browsers |-> Initial]
  /\ shown = [b \in Browsers |-> Initial]

-----------------------------------------------------------------------------
(* StateHub.                                                               *)

Subscribed(b) == tab[b] # "away"

(* Mutant: a full queue keeps what it has.                                 *)
PutIfRoom(q, state) == IF Len(q) = QueueSize THEN q ELSE Append(q, state)

(* A full queue drops its oldest message.                                  *)
Put(q, state) == Append(IF Len(q) = QueueSize THEN Tail(q) ELSE q, state)

HubPublishes(connected) ==
  /\ current.id < MaxPublish
  /\ current' = [id |-> current.id + 1, connected |-> connected]
  /\ queue' = [b \in Browsers |->
                 IF Subscribed(b) THEN Put(queue[b], current') ELSE queue[b]]

-----------------------------------------------------------------------------
(* The EA's end of the connection.                                         *)

EaStarts ==
  /\ ea \in {"down", "closed", "reset"}
  /\ link # "reading"
  /\ ea' = "up"
  /\ UNCHANGED <<wire, link, hubVars, tabVars>>

EaSends(what) ==
  /\ ea = "up" /\ link = "reading"
  /\ Len(wire) < MaxWire
  /\ wire' = Append(wire, what)
  /\ UNCHANGED <<ea, link, hubVars, tabVars>>

(* It closes the connection, or is killed and the connection reset.        *)
EaEnds(how) ==
  /\ ea = "up"
  /\ ea' = IF link = "reading" THEN how ELSE "down"
  /\ UNCHANGED <<wire, link, hubVars, tabVars>>

-----------------------------------------------------------------------------
(* run_ea_link.                                                            *)

ConnectRefused ==
  /\ link = "connecting" /\ ea # "up"
  /\ HubPublishes(FALSE)
  /\ link' = "sleeping"
  /\ UNCHANGED <<ea, wire, tabVars>>

ConnectOk ==
  /\ link = "connecting" /\ ea = "up"
  /\ link' = "reading"
  /\ UNCHANGED <<ea, wire, hubVars, tabVars>>

(* Nothing for STALE_AFTER_SECONDS.                                        *)
ReadTimeout ==
  /\ link = "reading" /\ wire = <<>> /\ ea \notin {"closed", "reset"}
  /\ HubPublishes(FALSE)
  /\ UNCHANGED <<ea, wire, link, tabVars>>

ReadState ==
  /\ link = "reading" /\ wire # <<>> /\ Head(wire) = "state"
  /\ HubPublishes(TRUE)
  /\ wire' = Tail(wire)
  /\ UNCHANGED <<ea, link, tabVars>>

ReadJunk ==
  /\ link = "reading" /\ wire # <<>> /\ Head(wire) = "junk"
  /\ wire' = Tail(wire)
  /\ UNCHANGED <<ea, link, hubVars, tabVars>>

(* Mutant: a clean disconnect says nothing to the hub.                     *)
EofUnreported ==
  /\ link = "reading" /\ wire = <<>> /\ ea = "closed"
  /\ link' = "sleeping"
  /\ UNCHANGED <<ea, wire, hubVars, tabVars>>

ReadEof ==
  /\ link = "reading" /\ wire = <<>> /\ ea = "closed"
  /\ HubPublishes(FALSE)
  /\ link' = "sleeping"
  /\ UNCHANGED <<ea, wire, tabVars>>

(* readline, decode or _parse_line raises what nobody catches: the finally *)
(* publishes, and the task ends.  A reset discards what was not read.      *)
ReadRaises ==
  /\ link = "reading"
  /\ ea = "reset" \/ (wire # <<>> /\ Head(wire) = "poison")
  /\ HubPublishes(FALSE)
  /\ link' = "dead"
  /\ wire' = <<>>
  /\ UNCHANGED <<ea, tabVars>>

Wake ==
  /\ link = "sleeping"
  /\ link' = "connecting"
  /\ UNCHANGED <<ea, wire, hubVars, tabVars>>

-----------------------------------------------------------------------------
(* ws_runtime.                                                             *)

(* It subscribes and reads the hub without a wait in between; what it read *)
(* is then sent.                                                           *)
Open(b) ==
  /\ tab[b] = "away" /\ b \notin gone
  /\ tab' = [tab EXCEPT ![b] = "sending"]
  /\ outgoing' = [outgoing EXCEPT ![b] = current]
  /\ UNCHANGED <<ea, wire, link, hubVars, gone, shown>>

(* Mutant: the greeting is composed only when it can be sent.              *)
GreetsLate(b) ==
  /\ tab[b] = "sending" /\ b \notin gone
  /\ shown' = [shown EXCEPT ![b] = IF @ = Initial THEN current ELSE outgoing[b]]
  /\ tab' = [tab EXCEPT ![b] = "waiting"]
  /\ UNCHANGED <<ea, wire, link, hubVars, gone, outgoing>>

Sent(b) ==
  /\ tab[b] = "sending" /\ b \notin gone
  /\ shown' = [shown EXCEPT ![b] = outgoing[b]]
  /\ tab' = [tab EXCEPT ![b] = "waiting"]
  /\ UNCHANGED <<ea, wire, link, hubVars, gone, outgoing>>

Take(b) ==
  /\ tab[b] = "waiting" /\ queue[b] # <<>>
  /\ outgoing' = [outgoing EXCEPT ![b] = Head(queue[b])]
  /\ queue' = [queue EXCEPT ![b] = Tail(@)]
  /\ tab' = [tab EXCEPT ![b] = "sending"]
  /\ UNCHANGED <<ea, wire, link, current, gone, shown>>

CloseTab(b) ==
  /\ tab[b] # "away" /\ b \notin gone
  /\ gone' = gone \cup {b}
  /\ UNCHANGED <<ea, wire, link, hubVars, tab, outgoing, shown>>

(* Only a send notices that its browser has gone.                          *)
SendFails(b) ==
  /\ tab[b] = "sending" /\ b \in gone
  /\ tab' = [tab EXCEPT ![b] = "away"]
  /\ queue' = [queue EXCEPT ![b] = <<>>]
  /\ gone' = gone \ {b}
  /\ outgoing' = [outgoing EXCEPT ![b] = Initial]
  /\ shown' = [shown EXCEPT ![b] = Initial]
  /\ UNCHANGED <<ea, wire, link, current>>

DashboardNext ==
  \/ EaStarts
  \/ \E what \in Lines : EaSends(what)
  \/ \E how \in {"closed", "reset"} : EaEnds(how)
  \/ ConnectRefused \/ ConnectOk
  \/ ReadTimeout \/ ReadState \/ ReadJunk \/ ReadEof \/ ReadRaises
  \/ Wake
  \/ \E b \in Browsers : Open(b) \/ Sent(b) \/ Take(b) \/ CloseTab(b) \/ SendFails(b)

DashboardSpec == DashboardInit /\ [][DashboardNext]_dashboardVars

-----------------------------------------------------------------------------
(* Properties.                                                             *)

(* ea_link.py: "On any failure to connect, or any failure to parse a line, *)
(* or a clean disconnect, the hub is told DISCONNECTED".  Whatever ended   *)
(* the connection, nobody who asks the hub is told there is one.           *)
HonestWithoutConnection == link # "reading" => ~current.connected

(* state_hub.py: "Never blocks on a slow subscriber", and drops the oldest *)
(* message instead.  So whatever a slow tab has missed, the last thing on  *)
(* its way to it is the hub's state: a tab that catches up is right, and   *)
(* one that subscribed during a publish has missed nothing.                *)
NewestOnItsWay(b) ==
  IF queue[b] # <<>> THEN Last(queue[b])
  ELSE IF tab[b] = "sending" THEN outgoing[b] ELSE shown[b]

TabsCatchUp == \A b \in Browsers : Subscribed(b) => NewestOnItsWay(b) = current

(* What a tab shows never goes back to an older state.                     *)
NoTabGoesBack ==
  [][\A b \in Browsers : Subscribed(b)' => shown'[b].id >= shown[b].id]_dashboardVars
=============================================================================
