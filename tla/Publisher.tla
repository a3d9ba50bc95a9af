----------------------------- MODULE Publisher -----------------------------
(***************************************************************************)
(* RuntimeStatePublisher: the EA's end of the telemetry connection, on the *)
(* event loop of VOEaRuntime.run_forever.  Each dashboard that connects    *)
(* has a _handle_client task, which waits for it to leave; publish writes  *)
(* one line to every writer and waits for each to drain, and while it      *)
(* waits, the other tasks run.  Between two waits nothing else does.       *)
(*                                                                         *)
(* Iterating over a Python set raises RuntimeError when its size differs   *)
(* from what it was at the start, and yields the members it started with   *)
(* that are still there.  It goes through the slots of the set's table     *)
(* once, so it meets one that joined if that one's slot lies ahead.        *)
(* Assumed: the table is not rebuilt during one publish.                   *)
(***************************************************************************)
EXTENDS Naturals, FiniteSets

CONSTANTS
  Clients,   \* the dashboards that may connect
  Slots,     \* the size of the table behind _writers
  MaxLine    \* bound: publishes are 1..MaxLine

ASSUME PublisherAssumption ==
  /\ IsFiniteSet(Clients)
  /\ {Slots, MaxLine} \subseteq Nat
  /\ Slots > Cardinality(Clients)

VARIABLES
  loop,      \* what the runtime's task is at
  client,    \* each dashboard: away, connected, or left and not noticed yet
  writers,   \* _writers
  line,      \* the line being published, or published last
  received,  \* the latest line written to each dashboard
  size,         \* publish: the size of _writers when its loop began
  ahead,        \* the slots it may still meet a writer in that joined
  startedWith,  \* the writers of that moment that have stayed
  visited,      \* the writers the loop has had
  draining,     \* the writer it waits for, unless that one has gone
  dead          \* dead

locals == <<size, ahead, startedWith, visited, draining, dead>>
publisherVars == <<loop, client, writers, line, received, locals>>

PublisherTypeOK ==
  /\ loop \in {"polling", "iterating", "draining", "stopping", "stopped"}
  /\ client \in [Clients -> {"away", "connected", "left"}]
  /\ writers \subseteq {c \in Clients : client[c] # "away"}
  /\ line \in 0..MaxLine
  /\ received \in [Clients -> 0..MaxLine]
  /\ {startedWith, visited, draining, dead} \subseteq SUBSET Clients
  /\ draining # {} => loop = "draining"
  /\ dead \subseteq visited
  /\ {size, ahead} \subseteq Nat

PublisherInit ==
  /\ loop = "polling"
  /\ client = [c \in Clients |-> "away"]
  /\ writers = {}
  /\ line = 0
  /\ received = [c \in Clients |-> 0]
  /\ size = 0 /\ ahead = 0
  /\ startedWith = {} /\ visited = {} /\ draining = {} /\ dead = {}

(* The runtime's task is waiting: another one may run.                     *)
Suspended == loop \in {"polling", "draining", "stopping"}

-----------------------------------------------------------------------------
(* The dashboards and their _handle_client tasks.                          *)

(* start's listener accepts until stop closes it.                          *)
Connect(c) ==
  /\ loop \in {"polling", "draining"}
  /\ client[c] = "away"
  /\ client' = [client EXCEPT ![c] = "connected"]
  /\ writers' = writers \cup {c}
  /\ UNCHANGED <<loop, line, received, locals>>

Leave(c) ==
  /\ client[c] = "connected"
  /\ client' = [client EXCEPT ![c] = "left"]
  /\ UNCHANGED <<loop, writers, line, received, locals>>

(* reader.read returns, and the handler discards its writer.  A dashboard  *)
(* that comes back has another one.                                        *)
HandleGone(c) ==
  /\ Suspended
  /\ client[c] = "left"
  /\ client' = [client EXCEPT ![c] = "away"]
  /\ writers' = writers \ {c}
  /\ startedWith' = startedWith \ {c}
  /\ visited' = visited \ {c}
  /\ draining' = draining \ {c}
  /\ dead' = dead \ {c}
  /\ UNCHANGED <<loop, line, received, size, ahead>>

-----------------------------------------------------------------------------
(* publish, called by poll_once when a poll found something new.           *)

Publish ==
  /\ loop = "polling"
  /\ line < MaxLine
  /\ writers # {}
  /\ loop' = "iterating"
  /\ line' = line + 1
  /\ size' = Cardinality(writers)
  /\ ahead' = Slots - size'
  /\ startedWith' = writers
  /\ visited' = {} /\ dead' = {}
  /\ UNCHANGED <<client, writers, received, draining>>

SizeKept == Cardinality(writers) = size

Visit(c) ==
  /\ loop = "iterating"
  /\ SizeKept
  /\ c \in writers \ visited
  /\ visited' = visited \cup {c}
  /\ IF c \in startedWith THEN UNCHANGED ahead ELSE ahead > 0 /\ ahead' = ahead - 1

(* The line fits in the transport's buffer: drain returns at once.         *)
WriteAtOnce(c) ==
  /\ Visit(c)
  /\ received' = [received EXCEPT ![c] = line]
  /\ UNCHANGED <<loop, client, writers, line, size, startedWith, draining, dead>>

(* The connection is known to be lost: drain raises at once.               *)
WriteRaises(c) ==
  /\ Visit(c)
  /\ client[c] = "left"
  /\ dead' = dead \cup {c}
  /\ UNCHANGED <<loop, client, writers, line, received, size, startedWith, draining>>

(* The buffer is above its high-water mark: drain waits.                   *)
WriteBlocks(c) ==
  /\ Visit(c)
  /\ received' = [received EXCEPT ![c] = line]
  /\ loop' = "draining"
  /\ draining' = {c}
  /\ UNCHANGED <<client, writers, line, size, startedWith, dead>>

Drained ==
  /\ loop = "draining"
  /\ loop' = "iterating"
  /\ draining' = {}
  /\ UNCHANGED <<client, writers, line, received, size, ahead, startedWith, visited, dead>>

(* Mutant: drain without a time limit, ended only by a lost connection.    *)
DrainUnlimited ==
  /\ loop = "draining"
  /\ \A c \in draining : client[c] # "connected"
  /\ loop' = "iterating"
  /\ dead' = dead \cup draining
  /\ draining' = {}
  /\ UNCHANGED <<client, writers, line, received, size, ahead, startedWith, visited>>

(* Mutant: the first client that fails ends the publish.                   *)
DrainFailureReturns ==
  /\ loop = "draining"
  /\ loop' = "polling"
  /\ dead' = dead \cup draining
  /\ draining' = {}
  /\ UNCHANGED <<client, writers, line, received, size, ahead, startedWith, visited>>

(* One second has passed, or the connection is lost.                       *)
DrainFails ==
  /\ loop = "draining"
  /\ loop' = "iterating"
  /\ dead' = dead \cup draining
  /\ draining' = {}
  /\ UNCHANGED <<client, writers, line, received, size, ahead, startedWith, visited>>

PublishDone ==
  /\ loop = "iterating"
  /\ SizeKept
  /\ startedWith \subseteq visited
  /\ writers' = writers \ dead
  /\ loop' = "polling"
  /\ UNCHANGED <<client, line, received, locals>>

(* RuntimeError, out of publish, poll_once and run_forever, whose finally  *)
(* calls stop.                                                             *)
SizeChanged ==
  /\ loop = "iterating"
  /\ ~SizeKept
  /\ loop' = "stopping"
  /\ UNCHANGED <<client, writers, line, received, locals>>

-----------------------------------------------------------------------------
(* stop: server.close, then server.wait_closed, which since Python 3.12    *)
(* waits until every connection has ended, and only then writer.close.     *)

Stop ==
  /\ loop = "polling"
  /\ loop' = "stopping"
  /\ UNCHANGED <<client, writers, line, received, locals>>

StopReturns ==
  /\ loop = "stopping"
  /\ \A c \in Clients : client[c] = "away"
  /\ loop' = "stopped"
  /\ writers' = {}
  /\ UNCHANGED <<client, line, received, locals>>

PublisherNext ==
  \/ \E c \in Clients : Connect(c) \/ Leave(c) \/ HandleGone(c)
  \/ Publish
  \/ \E c \in Clients : WriteAtOnce(c) \/ WriteRaises(c) \/ WriteBlocks(c)
  \/ Drained \/ DrainFails
  \/ PublishDone \/ SizeChanged
  \/ Stop \/ StopReturns

(* The event loop runs what is ready: the runtime's own steps, and a drain *)
(* that has lasted a second.  Nothing is assumed of when a client reads,   *)
(* comes or goes, only that its leaving is noticed.                        *)
Fairness ==
  /\ WF_publisherVars(\E c \in Clients : WriteAtOnce(c) \/ WriteRaises(c) \/ WriteBlocks(c))
  /\ WF_publisherVars(PublishDone \/ SizeChanged)
  /\ WF_publisherVars(DrainFails)
  /\ \A c \in Clients : WF_publisherVars(HandleGone(c))

PublisherSpec == PublisherInit /\ [][PublisherNext]_publisherVars /\ Fairness

-----------------------------------------------------------------------------
(* Properties.                                                             *)

(* publisher.py: "a slow or gone client is dropped rather than allowed to  *)
(* block a publish meant for everyone else".  When publish returns, every  *)
(* dashboard that was there when it began and still is has the line,       *)
(* whatever the others did meanwhile.                                      *)
OthersAreServed ==
  [][(loop \in {"iterating", "draining"} /\ loop' = "polling") =>
       \A c \in startedWith \cap writers' : received[c] = line]_publisherVars

(* No dashboard can hold up the runtime: a publish ends, one way or the    *)
(* other, whoever reads, connects or leaves meanwhile.                     *)
PublishEnds == loop = "iterating" ~> loop \in {"polling", "stopping", "stopped"}
=============================================================================
