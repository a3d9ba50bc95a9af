------------------------------ MODULE BarWire ------------------------------
(***************************************************************************)
(* How a closed bar reaches the EA: VO_Bridge.mq5 in the terminal appends  *)
(* it to <symbol>_bars.jsonl, JsonlTailer.poll reads what the file has     *)
(* gained, and ObservationPipeline.ingest appends it to the BarSequence or *)
(* quarantines it.  The two processes share nothing but the file, a line   *)
(* is not written at once, and each may die and start again at any point.  *)
(* Ingesting what a poll has read takes its time, and the bridge writes on *)
(* meanwhile.                                                              *)
(*                                                                         *)
(* Bars are numbered as they close.  A line is the number of its bar, or   *)
(* Junk when a new line was glued to the torn end of an old one.  What     *)
(* follows the last newline of the file is its tail.                       *)
(***************************************************************************)
EXTENDS Integers, Sequences, FiniteSets, SequencesExt

CONSTANTS
  BackfillCount,  \* InpBarBackfillCount
  MaxBar,         \* bound: bars that close
  MaxLines        \* bound: lines in the file

ASSUME WireAssumption ==
  {BackfillCount, MaxBar, MaxLines} \subseteq Nat \ {0}

VARIABLES
  closed,     \* the latest bar that has closed in the market
  bridge,     \* VO_Bridge: down, starting (in OnInit) or up
  lastBar,    \* g_last_bar_time
  toWrite,    \* the lines the current handler has still to write
  lines,      \* the file's complete lines
  tail,       \* its tail: of which bar, and whether an older one was torn there
  offset,     \* JsonlTailer._offset, in lines
  pending,    \* _poll_tailer: the lines of this poll still to ingest
  sequence,   \* BarSequence.bars
  lost        \* ghost: the bars the bridge has missed when they were due

fileVars == <<lines, tail>>
bridgeVars == <<bridge, lastBar, toWrite>>
eaVars == <<offset, pending, sequence>>
vars == <<closed, bridgeVars, fileVars, eaVars, lost>>

Junk == 0
NoTail == [bar |-> 0, torn |-> FALSE]
Bars == 1..MaxBar

TypeOK ==
  /\ closed \in 0..MaxBar
  /\ bridge \in {"down", "starting", "up"}
  /\ lastBar \in 0..MaxBar
  /\ toWrite \in Seq(Bars)
  /\ lines \in Seq(Bars \cup {Junk}) /\ Len(lines) <= MaxLines
  /\ tail \in [bar : 0..MaxBar, torn : BOOLEAN]
  /\ offset \in 0..MaxLines
  /\ pending \in Seq(Bars \cup {Junk})
  /\ sequence \in Seq(Bars)
  /\ lost \subseteq Bars

Init ==
  /\ closed = 0
  /\ bridge = "down" /\ lastBar = 0 /\ toWrite = <<>>
  /\ lines = <<>> /\ tail = NoTail
  /\ offset = 0 /\ pending = <<>> /\ sequence = <<>>
  /\ lost = {}

-----------------------------------------------------------------------------
(* The market.                                                             *)

(* The bars that have closed and are not in the file.                      *)
Unwritten == 1..closed \ ToSet(lines)

(* The bar the bridge will have written once its handler ends.             *)
Due == IF toWrite # <<>> THEN Last(toWrite) ELSE lastBar

(* A bar that another follows before OnTick has run is never written: only *)
(* the latest closed bar is.                                               *)
CloseBar ==
  /\ closed < MaxBar
  /\ closed' = closed + 1
  /\ lost' = IF bridge # "down" /\ Due # closed
               THEN lost \cup (Unwritten \cap {closed}) ELSE lost
  /\ UNCHANGED <<bridgeVars, fileVars, eaVars>>

-----------------------------------------------------------------------------
(* VO_Bridge.                                                              *)

(* Assumed: a running EA, which polls every second, has seen that the file *)
(* was moved away before the bridge starts a new one.                      *)
CanStart == bridge = "down" /\ offset <= Len(lines)

(* The bars BackfillBars writes, the oldest first.                         *)
History == IF closed > BackfillCount
             THEN [i \in 1..BackfillCount |-> closed - BackfillCount + i]
             ELSE [i \in 1..closed |-> i]

(* OnInit, with CopyRates succeeding.                                      *)
Backfill ==
  /\ CanStart /\ closed > 0
  /\ bridge' = "starting"
  /\ toWrite' = History
  /\ lastBar' = 0
  /\ lost' = lost \cup (Unwritten \ ToSet(History))
  /\ UNCHANGED <<closed, fileVars, eaVars>>

(* OnInit, with CopyRates failing: it says so and carries on, and the      *)
(* first tick will write the latest closed bar alone.                      *)
BackfillFails ==
  /\ CanStart
  /\ bridge' = "up"
  /\ lastBar' = 0
  /\ lost' = lost \cup (Unwritten \ {closed})
  /\ UNCHANGED <<closed, toWrite, fileVars, eaVars>>

(* Mutant: g_last_bar_time is the forming bar's.                           *)
BackfillMarksForming ==
  /\ bridge = "starting" /\ toWrite = <<>>
  /\ bridge' = "up"
  /\ lastBar' = IF closed < MaxBar THEN closed + 1 ELSE closed
  /\ UNCHANGED <<closed, toWrite, fileVars, eaVars, lost>>

BackfillDone ==
  /\ bridge = "starting" /\ toWrite = <<>>
  /\ bridge' = "up"
  /\ UNCHANGED <<closed, lastBar, toWrite, fileVars, eaVars, lost>>

(* OnTick, when EmitBarIfClosed finds a bar it has not written.            *)
OnTick ==
  /\ bridge = "up" /\ toWrite = <<>>
  /\ closed > 0 /\ closed # lastBar
  /\ toWrite' = <<closed>>
  /\ UNCHANGED <<closed, bridge, lastBar, fileVars, eaVars, lost>>

(* VO_WriteLine, seen from outside: a part of the line, then the rest.     *)
WritePart ==
  /\ toWrite # <<>> /\ tail.bar = 0 /\ Len(lines) < MaxLines
  /\ tail' = [tail EXCEPT !.bar = Head(toWrite)]
  /\ UNCHANGED <<closed, bridgeVars, lines, eaVars, lost>>

WriteRest ==
  /\ tail.bar # 0
  /\ lines' = Append(lines, IF tail.torn THEN Junk ELSE tail.bar)
  /\ tail' = NoTail
  /\ toWrite' = Tail(toWrite)
  /\ lastBar' = tail.bar
  /\ lost' = IF tail.torn THEN lost \cup (Unwritten \cap {tail.bar}) ELSE lost
  /\ UNCHANGED <<closed, bridge, eaVars>>

(* The terminal closes, or is killed in the middle of a line.              *)
BridgeDies ==
  /\ bridge # "down"
  /\ bridge' = "down"
  /\ lastBar' = 0 /\ toWrite' = <<>>
  /\ tail' = [bar |-> 0, torn |-> tail.torn \/ tail.bar # 0]
  /\ UNCHANGED <<closed, lines, eaVars, lost>>

(* Someone moves the file away while the bridge is down.                   *)
Rotate ==
  /\ bridge = "down" /\ lines # <<>>
  /\ lines' = <<>> /\ tail' = NoTail
  /\ UNCHANGED <<closed, bridgeVars, eaVars, lost>>

-----------------------------------------------------------------------------
(* The EA.                                                                 *)

(* BarSequence.append behind ingest: a bar that is not later than the last *)
(* is quarantined, as a line that is not a record is.                      *)
Ingest(bars, line) ==
  IF line # Junk /\ (bars = <<>> \/ line > Last(bars)) THEN Append(bars, line) ELSE bars

From == IF Len(lines) < offset THEN 0 ELSE offset

NewLines == SubSeq(lines, From + 1, Len(lines))

(* Mutant: the tail is taken for a line.                                   *)
PollWithTail ==
  /\ pending = <<>>
  /\ pending' = NewLines
  /\ offset' = IF tail.bar # 0 THEN Len(lines) + 1 ELSE Len(lines)
  /\ UNCHANGED <<closed, bridgeVars, fileVars, sequence, lost>>

(* JsonlTailer.poll: a file shorter than it was is read from its start.    *)
Poll ==
  /\ pending = <<>>
  /\ pending' = NewLines
  /\ offset' = Len(lines)
  /\ UNCHANGED <<closed, bridgeVars, fileVars, sequence, lost>>

(* _poll_tailer, one line after the other.                                 *)
IngestNext ==
  /\ pending # <<>>
  /\ sequence' = Ingest(sequence, Head(pending))
  /\ pending' = Tail(pending)
  /\ UNCHANGED <<closed, bridgeVars, fileVars, offset, lost>>

(* A new process reads the file from its beginning.                        *)
EaRestarts ==
  /\ offset' = 0
  /\ pending' = <<>>
  /\ sequence' = <<>>
  /\ UNCHANGED <<closed, bridgeVars, fileVars, lost>>

Next ==
  \/ CloseBar
  \/ Backfill \/ BackfillFails \/ BackfillDone \/ OnTick
  \/ WritePart \/ WriteRest
  \/ BridgeDies
  \/ Rotate
  \/ Poll \/ IngestNext \/ EaRestarts

Spec == Init /\ [][Next]_vars

-----------------------------------------------------------------------------
(* Properties.                                                             *)

(* ingestion.py: "That partial line is never parsed", "and the remainder   *)
(* is picked up whole on the next poll".  Whatever the poll caught the     *)
(* bridge in the middle of, every whole line before the offset counts: its *)
(* bar is in the sequence, or about to be ingested, unless the bridge      *)
(* missed it when it closed and has written it too late.                   *)
EveryLineCounts ==
  \A i \in 1..Len(lines) :
    (i <= offset /\ lines[i] # Junk) =>
      lines[i] \in ToSet(sequence) \cup ToSet(pending) \cup lost

(* The pipeline's reading of the file: of its types, and of every line     *)
(* (ingestion.py:84).                                                      *)
WireIsRead == TypeOK /\ EveryLineCounts

(* VO_Bridge.mq5: "so a restart does not silently lose the gap".  Neither  *)
(* do restarts on both sides, torn lines and bars written again: between   *)
(* the first and the last bar the EA has, the only ones missing are those  *)
(* the bridge had no chance to write, or wrote on a torn line.             *)
OnlyMissedBarsMissing ==
  sequence # <<>> =>
    Head(sequence)..Last(sequence) \subseteq ToSet(sequence) \cup lost
=============================================================================
