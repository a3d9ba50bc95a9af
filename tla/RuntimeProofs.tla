--------------------------- MODULE RuntimeProofs ---------------------------
(***************************************************************************)
(* Theorems about the ends of the EA's runtime: the wire that the bars     *)
(* come in by, for any number of bars, of lines and of bars written at a   *)
(* start, the publisher, for any number of dashboards, and the dashboard's *)
(* own link and hub, for any set of tabs, any size of a queue and any      *)
(* number of lines.                                                        *)
(*                                                                         *)
(* What makes a publish serve everyone who stayed: every writer its loop   *)
(* has had, but for those it gave up, holds the line (Served), also while  *)
(* it waits for one of them and the others come and go.                    *)
(*                                                                         *)
(* What makes the sequence whole: at each place a bar goes through, no bar *)
(* is ahead of an earlier one, unless that one was missed (Grounded).  The *)
(* handler's list starts so because the bridge misses nothing unnoticed    *)
(* (NothingSkipped); a line written, read and ingested takes its place     *)
(* behind those before it; so the first of the lines to ingest never jumps *)
(* over a bar that may still come.                                         *)
(***************************************************************************)
EXTENDS Publisher, BarWire, Dashboard, SequenceTheorems, FiniteSetTheorems, TLAPS


Served ==
  loop \in {"iterating", "draining"} => \A c \in visited \ dead : received[c] = line

PublisherInv == PublisherTypeOK /\ draining \subseteq visited /\ Served

-----------------------------------------------------------------------------
(* The size a publish starts from leaves room in the table.                *)
LEMMA WritersSize ==
  ASSUME PublisherTypeOK
  PROVE  Cardinality(writers) \in Nat /\ Slots - Cardinality(writers) \in Nat
<1>1. writers \subseteq Clients /\ IsFiniteSet(Clients) /\ Slots \in Nat
  BY PublisherAssumption DEF PublisherTypeOK
<1>2. /\ Cardinality(writers) \in Nat /\ Cardinality(Clients) \in Nat
      /\ Cardinality(writers) <= Cardinality(Clients)
  BY <1>1, FS_Subset, FS_CardinalityType
<1>3. Slots > Cardinality(Clients)
  BY PublisherAssumption
<1> QED BY <1>1, <1>2, <1>3

LEMMA PublisherInitInv == PublisherInit => PublisherInv
  BY PublisherAssumption DEF PublisherInit, PublisherInv, PublisherTypeOK, Served

LEMMA PublisherNextInv == PublisherInv /\ [PublisherNext]_publisherVars => PublisherInv'
<1> SUFFICES ASSUME PublisherInv, [PublisherNext]_publisherVars PROVE PublisherInv'
  OBVIOUS
<1> USE DEF PublisherInv, PublisherTypeOK, Served, locals
<1>0. MaxLine \in Nat
  BY PublisherAssumption
<1>1. ASSUME NEW c \in Clients, Connect(c) PROVE PublisherInv'
  BY <1>1 DEF Connect
<1>2. ASSUME NEW c \in Clients, Leave(c) PROVE PublisherInv'
  BY <1>2 DEF Leave
<1>3. ASSUME NEW c \in Clients, HandleGone(c) PROVE PublisherInv'
  BY <1>3 DEF HandleGone
<1>4. CASE Publish
  <2>1. Cardinality(writers) \in Nat /\ Slots - Cardinality(writers) \in Nat
    BY WritersSize
  <2> QED BY <1>0, <1>4, <2>1 DEF Publish
<1>5. ASSUME NEW c \in Clients, WriteAtOnce(c) PROVE PublisherInv'
  BY <1>5 DEF WriteAtOnce, Visit
<1>6. ASSUME NEW c \in Clients, WriteRaises(c) PROVE PublisherInv'
  BY <1>6 DEF WriteRaises, Visit
<1>7. ASSUME NEW c \in Clients, WriteBlocks(c) PROVE PublisherInv'
  BY <1>7 DEF WriteBlocks, Visit
<1>8. CASE Drained
  BY <1>8 DEF Drained
<1>9. CASE DrainFails
  BY <1>9 DEF DrainFails
<1>10. CASE PublishDone
  BY <1>10 DEF PublishDone
<1>11. CASE SizeChanged
  BY <1>11 DEF SizeChanged
<1>12. CASE Stop
  BY <1>12 DEF Stop
<1>13. CASE StopReturns
  BY <1>13 DEF StopReturns
<1>14. CASE UNCHANGED publisherVars
  BY <1>14 DEF publisherVars
<1> QED
  BY <1>1, <1>2, <1>3, <1>4, <1>5, <1>6, <1>7, <1>8, <1>9, <1>10, <1>11, <1>12, <1>13, <1>14
     DEF PublisherNext

LEMMA PublisherInvariance == PublisherSpec => []PublisherInv
  BY PublisherInitInv, PublisherNextInv, PTL DEF PublisherSpec

-----------------------------------------------------------------------------
(* The publisher's state keeps its types: among others, a writer belongs   *)
(* to a dashboard that is there or has left unnoticed (publisher.py:58).   *)
THEOREM PublisherTypeCorrect == PublisherSpec => []PublisherTypeOK
<1>1. PublisherInv => PublisherTypeOK
  BY DEF PublisherInv
<1> QED BY <1>1, PublisherInvariance, PTL

(* Whoever was there when a publish began, and is when it returns, has the *)
(* line, whatever the others did meanwhile (publisher.py:89).              *)
THEOREM PublishServesOthers == PublisherSpec => OthersAreServed
<1> DEFINE Serves == (loop \in {"iterating", "draining"} /\ loop' = "polling") =>
                       \A c \in startedWith \cap writers' : received[c] = line
<1>1. ASSUME PublisherInv, [PublisherNext]_publisherVars PROVE Serves
  <2> SUFFICES ASSUME loop \in {"iterating", "draining"}, loop' = "polling"
               PROVE  \A c \in startedWith \cap writers' : received[c] = line
    OBVIOUS
  <2>1. PublishDone
    BY <1>1 DEF PublisherNext, publisherVars, Connect, Leave, HandleGone, Publish, WriteAtOnce, WriteRaises,
       WriteBlocks, Drained, DrainFails, PublishDone, SizeChanged, Stop, StopReturns
  <2>2. startedWith \cap writers' \subseteq visited \ dead
    BY <2>1 DEF PublishDone
  <2> QED BY <1>1, <2>2 DEF PublisherInv, Served
<1>2. PublisherInv /\ [PublisherNext]_publisherVars => [Serves]_publisherVars
  BY <1>1
<1> QED BY <1>2, PublisherInvariance, PTL DEF PublisherSpec, OthersAreServed

-----------------------------------------------------------------------------
(* The wire.  Every bar before one in s is in base, or earlier in s.       *)
Grounded(s, base) ==
  \A i \in 1..Len(s) : s[i] # Junk =>
    \A b \in 1..s[i] - 1 : b \in base \/ \E j \in 1..i - 1 : s[j] = b

Written == ToSet(lines) \cup lost
Ingested == ToSet(sequence) \cup lost

AllGrounded ==
  /\ Grounded(toWrite, Written)
  /\ Grounded(lines, lost)
  /\ Grounded(pending, Ingested)

(* What the bridge writes has closed; what is in the tail is the first of  *)
(* it; and a bridge runs on no file that the EA is yet to see the start of. *)
HandlerIsWhole ==
  /\ toWrite \in Seq(1..closed) /\ lastBar <= closed
  /\ bridge = "down" => toWrite = <<>> /\ tail.bar = 0
  /\ tail.bar # 0 => toWrite # <<>> /\ Head(toWrite) = tail.bar /\ Len(lines) < MaxLines
  /\ bridge # "down" => offset <= Len(lines)

(* Only the latest closed bar may be neither written, nor missed, nor      *)
(* about to be written; and the one the bridge remembers is not.           *)
NothingSkipped ==
  bridge # "down" =>
    /\ 1..closed - 1 \subseteq Written \cup ToSet(toWrite)
    /\ lastBar \in {0} \cup Written

Complete == sequence # <<>> => 1..Last(sequence) \subseteq Ingested

WireInv ==
  /\ TypeOK /\ EveryLineCounts
  /\ HandlerIsWhole /\ NothingSkipped /\ AllGrounded /\ Complete

-----------------------------------------------------------------------------
LEMMA Bounds == BackfillCount \in Nat \ {0} /\ MaxBar \in Nat \ {0} /\ MaxLines \in Nat \ {0}
  BY WireAssumption

LEMMA SeqMore ==
  ASSUME NEW S, NEW T, S \subseteq T, NEW s \in Seq(S)
  PROVE  s \in Seq(T)
<1>1. Len(s) \in Nat /\ s = [i \in 1..Len(s) |-> s[i]] /\ \A i \in 1..Len(s) : s[i] \in T
  OBVIOUS
<1> QED BY <1>1, SeqDef

LEMMA ElementsOf ==
  ASSUME NEW S, NEW s \in Seq(S)
  PROVE  /\ Len(s) \in Nat /\ ToSet(s) \subseteq S
         /\ \A i \in 1..Len(s) : s[i] \in ToSet(s) /\ s[i] \in S
         /\ \A x \in ToSet(s) : \E i \in 1..Len(s) : s[i] = x
BY DEF ToSet

LEMMA AppendElements ==
  ASSUME NEW S, NEW s \in Seq(S), NEW e \in S
  PROVE  /\ Append(s, e) \in Seq(S) /\ Len(Append(s, e)) = Len(s) + 1
         /\ Append(s, e)[Len(s) + 1] = e
         /\ \A i \in 1..Len(s) : Append(s, e)[i] = s[i]
         /\ ToSet(Append(s, e)) = ToSet(s) \cup {e}
<1>1. /\ Append(s, e) \in Seq(S) /\ Len(Append(s, e)) = Len(s) + 1
      /\ Append(s, e)[Len(s) + 1] = e
      /\ \A i \in 1..Len(s) : Append(s, e)[i] = s[i]
  OBVIOUS
<1>2. Len(s) \in Nat /\ DOMAIN s = 1..Len(s) /\ DOMAIN Append(s, e) = 1..Len(s) + 1
  BY <1>1
<1> DEFINE t == Append(s, e)
<1> HIDE DEF t
<1>3. 1..Len(s) + 1 = 1..Len(s) \cup {Len(s) + 1}
  BY <1>2
<1>4. ToSet(t) = ToSet(s) \cup {e}
  BY <1>1, <1>2, <1>3 DEF ToSet, t
<1> QED BY <1>1, <1>4 DEF t

LEMMA TailElements ==
  ASSUME NEW S, NEW s \in Seq(S), s # <<>>
  PROVE  /\ Len(s) \in Nat \ {0} /\ Head(s) = s[1] /\ Head(s) \in S
         /\ Tail(s) \in Seq(S) /\ Len(Tail(s)) = Len(s) - 1
         /\ \A i \in 1..Len(s) - 1 : Tail(s)[i] = s[i + 1]
         /\ ToSet(s) = {Head(s)} \cup ToSet(Tail(s))
<1>1. /\ Len(s) \in Nat \ {0} /\ Head(s) = s[1] /\ Head(s) \in S
      /\ Tail(s) \in Seq(S) /\ Len(Tail(s)) = Len(s) - 1
      /\ \A i \in 1..Len(s) - 1 : Tail(s)[i] = s[i + 1]
  OBVIOUS
<1>2. DOMAIN s = 1..Len(s) /\ DOMAIN Tail(s) = 1..Len(s) - 1
  BY <1>1
<1> DEFINE t == Tail(s)
<1> HIDE DEF t
<1>3. ASSUME NEW x \in ToSet(s) PROVE x = Head(s) \/ x \in ToSet(t)
  <2>1. PICK i \in 1..Len(s) : x = s[i]
    BY <1>2, <1>3 DEF ToSet
  <2>2. CASE i = 1
    BY <1>1, <2>1, <2>2
  <2>3. CASE i # 1
    <3>1. i - 1 \in 1..Len(s) - 1 /\ (i - 1) + 1 = i
      BY <1>1, <2>3
    <3>2. t[i - 1] = s[i]
      BY <1>1, <3>1 DEF t
    <3> QED BY <1>2, <2>1, <3>1, <3>2 DEF ToSet, t
  <2> QED BY <2>2, <2>3
<1>4. ASSUME NEW x \in ToSet(t) PROVE x \in ToSet(s)
  <2>1. PICK i \in 1..Len(s) - 1 : x = t[i]
    BY <1>2, <1>4 DEF ToSet, t
  <2>2. i + 1 \in 1..Len(s)
    BY <1>1
  <2> QED BY <1>1, <1>2, <2>1, <2>2 DEF ToSet, t
<1>5. Head(s) \in ToSet(s)
  BY <1>1, <1>2 DEF ToSet
<1>6. ToSet(s) = {Head(s)} \cup ToSet(t)
  BY <1>3, <1>4, <1>5
<1> QED BY <1>1, <1>6 DEF t

LEMMA GroundedMore ==
  ASSUME NEW s, NEW base, NEW more, base \subseteq more, Grounded(s, base)
  PROVE  Grounded(s, more)
BY DEF Grounded

LEMMA GroundedNone == ASSUME NEW base PROVE Grounded(<<>>, base)
BY DEF Grounded

LEMMA GroundedAppend ==
  ASSUME NEW s \in Seq(Nat), NEW base, NEW e \in Nat, Grounded(s, base),
         e # Junk => 1..e - 1 \subseteq ToSet(s) \cup base
  PROVE  Grounded(Append(s, e), base)
<1> DEFINE t == Append(s, e)
<1>1. /\ Len(s) \in Nat /\ Len(t) = Len(s) + 1 /\ t[Len(s) + 1] = e
      /\ \A i \in 1..Len(s) : t[i] = s[i]
  BY AppendElements
<1> HIDE DEF t
<1>2. SUFFICES ASSUME NEW i \in 1..Len(t), t[i] # Junk, NEW b \in 1..t[i] - 1, b \notin base
               PROVE  \E j \in 1..i - 1 : t[j] = b
  BY DEF Grounded, t
<1>3. CASE i = Len(s) + 1
  <2>1. b \in ToSet(s)
    BY <1>1, <1>2, <1>3
  <2>2. PICK j \in 1..Len(s) : s[j] = b
    BY <2>1, ElementsOf
  <2> QED BY <1>1, <1>3, <2>2
<1>4. CASE i # Len(s) + 1
  <2>1. i \in 1..Len(s) /\ t[i] = s[i]
    BY <1>1, <1>4
  <2>2. PICK j \in 1..i - 1 : s[j] = b
    BY <1>2, <2>1 DEF Grounded
  <2>3. j \in 1..Len(s)
    BY <1>1, <2>1
  <2> QED BY <1>1, <2>2, <2>3
<1> QED BY <1>3, <1>4

(* What is left when the first has gone on stays grounded in what the      *)
(* first has gone into.                                                    *)
LEMMA GroundedTail ==
  ASSUME NEW s \in Seq(Nat), s # <<>>, NEW base, Grounded(s, base), NEW more,
         base \subseteq more, Head(s) # Junk => Head(s) \in more
  PROVE  Grounded(Tail(s), more)
<1> DEFINE t == Tail(s)
<1>1. /\ Len(s) \in Nat \ {0} /\ Head(s) = s[1] /\ Len(t) = Len(s) - 1
      /\ \A i \in 1..Len(s) - 1 : t[i] = s[i + 1]
  BY TailElements
<1> HIDE DEF t
<1>2. SUFFICES ASSUME NEW i \in 1..Len(t), t[i] # Junk, NEW b \in 1..t[i] - 1, b \notin more
               PROVE  \E j \in 1..i - 1 : t[j] = b
  BY DEF Grounded, t
<1>3. i + 1 \in 1..Len(s) /\ t[i] = s[i + 1]
  BY <1>1
<1>4. PICK j \in 1..i : s[j] = b
  <2>1. \E j \in 1..(i + 1) - 1 : s[j] = b
    BY <1>2, <1>3 DEF Grounded
  <2> QED BY <2>1
<1>5. j # 1
  BY <1>1, <1>2, <1>4 DEF Junk
<1>6. j - 1 \in 1..i - 1 /\ j - 1 \in 1..Len(s) - 1 /\ (j - 1) + 1 = j
  BY <1>1, <1>3, <1>4, <1>5
<1> QED BY <1>1, <1>4, <1>6

(* What starts with s has what s needs.                                    *)
LEMMA GroundedHead ==
  ASSUME NEW s \in Seq(Nat), s # <<>>, NEW base, Grounded(s, base), Head(s) # Junk
  PROVE  1..Head(s) - 1 \subseteq base
<1>1. Len(s) \in Nat \ {0} /\ Head(s) = s[1] /\ 1 \in 1..Len(s)
  BY TailElements
<1>2. \A b \in 1..s[1] - 1 : b \in base \/ \E j \in 1..1 - 1 : s[j] = b
  BY <1>1 DEF Grounded
<1> QED BY <1>1, <1>2

(* What a poll reads, when what was read before has been ingested.         *)
LEMMA GroundedRest ==
  ASSUME NEW s \in Seq(Nat), NEW n \in 0..Len(s), NEW base, Grounded(s, base), NEW more,
         base \subseteq more, \A i \in 1..n : s[i] # Junk => s[i] \in more
  PROVE  Grounded(SubSeq(s, n + 1, Len(s)), more)
<1> DEFINE t == SubSeq(s, n + 1, Len(s))
<1>1. /\ Len(s) \in Nat /\ Len(t) = Len(s) - n
      /\ \A i \in 1..Len(s) - n : t[i] = s[i + n]
  OBVIOUS
<1> HIDE DEF t
<1>2. SUFFICES ASSUME NEW i \in 1..Len(t), t[i] # Junk, NEW b \in 1..t[i] - 1, b \notin more
               PROVE  \E j \in 1..i - 1 : t[j] = b
  BY DEF Grounded, t
<1>3. i + n \in 1..Len(s) /\ t[i] = s[i + n]
  BY <1>1
<1>4. PICK j \in 1..(i + n) - 1 : s[j] = b
  BY <1>2, <1>3 DEF Grounded
<1>5. s[j] # Junk
  BY <1>1, <1>2, <1>3, <1>4 DEF Junk
<1>6. j \notin 1..n
  BY <1>2, <1>4, <1>5
<1>7. j - n \in 1..i - 1 /\ j - n \in 1..Len(s) - n /\ (j - n) + n = j
  BY <1>1, <1>3, <1>4, <1>6
<1> QED BY <1>1, <1>4, <1>7

-----------------------------------------------------------------------------
LEMMA WireTypes ==
  ASSUME WireInv
  PROVE  /\ closed \in 0..MaxBar /\ closed \in Nat
         /\ lines \in Seq(Nat) /\ Len(lines) \in Nat
         /\ toWrite \in Seq(Nat) /\ Len(toWrite) \in Nat
         /\ pending \in Seq(Nat) /\ sequence \in Seq(Nat)
         /\ offset \in Nat
<1>1. Bars \cup {Junk} \subseteq Nat /\ Bars \subseteq Nat
  BY Bounds DEF Bars, Junk
<1>2. /\ closed \in 0..MaxBar /\ offset \in 0..MaxLines
      /\ lines \in Seq(Bars \cup {Junk}) /\ pending \in Seq(Bars \cup {Junk})
      /\ toWrite \in Seq(Bars) /\ sequence \in Seq(Bars)
  BY DEF WireInv, TypeOK
<1>3. /\ lines \in Seq(Nat) /\ pending \in Seq(Nat)
      /\ toWrite \in Seq(Nat) /\ sequence \in Seq(Nat)
  BY <1>1, <1>2, SeqMore
<1>4. Len(lines) \in Nat /\ Len(toWrite) \in Nat
  BY <1>3
<1> QED BY <1>2, <1>3, <1>4, Bounds

LEMMA WireInitInv == Init => WireInv
<1> SUFFICES ASSUME Init PROVE WireInv
  OBVIOUS
<1> USE DEF Init
<1>1. <<>> \in Seq(Bars) /\ <<>> \in Seq(Bars \cup {Junk}) /\ <<>> \in Seq(1..0) /\ Len(<<>>) = 0
  OBVIOUS
<1>2. TypeOK
  BY <1>1, Bounds DEF TypeOK, NoTail
<1>3. EveryLineCounts
  BY <1>1 DEF EveryLineCounts
<1>4. HandlerIsWhole
  BY <1>1, Bounds DEF HandlerIsWhole, NoTail
<1>5. NothingSkipped /\ Complete
  BY DEF NothingSkipped, Complete
<1>6. AllGrounded
  BY GroundedNone DEF AllGrounded
<1> QED BY <1>2, <1>3, <1>4, <1>5, <1>6 DEF WireInv

(* What has been missed stays so: the steps that leave the places of the   *)
(* bars alone keep what holds of the EA's.                                 *)
LEMMA MoreLost ==
  ASSUME WireInv, lost \subseteq lost', UNCHANGED <<lines, pending, sequence, offset>>
  PROVE  /\ EveryLineCounts' /\ Complete'
         /\ Grounded(lines, lost)' /\ Grounded(pending, Ingested)'
<1>1. Ingested \subseteq Ingested'
  BY DEF Ingested
<1>2. EveryLineCounts'
  BY DEF WireInv, EveryLineCounts
<1>3. Complete'
  BY <1>1 DEF WireInv, Complete
<1>4. Grounded(lines, lost)' /\ Grounded(pending, Ingested)'
  <2>1. PICK l1, i1 : l1 = lost' /\ i1 = Ingested'
    OBVIOUS
  <2>2. Grounded(lines, l1) /\ Grounded(pending, i1)
    BY <1>1, <2>1, GroundedMore DEF WireInv, AllGrounded
  <2> QED BY <2>1, <2>2 DEF Grounded
<1> QED BY <1>2, <1>3, <1>4

LEMMA CloseBarStep == ASSUME WireInv, CloseBar PROVE WireInv'
<1> USE Bounds DEF CloseBar, bridgeVars, fileVars, eaVars
<1>0. lost' = lost \cup ((Unwritten \cap {closed}) \cap
                         {b \in {closed} : bridge # "down" /\ Due # closed})
  OBVIOUS
<1>1. lost \subseteq lost' /\ Unwritten \subseteq Bars
  BY <1>0, WireTypes DEF Unwritten, Bars
<1>2. TypeOK'
  BY <1>0, <1>1, WireTypes DEF WireInv, TypeOK
<1>3. HandlerIsWhole'
  <2>1. toWrite \in Seq(1..closed')
    <3>1. 1..closed \subseteq 1..closed'
      BY WireTypes
    <3> QED BY <3>1, SeqMore DEF WireInv, HandlerIsWhole
  <2>2. lastBar <= closed'
    BY WireTypes DEF WireInv, HandlerIsWhole, TypeOK
  <2> QED BY <2>1, <2>2 DEF WireInv, HandlerIsWhole
<1>4. NothingSkipped'
  <2> SUFFICES ASSUME bridge # "down"
               PROVE  /\ 1..closed \subseteq Written' \cup ToSet(toWrite)
                      /\ lastBar \in {0} \cup Written'
    BY WireTypes DEF NothingSkipped
  <2>1. Written \subseteq Written'
    BY <1>1 DEF Written
  <2>2. closed # 0 => closed \in Written' \cup ToSet(toWrite)
    <3>1. CASE Due # closed
      <4>1. closed # 0 => closed \in Unwritten \/ closed \in ToSet(lines)
        BY WireTypes DEF Unwritten
      <4>2. closed \in Unwritten => closed \in lost'
        BY <3>1
      <4> QED BY <4>1, <4>2 DEF Written
    <3>2. CASE Due = closed /\ toWrite = <<>>
      BY <2>1, <3>2 DEF WireInv, NothingSkipped, Due
    <3>3. CASE Due = closed /\ toWrite # <<>>
      <4>1. closed = toWrite[Len(toWrite)] /\ Len(toWrite) \in 1..Len(toWrite)
        BY <3>3, WireTypes, TailElements DEF Due, Last
      <4> QED BY <4>1, WireTypes, ElementsOf
    <3> QED BY <3>1, <3>2, <3>3
  <2>3. 1..closed = 1..closed - 1 \cup (IF closed = 0 THEN {} ELSE {closed})
    BY WireTypes
  <2> QED BY <2>1, <2>2, <2>3 DEF WireInv, NothingSkipped
<1>5. Grounded(toWrite, Written)'
  <2>1. Written \subseteq Written'
    BY <1>1 DEF Written
  <2>2. PICK w1 : w1 = Written'
    OBVIOUS
  <2>3. Grounded(toWrite, w1)
    BY <2>1, <2>2, GroundedMore DEF WireInv, AllGrounded
  <2> QED BY <2>2, <2>3 DEF Grounded
<1> QED BY <1>1, <1>2, <1>3, <1>4, <1>5, MoreLost DEF WireInv, AllGrounded

(* BackfillBars writes the latest bars, in their order and without a gap.  *)
LEMMA HistoryFacts ==
  ASSUME closed \in 0..MaxBar
  PROVE  /\ History \in Seq(1..closed)
         /\ \A base : 1..closed \ ToSet(History) \subseteq base => Grounded(History, base)
<1> USE Bounds
<1> DEFINE n == IF closed > BackfillCount THEN BackfillCount ELSE closed
<1>1. n \in Nat /\ n <= closed /\ closed \in Nat
  OBVIOUS
<1>2. History = [i \in 1..n |-> closed - n + i]
  <2>1. \A i \in 1..closed : closed - closed + i = i
    OBVIOUS
  <2>2. CASE closed > BackfillCount
    BY <2>2 DEF History
  <2>3. CASE ~(closed > BackfillCount)
    BY <2>1, <2>3 DEF History
  <2> QED BY <2>2, <2>3
<1> HIDE DEF n
<1>3. \A i \in 1..n : History[i] = closed - n + i /\ History[i] \in 1..closed
  BY <1>1, <1>2
<1>4. History \in Seq(1..closed) /\ Len(History) = n
  <2>1. History \in [1..n -> 1..closed]
    BY <1>2, <1>3
  <2> QED BY <1>1, <2>1
<1>5. ASSUME NEW base, 1..closed \ ToSet(History) \subseteq base PROVE Grounded(History, base)
  <2> SUFFICES ASSUME NEW i \in 1..n, NEW b \in 1..History[i] - 1, b \notin base
               PROVE  \E j \in 1..i - 1 : History[j] = b
    BY <1>4 DEF Grounded
  <2>1. b \in 1..closed /\ b \in ToSet(History)
    BY <1>1, <1>3, <1>5
  <2>2. PICK j \in 1..n : History[j] = b
    BY <1>4, <2>1, ElementsOf
  <2>3. j < i
    BY <1>1, <1>3, <2>2
  <2> QED BY <1>1, <2>2, <2>3
<1> QED BY <1>4, <1>5

LEMMA BackfillStep == ASSUME WireInv, Backfill PROVE WireInv'
<1> USE Bounds DEF Backfill, CanStart, fileVars, eaVars
<1>0. /\ closed \in 0..MaxBar /\ closed \in Nat /\ lines \in Seq(Nat) /\ Len(lines) \in Nat
      /\ lines' = lines /\ closed' = closed /\ toWrite' = History /\ lastBar' = 0
      /\ bridge' # "down" /\ tail' = tail /\ offset' = offset
  BY WireTypes
<1>1. lost \subseteq lost' /\ Unwritten \subseteq Bars
  BY <1>0 DEF Unwritten, Bars
<1>2. History \in Seq(1..closed) /\ History \in Seq(Bars)
  <2>1. 1..closed \subseteq Bars
    BY <1>0 DEF Bars
  <2> QED BY <1>0, <2>1, HistoryFacts, SeqMore
<1>3. TypeOK'
  BY <1>0, <1>1, <1>2 DEF WireInv, TypeOK
<1>4. HandlerIsWhole'
  BY <1>0, <1>2 DEF WireInv, HandlerIsWhole
<1>5. 1..closed \ ToSet(History) \subseteq Written'
  BY <1>0 DEF Written, Unwritten
<1>6. NothingSkipped'
  <2>1. 1..closed - 1 \subseteq Written' \cup ToSet(History)
    BY <1>0, <1>5
  <2> QED BY <1>0, <2>1 DEF NothingSkipped
<1>7. Grounded(toWrite, Written)'
  <2>1. Grounded(History, Written')
    BY <1>0, <1>5, HistoryFacts
  <2> QED BY <1>0, <2>1 DEF Grounded
<1> QED BY <1>1, <1>3, <1>4, <1>6, <1>7, MoreLost DEF WireInv, AllGrounded

LEMMA BackfillFailsStep == ASSUME WireInv, BackfillFails PROVE WireInv'
<1> USE Bounds DEF BackfillFails, CanStart, fileVars, eaVars
<1>0. /\ closed \in 0..MaxBar /\ closed \in Nat /\ lines \in Seq(Nat) /\ Len(lines) \in Nat
      /\ lines' = lines /\ closed' = closed /\ toWrite' = <<>> /\ toWrite = <<>> /\ lastBar' = 0
      /\ bridge' # "down" /\ tail' = tail /\ offset' = offset
  BY WireTypes DEF WireInv, HandlerIsWhole
<1>1. lost \subseteq lost' /\ Unwritten \subseteq Bars
  BY <1>0 DEF Unwritten, Bars
<1>2. TypeOK'
  BY <1>0, <1>1 DEF WireInv, TypeOK
<1>3. HandlerIsWhole'
  BY <1>0 DEF WireInv, HandlerIsWhole
<1>4. NothingSkipped'
  <2>1. 1..closed - 1 \subseteq Written'
    BY <1>0 DEF Written, Unwritten
  <2> QED BY <1>0, <2>1 DEF NothingSkipped
<1>5. Grounded(toWrite, Written)'
  BY <1>0 DEF Grounded
<1> QED BY <1>1, <1>2, <1>3, <1>4, <1>5, MoreLost DEF WireInv, AllGrounded

LEMMA BackfillDoneStep == ASSUME WireInv, BackfillDone PROVE WireInv'
<1> USE DEF BackfillDone, fileVars, eaVars
<1>1. TypeOK'
  BY DEF WireInv, TypeOK
<1>2. HandlerIsWhole' /\ NothingSkipped'
  BY DEF WireInv, HandlerIsWhole, NothingSkipped, Written
<1>3. AllGrounded' /\ Complete' /\ EveryLineCounts'
  BY DEF WireInv, AllGrounded, Grounded, Complete, EveryLineCounts, Written, Ingested
<1> QED BY <1>1, <1>2, <1>3 DEF WireInv

LEMMA OnTickStep == ASSUME WireInv, OnTick PROVE WireInv'
<1> USE Bounds DEF OnTick, fileVars, eaVars
<1>0. /\ closed \in 1..MaxBar /\ closed \in Nat
      /\ toWrite = <<>> /\ toWrite' = <<closed>> /\ UNCHANGED <<closed, bridge, lastBar, lines, tail, offset, lost>>
      /\ <<closed>> \in Seq(1..closed) /\ <<closed>> \in Seq(Bars)
  BY WireTypes DEF Bars
<1>1. TypeOK'
  BY <1>0 DEF WireInv, TypeOK
<1>2. HandlerIsWhole'
  BY <1>0 DEF WireInv, HandlerIsWhole
<1>3. 1..closed - 1 \subseteq Written
  BY <1>0 DEF WireInv, NothingSkipped, ToSet
<1>4. NothingSkipped'
  BY <1>0, <1>3 DEF WireInv, NothingSkipped, Written
<1>5. Grounded(toWrite, Written)'
  <2>1. Grounded(<<closed>>, Written)
    BY <1>0, <1>3 DEF Grounded
  <2> QED BY <1>0, <2>1 DEF Grounded, Written
<1> QED BY <1>1, <1>2, <1>4, <1>5, MoreLost DEF WireInv, AllGrounded

LEMMA WritePartStep == ASSUME WireInv, WritePart PROVE WireInv'
<1> USE DEF WritePart, bridgeVars, eaVars
<1>1. tail'.bar = Head(toWrite) /\ tail' \in [bar : 0..MaxBar, torn : BOOLEAN]
  <2>1. Head(toWrite) \in Bars /\ Bars \subseteq 0..MaxBar
    BY Bounds DEF WireInv, TypeOK, Bars
  <2> QED BY <2>1 DEF WireInv, TypeOK
<1>2. TypeOK'
  BY <1>1 DEF WireInv, TypeOK
<1>3. HandlerIsWhole' /\ NothingSkipped'
  BY <1>1 DEF WireInv, HandlerIsWhole, NothingSkipped, Written
<1>4. AllGrounded' /\ Complete' /\ EveryLineCounts'
  BY DEF WireInv, AllGrounded, Grounded, Complete, EveryLineCounts, Written, Ingested
<1> QED BY <1>2, <1>3, <1>4 DEF WireInv

(* A line that is whole at last is one bar further, or has been missed.    *)
LEMMA WriteRestStep == ASSUME WireInv, WriteRest PROVE WireInv'
<1> USE Bounds DEF WriteRest, eaVars
<1> DEFINE bar == tail.bar
           line1 == IF tail.torn THEN Junk ELSE bar
<1>0. /\ toWrite # <<>> /\ Head(toWrite) = bar /\ Len(lines) < MaxLines
      /\ lines' = Append(lines, line1) /\ tail' = NoTail /\ toWrite' = Tail(toWrite)
      /\ lastBar' = bar /\ UNCHANGED <<closed, bridge, offset, pending, sequence>>
  BY DEF WireInv, HandlerIsWhole
<1>1. /\ closed \in Nat /\ closed <= MaxBar /\ toWrite \in Seq(1..closed) /\ toWrite \in Seq(Nat)
      /\ lines \in Seq(Nat) /\ Len(lines) \in Nat /\ lines \in Seq(Bars \cup {Junk})
  BY WireTypes DEF WireInv, TypeOK, HandlerIsWhole
<1>2. /\ bar \in 1..closed /\ bar \in Bars /\ bar \in Nat \ {0} /\ line1 \in Bars \cup {Junk} /\ line1 \in Nat
      /\ Tail(toWrite) \in Seq(1..closed) /\ ToSet(toWrite) = {bar} \cup ToSet(Tail(toWrite))
  <2>1. bar \in 1..closed /\ Tail(toWrite) \in Seq(1..closed)
        /\ ToSet(toWrite) = {bar} \cup ToSet(Tail(toWrite))
    BY <1>0, <1>1, TailElements
  <2> QED BY <1>1, <2>1 DEF Bars, Junk
<1> HIDE DEF bar, line1
<1>3. /\ Append(lines, line1) \in Seq(Bars \cup {Junk}) /\ Len(lines') = Len(lines) + 1
      /\ lines'[Len(lines) + 1] = line1 /\ \A i \in 1..Len(lines) : lines'[i] = lines[i]
      /\ ToSet(lines') = ToSet(lines) \cup {line1}
  BY <1>0, <1>1, <1>2, AppendElements
<1>4. /\ lost \subseteq lost' /\ lost' \subseteq Bars /\ bar \in Written' /\ Written \subseteq Written'
      /\ Ingested \subseteq Ingested'
  <2>1. lost \subseteq lost' /\ lost' \subseteq Bars
    BY <1>2 DEF WireInv, TypeOK, bar
  <2>2. CASE tail.torn
    <3>1. bar \in ToSet(lines) \/ bar \in lost'
      BY <1>2, <2>2 DEF Unwritten, bar
    <3> QED BY <1>3, <2>1, <3>1, <1>0 DEF Written, Ingested
  <2>3. CASE ~tail.torn
    BY <1>0, <1>3, <2>1, <2>3 DEF Written, Ingested, bar, line1
  <2> QED BY <2>1, <2>2, <2>3
<1>5. bridge # "down" /\ offset <= Len(lines)
  BY <1>0 DEF WireInv, HandlerIsWhole
<1>6. TypeOK'
  <2>1. Tail(toWrite) \in Seq(Bars)
    <3>1. 1..closed \subseteq Bars
      BY <1>1 DEF Bars
    <3> QED BY <1>2, <3>1, SeqMore
  <2>2. lastBar' \in 0..MaxBar /\ Len(lines') <= MaxLines
    BY <1>0, <1>1, <1>2, <1>3 DEF Bars
  <2> QED BY <1>0, <1>3, <1>4, <2>1, <2>2 DEF WireInv, TypeOK, NoTail
<1>7. HandlerIsWhole'
  <2>1. lastBar' <= closed' /\ offset <= Len(lines')
    <3>1. offset \in Nat
      BY WireTypes
    <3> QED BY <1>0, <1>1, <1>2, <1>3, <1>5, <3>1
  <2> QED BY <1>0, <1>2, <1>5, <2>1 DEF HandlerIsWhole, NoTail
<1>8. NothingSkipped'
  BY <1>0, <1>2, <1>4, <1>5 DEF WireInv, NothingSkipped
<1>9. EveryLineCounts'
  <2>1. offset \in Nat
    BY WireTypes
  <2> QED BY <1>0, <1>1, <1>3, <1>4, <1>5, <2>1 DEF WireInv, EveryLineCounts
<1>10. Complete'
  BY <1>0, <1>4 DEF WireInv, Complete
<1>11. Grounded(toWrite, Written)'
  <2>1. PICK w1 : w1 = Written'
    OBVIOUS
  <2>2. Grounded(Tail(toWrite), w1)
    BY <1>0, <1>1, <1>4, <2>1, GroundedTail DEF WireInv, AllGrounded
  <2> QED BY <1>0, <2>1, <2>2 DEF Grounded
<1>12. Grounded(lines, lost)'
  <2>1. PICK l1 : l1 = lost'
    OBVIOUS
  <2>2. Grounded(lines, l1)
    BY <1>4, <2>1, GroundedMore DEF WireInv, AllGrounded
  <2>3. bar = line1 \/ line1 = Junk
    BY DEF bar, line1
  <2>4. line1 # Junk => 1..line1 - 1 \subseteq ToSet(lines) \cup l1
    <3>1. bar # Junk
      BY <1>2 DEF Junk
    <3>2. 1..bar - 1 \subseteq Written
      BY <1>0, <1>1, <3>1, GroundedHead DEF WireInv, AllGrounded
    <3> QED BY <1>4, <2>1, <2>3, <3>2 DEF Written
  <2>5. PICK s1 : s1 = Append(lines, line1)
    OBVIOUS
  <2>6. Grounded(s1, l1)
    BY <1>1, <1>2, <2>2, <2>4, <2>5, GroundedAppend
  <2>7. lines' = s1
    BY <1>0, <2>5
  <2> QED BY <2>1, <2>6, <2>7 DEF Grounded
<1>13. Grounded(pending, Ingested)'
  <2>1. PICK w1 : w1 = Ingested'
    OBVIOUS
  <2>2. Grounded(pending, w1)
    BY <1>4, <2>1, GroundedMore DEF WireInv, AllGrounded
  <2> QED BY <1>0, <2>1, <2>2 DEF Grounded
<1> QED
  BY <1>6, <1>7, <1>8, <1>9, <1>10, <1>11, <1>12, <1>13 DEF WireInv, AllGrounded

LEMMA BridgeDiesStep == ASSUME WireInv, BridgeDies PROVE WireInv'
<1> USE Bounds DEF BridgeDies, eaVars
<1>1. <<>> \in Seq(Bars) /\ <<>> \in Seq(1..closed) /\ closed \in Nat
  BY WireTypes
<1>2. TypeOK'
  BY <1>1 DEF WireInv, TypeOK
<1>3. HandlerIsWhole' /\ NothingSkipped'
  BY <1>1 DEF WireInv, HandlerIsWhole, NothingSkipped
<1>4. Grounded(toWrite, Written)'
  BY DEF Grounded
<1> QED BY <1>2, <1>3, <1>4, MoreLost DEF WireInv, AllGrounded

LEMMA RotateStep == ASSUME WireInv, Rotate PROVE WireInv'
<1> USE Bounds DEF Rotate, bridgeVars, eaVars
<1>1. <<>> \in Seq(Bars \cup {Junk}) /\ Len(<<>>) = 0 /\ toWrite = <<>>
  BY DEF WireInv, HandlerIsWhole
<1>2. TypeOK'
  BY <1>1 DEF WireInv, TypeOK, NoTail
<1>3. HandlerIsWhole' /\ NothingSkipped'
  BY DEF WireInv, HandlerIsWhole, NothingSkipped, NoTail
<1>4. EveryLineCounts' /\ Complete'
  BY <1>1 DEF WireInv, EveryLineCounts, Complete, Ingested
<1>5. AllGrounded'
  BY <1>1 DEF WireInv, AllGrounded, Grounded, Ingested
<1> QED BY <1>2, <1>3, <1>4, <1>5 DEF WireInv

(* Steps of the EA leave the bridge and the file alone.                    *)
LEMMA EaStep ==
  ASSUME WireInv, UNCHANGED <<closed, bridgeVars, fileVars, lost>>,
         offset' \in 0..MaxLines, bridge # "down" => offset' <= Len(lines), pending' \in Seq(Bars \cup {Junk}), sequence' \in Seq(Bars),
         EveryLineCounts', Complete', Grounded(pending, Ingested)'
  PROVE  WireInv'
<1> USE DEF bridgeVars, fileVars
<1>1. TypeOK'
  BY DEF WireInv, TypeOK
<1>2. HandlerIsWhole' /\ NothingSkipped'
  BY DEF WireInv, HandlerIsWhole, NothingSkipped, Written
<1>3. Grounded(toWrite, Written)' /\ Grounded(lines, lost)'
  BY DEF WireInv, AllGrounded, Grounded, Written
<1> QED BY <1>1, <1>2, <1>3 DEF WireInv, AllGrounded

LEMMA PollStep == ASSUME WireInv, Poll PROVE WireInv'
<1> USE DEF Poll
<1>1. /\ lines \in Seq(Nat) /\ lines \in Seq(Bars \cup {Junk}) /\ Len(lines) \in Nat
      /\ pending = <<>> /\ offset' = Len(lines) /\ UNCHANGED <<lines, sequence, lost>>
      /\ offset \in Nat
  BY WireTypes DEF WireInv, TypeOK, fileVars
<1>2. From \in 0..Len(lines) /\ From <= offset
  BY <1>1 DEF From
<1> DEFINE new == SubSeq(lines, From + 1, Len(lines))
<1>3. /\ new \in Seq(Bars \cup {Junk}) /\ Len(new) = Len(lines) - From
      /\ \A i \in 1..Len(lines) - From : new[i] = lines[i + From]
  BY <1>1, <1>2
<1> HIDE DEF new
<1>4. pending' = new
  BY DEF NewLines, new
<1>5. \A i \in 1..From : lines[i] # Junk => lines[i] \in Ingested
  <2>1. ToSet(pending) = {}
    BY <1>1 DEF ToSet
  <2>2. \A i \in 1..From : i \in 1..Len(lines) /\ i <= offset
    BY <1>1, <1>2
  <2> QED BY <2>1, <2>2 DEF WireInv, EveryLineCounts, Ingested
<1>6. EveryLineCounts'
  <2>1. SUFFICES ASSUME NEW i \in 1..Len(lines), lines[i] # Junk
                 PROVE  lines[i] \in Ingested \cup ToSet(new)
    BY <1>1, <1>4 DEF EveryLineCounts, Ingested
  <2>2. CASE i <= From
    <3>1. i \in 1..From
      BY <1>1, <1>2, <2>2
    <3> QED BY <1>5, <2>1, <3>1
  <2>3. CASE ~(i <= From)
    <3>1. i - From \in 1..Len(lines) - From /\ (i - From) + From = i
      BY <1>1, <1>2, <2>3
    <3>2. new[i - From] = lines[i] /\ i - From \in 1..Len(new)
      BY <1>3, <3>1
    <3> QED BY <1>3, <3>2, ElementsOf
  <2> QED BY <2>2, <2>3
<1>7. Grounded(pending, Ingested)'
  <2>1. lost \subseteq Ingested /\ Ingested' = Ingested
    BY <1>1 DEF Ingested
  <2>2. Grounded(new, Ingested)
    BY <1>1, <1>2, <1>5, <2>1, GroundedRest DEF WireInv, AllGrounded, new
  <2> QED BY <1>4, <2>1, <2>2 DEF Grounded
<1>8. Complete'
  BY <1>1 DEF WireInv, Complete, Ingested
<1>9. offset' \in 0..MaxLines /\ offset' <= Len(lines)
  <2>1. Len(lines) <= MaxLines
    BY DEF WireInv, TypeOK
  <2> QED BY <1>1, <2>1, Bounds
<1> QED
  BY <1>1, <1>3, <1>4, <1>6, <1>7, <1>8, <1>9, EaStep DEF WireInv, TypeOK

LEMMA IngestStep == ASSUME WireInv, IngestNext PROVE WireInv'
<1> USE Bounds DEF IngestNext
<1> DEFINE line1 == Head(pending)
<1>1. /\ lines \in Seq(Nat) /\ Len(lines) \in Nat
      /\ pending # <<>> /\ pending \in Seq(Nat) /\ sequence \in Seq(Bars) /\ sequence \in Seq(Nat)
      /\ pending' = Tail(pending) /\ sequence' = Ingest(sequence, line1)
      /\ UNCHANGED <<lines, lost, offset>>
  BY WireTypes DEF WireInv, TypeOK, fileVars
<1>2. /\ line1 \in Bars \cup {Junk} /\ line1 \in Nat /\ Tail(pending) \in Seq(Bars \cup {Junk})
      /\ ToSet(pending) = {line1} \cup ToSet(Tail(pending))
  <2>1. line1 \in Bars \cup {Junk} /\ Tail(pending) \in Seq(Bars \cup {Junk})
        /\ ToSet(pending) = {line1} \cup ToSet(Tail(pending))
    BY <1>1, TailElements DEF WireInv, TypeOK
  <2> QED BY <2>1 DEF Bars, Junk
<1> HIDE DEF line1
<1>3. line1 # Junk => 1..line1 - 1 \subseteq Ingested
  BY <1>1, GroundedHead DEF WireInv, AllGrounded, line1
<1>4. offset' \in 0..MaxLines /\ (bridge # "down" => offset' <= Len(lines))
  BY <1>1 DEF WireInv, TypeOK, HandlerIsWhole
<1>5. CASE line1 # Junk /\ (sequence = <<>> \/ line1 > Last(sequence))
  <2>1. sequence' = Append(sequence, line1) /\ line1 \in Bars
    BY <1>1, <1>2, <1>5 DEF Ingest
  <2>2. /\ sequence' \in Seq(Bars) /\ Len(sequence') = Len(sequence) + 1
        /\ sequence'[Len(sequence) + 1] = line1
        /\ ToSet(sequence') = ToSet(sequence) \cup {line1}
    <3>1. /\ Append(sequence, line1) \in Seq(Bars)
          /\ Len(Append(sequence, line1)) = Len(sequence) + 1
          /\ Append(sequence, line1)[Len(sequence) + 1] = line1
          /\ ToSet(Append(sequence, line1)) = ToSet(sequence) \cup {line1}
      BY <1>1, <2>1, AppendElements
    <3> QED BY <2>1, <3>1
  <2>3. Ingested' = Ingested \cup {line1}
    BY <1>1, <2>2 DEF Ingested
  <2>4. Last(sequence') = line1
    BY <2>2 DEF Last
  <2>5. Complete'
    <3>1. 1..line1 = 1..line1 - 1 \cup {line1}
      BY <2>1 DEF Bars
    <3> QED BY <1>3, <1>5, <2>3, <2>4, <3>1 DEF Complete
  <2>6. EveryLineCounts'
    BY <1>1, <1>2, <2>3 DEF WireInv, EveryLineCounts, Ingested
  <2>7. Grounded(pending, Ingested)'
    <3>1. PICK w1 : w1 = Ingested'
      OBVIOUS
    <3>2. Grounded(Tail(pending), w1)
      BY <1>1, <2>3, <3>1, GroundedTail DEF WireInv, AllGrounded, line1
    <3> QED BY <1>1, <3>1, <3>2 DEF Grounded
  <2> QED
    BY <1>1, <1>2, <2>1, <2>2, <2>5, <2>6, <2>7, EaStep, <1>4
<1>6. CASE ~(line1 # Junk /\ (sequence = <<>> \/ line1 > Last(sequence)))
  <2>1. sequence' = sequence /\ Ingested' = Ingested
    BY <1>1, <1>6 DEF Ingest, Ingested
  <2>2. line1 # Junk => line1 \in Ingested
    <3> SUFFICES ASSUME line1 # Junk PROVE line1 \in Ingested
      OBVIOUS
    <3>1. sequence # <<>> /\ ~(line1 > Last(sequence))
      BY <1>6
    <3>2. Last(sequence) \in Nat
      <4>1. Len(sequence) \in 1..Len(sequence)
        BY <1>1, <3>1, TailElements
      <4> QED BY <1>1, <4>1, ElementsOf DEF Last
    <3>3. line1 \in 1..Last(sequence)
      BY <1>2, <3>1, <3>2 DEF Bars
    <3> QED BY <3>1, <3>3 DEF WireInv, Complete
  <2>3. Complete'
    BY <2>1 DEF WireInv, Complete
  <2>4. EveryLineCounts'
    BY <1>1, <1>2, <2>1, <2>2 DEF WireInv, EveryLineCounts, Ingested
  <2>5. Grounded(pending, Ingested)'
    <3>1. Grounded(Tail(pending), Ingested)
      BY <1>1, <2>2, GroundedTail DEF WireInv, AllGrounded, line1
    <3> QED BY <1>1, <2>1, <3>1 DEF Grounded
  <2> QED
    BY <1>1, <1>2, <2>1, <2>3, <2>4, <2>5, EaStep, <1>4
<1> QED BY <1>5, <1>6

LEMMA EaRestartsStep == ASSUME WireInv, EaRestarts PROVE WireInv'
<1> USE DEF EaRestarts
<1>1. <<>> \in Seq(Bars \cup {Junk}) /\ <<>> \in Seq(Bars)
  OBVIOUS
<1>2. EveryLineCounts' /\ Complete' /\ Grounded(pending, Ingested)'
  BY DEF EveryLineCounts, Complete, Grounded
<1>3. 0 \in 0..MaxLines /\ 0 <= Len(lines)
  BY Bounds, WireTypes
<1> QED BY <1>1, <1>2, <1>3, EaStep

LEMMA WireNextInv == WireInv /\ [Next]_vars => WireInv'
<1> SUFFICES ASSUME WireInv, [Next]_vars PROVE WireInv'
  OBVIOUS
<1>1. CASE UNCHANGED vars
  <2>1. UNCHANGED <<closed, bridgeVars, fileVars, eaVars, lost>>
    BY <1>1 DEF vars
  <2> QED
    BY <2>1 DEF bridgeVars, fileVars, eaVars, WireInv, TypeOK, EveryLineCounts, HandlerIsWhole,
       NothingSkipped, AllGrounded, Grounded, Complete, Written, Ingested
<1> QED
  BY <1>1, CloseBarStep, BackfillStep, BackfillFailsStep, BackfillDoneStep, OnTickStep,
     WritePartStep, WriteRestStep, BridgeDiesStep, RotateStep, PollStep, IngestStep,
     EaRestartsStep DEF Next

LEMMA WireInvariance == Spec => []WireInv
  BY WireInitInv, WireNextInv, PTL DEF Spec

(* Types, and that every whole line read counts, whatever the bridge was in *)
(* the middle of and whoever died (ingestion.py:84).                       *)
THEOREM LinesAreRead == Spec => []WireIsRead
<1>1. WireInv => WireIsRead
  BY DEF WireInv, WireIsRead
<1> QED BY <1>1, WireInvariance, PTL

(* Between the first and the last bar the EA has, those it has not are the *)
(* ones the bridge missed, for any number of restarts (VO_Bridge.mq5:36).   *)
THEOREM NoSilentGap == Spec => []OnlyMissedBarsMissing
<1>1. WireInv => OnlyMissedBarsMissing
  <2> SUFFICES ASSUME WireInv, sequence # <<>>
               PROVE  Head(sequence)..Last(sequence) \subseteq Ingested
    BY DEF OnlyMissedBarsMissing, Ingested
  <2>1. Head(sequence) \in Nat \ {0}
    <3>1. Head(sequence) \in Bars
      BY TailElements DEF WireInv, TypeOK
    <3> QED BY <3>1 DEF Bars
  <2>2. Last(sequence) \in Nat
    <3>1. Len(sequence) \in 1..Len(sequence)
      BY WireTypes, TailElements
    <3> QED BY <3>1, WireTypes, ElementsOf DEF Last
  <2>3. Head(sequence)..Last(sequence) \subseteq 1..Last(sequence)
    BY <2>1, <2>2
  <2> QED BY <2>3 DEF WireInv, Complete
<1> QED BY <1>1, WireInvariance, PTL

-----------------------------------------------------------------------------
(* The dashboard.  What is on its way to a tab, in the order it will be    *)
(* shown, never goes back in time (InOrder), ends with what the hub holds  *)
(* (TabsCatchUp), and is nothing at all for a tab that is not subscribed   *)
(* (NothingQueued).                                                        *)

NothingQueued == \A b \in Browsers : tab[b] = "away" => queue[b] = <<>>

\* From what a tab shows, over what is being sent and what is queued, to the hub's state.
InOrderAt(b) ==
  /\ shown[b].id <= current.id
  /\ tab[b] = "sending" => /\ shown[b].id <= outgoing[b].id
                           /\ outgoing[b].id <= current.id
  /\ \A i \in 1..Len(queue[b]) :
       /\ shown[b].id <= queue[b][i].id /\ queue[b][i].id <= current.id
       /\ tab[b] = "sending" => outgoing[b].id <= queue[b][i].id
       /\ \A j \in 1..Len(queue[b]) : i <= j => queue[b][i].id <= queue[b][j].id

InOrder == \A b \in Browsers : InOrderAt(b)

DashboardInv == DashboardTypeOK /\ NothingQueued /\ TabsCatchUp /\ InOrder

-----------------------------------------------------------------------------
LEMMA Constants ==
  /\ QueueSize \in Nat \ {0} /\ MaxWire \in Nat \ {0} /\ MaxPublish \in Nat \ {0}
  BY DashboardAssumption

(* A queue that is put to holds the new state last, and before it what it  *)
(* held, less the oldest if it was full.                                   *)
LEMMA PutFacts ==
  ASSUME NEW q \in Seq(State), Len(q) <= QueueSize, NEW s \in State
  PROVE  /\ Put(q, s) \in Seq(State)
         /\ Put(q, s) # <<>>
         /\ Len(Put(q, s)) <= QueueSize
         /\ Put(q, s)[Len(Put(q, s))] = s
         /\ \E d \in {0, 1} :
              /\ Len(Put(q, s)) = Len(q) - d + 1
              /\ \A i \in 1..Len(Put(q, s)) - 1 : i + d \in 1..Len(q) /\ Put(q, s)[i] = q[i + d]
<1> DEFINE kept == IF Len(q) = QueueSize THEN Tail(q) ELSE q
           d == IF Len(q) = QueueSize THEN 1 ELSE 0
<1>1. kept \in Seq(State) /\ Len(kept) = Len(q) - d /\ Len(kept) < QueueSize
  BY Constants
<1>2. \A i \in 1..Len(kept) : i + d \in 1..Len(q) /\ kept[i] = q[i + d]
  BY Constants
<1>3. Put(q, s) = Append(kept, s)
  BY DEF Put
<1> HIDE DEF kept
<1>4. /\ Append(kept, s) \in Seq(State) /\ Len(Append(kept, s)) = Len(kept) + 1
      /\ Append(kept, s)[Len(kept) + 1] = s
      /\ \A i \in 1..Len(kept) : Append(kept, s)[i] = kept[i]
  BY <1>1
<1>5. Append(kept, s) # <<>>
  <2>1. Len(Append(kept, s)) # 0
    BY <1>1, <1>4
  <2>2. Len(<<>>) = 0
    OBVIOUS
  <2> QED BY <2>1, <2>2
<1> QED
  BY <1>1, <1>2, <1>3, <1>4, <1>5, Constants

-----------------------------------------------------------------------------
LEMMA InitInv == DashboardInit => DashboardInv
<1> SUFFICES ASSUME DashboardInit PROVE DashboardInv
  OBVIOUS
<1> USE Constants DEF DashboardInit, Initial, State
<1>1. DashboardTypeOK
  BY DEF DashboardTypeOK
<1>2. NothingQueued /\ TabsCatchUp
  BY DEF NothingQueued, TabsCatchUp, Subscribed
<1>3. InOrder
  BY DEF InOrder, InOrderAt
<1> QED BY <1>1, <1>2, <1>3 DEF DashboardInv

(* The hub's part of every step that publishes.                            *)
LEMMA PublishStep ==
  ASSUME DashboardInv, NEW connected \in BOOLEAN, HubPublishes(connected), UNCHANGED tabVars
  PROVE  /\ current' \in State
         /\ queue' \in [Browsers -> Seq(State)]
         /\ \A b \in Browsers : Len(queue'[b]) <= QueueSize
         /\ NothingQueued' /\ TabsCatchUp' /\ InOrder'
<1> USE Constants
<1>1. current' \in State /\ current'.id = current.id + 1
  BY DEF DashboardInv, DashboardTypeOK, HubPublishes, State
<1>2. ASSUME NEW b \in Browsers, Subscribed(b)
      PROVE  /\ queue'[b] = Put(queue[b], current')
             /\ queue[b] \in Seq(State) /\ Len(queue[b]) <= QueueSize
  BY <1>2 DEF HubPublishes, DashboardInv, DashboardTypeOK
<1>3. ASSUME NEW b \in Browsers, ~Subscribed(b)
      PROVE  queue'[b] = <<>>
  BY <1>3 DEF HubPublishes, DashboardInv, NothingQueued, Subscribed
<1>4. ASSUME NEW b \in Browsers
      PROVE  queue'[b] \in Seq(State) /\ Len(queue'[b]) <= QueueSize
  <2>1. CASE Subscribed(b)
    <3>1. /\ queue'[b] = Put(queue[b], current')
          /\ queue[b] \in Seq(State) /\ Len(queue[b]) <= QueueSize
      BY <1>2, <2>1
    <3>2. Put(queue[b], current') \in Seq(State) /\ Len(Put(queue[b], current')) <= QueueSize
      BY <1>1, <3>1, PutFacts
    <3> QED BY <3>1, <3>2
  <2>2. CASE ~Subscribed(b)
    <3>1. queue'[b] = <<>>
      BY <1>3, <2>2
    <3>2. <<>> \in Seq(State) /\ Len(<<>>) = 0
      OBVIOUS
    <3> QED BY <3>1, <3>2
  <2> QED BY <2>1, <2>2
<1>5. NothingQueued'
  BY <1>3 DEF NothingQueued, Subscribed, tabVars
<1>6. TabsCatchUp'
  <2>1. ASSUME NEW b \in Browsers, Subscribed(b)
        PROVE  queue'[b] # <<>> /\ queue'[b][Len(queue'[b])] = current'
    <3>1. /\ queue'[b] = Put(queue[b], current')
          /\ queue[b] \in Seq(State) /\ Len(queue[b]) <= QueueSize
      BY <1>2, <2>1
    <3>2. /\ Put(queue[b], current') # <<>>
          /\ Put(queue[b], current')[Len(Put(queue[b], current'))] = current'
      BY <1>1, <3>1, PutFacts
    <3> QED BY <3>1, <3>2
  <2> QED
    BY <2>1 DEF TabsCatchUp, NewestOnItsWay, Last, Subscribed, tabVars
<1>7. ASSUME NEW b \in Browsers
      PROVE  InOrderAt(b)'
  <2>1. /\ shown[b] \in State /\ outgoing[b] \in State /\ current \in State
        /\ InOrderAt(b)
    BY DEF DashboardInv, DashboardTypeOK, InOrder
  <2>2. CASE ~Subscribed(b)
    BY <1>1, <1>3, <2>1, <2>2 DEF InOrderAt, Subscribed, tabVars, State
  <2>3. CASE Subscribed(b)
    <3> DEFINE q == queue[b]
               p == Put(q, current')
    <3>1. q \in Seq(State) /\ Len(q) <= QueueSize /\ queue'[b] = p
      BY <1>2, <2>3
    <3>2. \A i \in 1..Len(q) : q[i] \in State
      BY <3>1
    <3>3. /\ p \in Seq(State) /\ p # <<>> /\ p[Len(p)] = current'
          /\ \E d \in {0, 1} :
               /\ Len(p) = Len(q) - d + 1
               /\ \A i \in 1..Len(p) - 1 : i + d \in 1..Len(q) /\ p[i] = q[i + d]
      BY <1>1, <3>1, PutFacts
    <3>4. PICK d \in {0, 1} :
            /\ Len(p) = Len(q) - d + 1
            /\ \A i \in 1..Len(p) - 1 : i + d \in 1..Len(q) /\ p[i] = q[i + d]
      BY <3>3
    <3>5. /\ shown'[b] = shown[b] /\ outgoing'[b] = outgoing[b] /\ tab'[b] = tab[b]
      BY DEF tabVars
    <3> HIDE DEF p
    <3>6. \A i \in 1..Len(p) :
            i = Len(p) \/ (i \in 1..Len(p) - 1 /\ p[i] = q[i + d] /\ i + d \in 1..Len(q))
      BY <3>3, <3>4
    <3>7. Len(p) \in Nat \ {0} /\ Len(q) \in Nat /\ current'.id \in Nat /\ current.id \in Nat
      <4>1. Len(p) \in Nat /\ Len(q) \in Nat
        BY <3>1, <3>3
      <4>2. Len(p) # 0
        BY <3>3, <4>1, EmptySeq
      <4> QED BY <1>1, <2>1, <4>1, <4>2, Constants DEF State
    <3>8. shown[b].id <= current'.id /\ (tab[b] = "sending" => outgoing[b].id <= current'.id)
      BY <1>1, <2>1 DEF InOrderAt, State
    <3>9. ASSUME NEW i \in 1..Len(p)
          PROVE  /\ shown[b].id <= p[i].id /\ p[i].id <= current'.id
                 /\ tab[b] = "sending" => outgoing[b].id <= p[i].id
                 /\ \A j \in 1..Len(p) : i <= j => p[i].id <= p[j].id
      <4>1. CASE i = Len(p)
        <5>1. p[i] = current' /\ \A j \in 1..Len(p) : i <= j => j = i
          BY <3>3, <3>7, <4>1
        <5> QED BY <3>8, <3>7, <5>1
      <4>2. CASE i # Len(p)
        <5>1. i \in 1..Len(p) - 1 /\ p[i] = q[i + d] /\ i + d \in 1..Len(q)
          BY <3>6, <4>2
        <5>2. /\ shown[b].id <= q[i + d].id /\ q[i + d].id <= current.id
              /\ tab[b] = "sending" => outgoing[b].id <= q[i + d].id
              /\ \A k \in 1..Len(q) : i + d <= k => q[i + d].id <= q[k].id
          BY <2>1, <5>1 DEF InOrderAt
        <5>3. q[i + d] \in State
          BY <3>2, <5>1
        <5>4. ASSUME NEW j \in 1..Len(p), i <= j
              PROVE  p[i].id <= p[j].id
          <6>1. CASE j = Len(p)
            <7>1. p[j].id = current.id + 1
              BY <1>1, <3>3, <6>1
            <7>2. p[i].id <= current.id /\ p[i].id \in Nat
              BY <5>1, <5>2, <5>3 DEF State
            <7> QED BY <3>7, <7>1, <7>2
          <6>2. CASE j # Len(p)
            <7>1. p[j] = q[j + d] /\ j + d \in 1..Len(q)
              BY <3>6, <6>2
            <7>2. i + d <= j + d
              BY <5>1, <5>4, <7>1, <3>7
            <7>3. q[i + d].id <= q[j + d].id
              BY <5>2, <7>1, <7>2
            <7> HIDE DEF q
            <7> QED BY <5>1, <7>1, <7>3
          <6> QED BY <6>1, <6>2
        <5>5. p[i].id <= current'.id
          <6> HIDE DEF q
          <6>1. p[i].id <= current.id /\ p[i].id \in Nat
            BY <5>1, <5>2, <5>3 DEF State
          <6> QED BY <1>1, <3>7, <6>1
        <5>6. shown[b].id <= p[i].id /\ (tab[b] = "sending" => outgoing[b].id <= p[i].id)
          BY <5>1, <5>2
        <5> QED BY <5>4, <5>5, <5>6
      <4> QED BY <4>1, <4>2
    <3>10. tab[b] = "sending" => shown[b].id <= outgoing[b].id
      BY <2>1 DEF InOrderAt
    <3> QED
      BY <3>1, <3>5, <3>9, <3>8, <3>10 DEF InOrderAt, p
  <2> QED BY <2>2, <2>3
<1> QED
  BY <1>1, <1>4, <1>5, <1>6, <1>7 DEF InOrder, HubPublishes

-----------------------------------------------------------------------------
(* Steps that leave the hub, and what is on its way to the tabs, alone.    *)
LEMMA OtherSteps ==
  ASSUME DashboardInv, UNCHANGED <<hubVars, tabVars>>, DashboardTypeOK'
  PROVE  DashboardInv'
BY DEF DashboardInv, NothingQueued, TabsCatchUp, NewestOnItsWay, Subscribed, InOrder, InOrderAt,
       hubVars, tabVars

(* What holds of every tab still does where one tab's step leaves it alone. *)
LEMMA TabStep ==
  ASSUME DashboardInv, NEW b \in Browsers, DashboardTypeOK', UNCHANGED current,
         \A a \in Browsers \ {b} :
            /\ tab'[a] = tab[a] /\ queue'[a] = queue[a]
            /\ outgoing'[a] = outgoing[a] /\ shown'[a] = shown[a],
         tab'[b] = "away" => queue'[b] = <<>>,
         tab'[b] # "away" => (NewestOnItsWay(b))' = current,
         InOrderAt(b)'
  PROVE  DashboardInv'
<1>1. NothingQueued'
  BY DEF DashboardInv, NothingQueued
<1>2. TabsCatchUp'
  BY DEF DashboardInv, TabsCatchUp, NewestOnItsWay, Subscribed
<1>3. InOrder'
  BY DEF DashboardInv, InOrder, InOrderAt
<1> QED BY <1>1, <1>2, <1>3 DEF DashboardInv

LEMMA OpenStep ==
  ASSUME DashboardInv, NEW b \in Browsers, Open(b)
  PROVE  DashboardInv'
<1>1. DashboardTypeOK'
  BY DEF DashboardInv, DashboardTypeOK, Open, hubVars
<1>2. queue'[b] = <<>>
  BY DEF DashboardInv, NothingQueued, Open, hubVars
<1>3. tab'[b] = "sending" /\ outgoing'[b] = current /\ shown'[b] = shown[b]
  BY DEF DashboardInv, DashboardTypeOK, Open
<1>4. InOrderAt(b)'
  <2>1. shown[b].id <= current.id /\ current \in State
    BY DEF DashboardInv, InOrder, InOrderAt, DashboardTypeOK
  <2>2. Len(<<>>) = 0
    OBVIOUS
  <2> QED
    BY <1>2, <1>3, <2>1, <2>2 DEF InOrderAt, Open, hubVars, State
<1>5. (NewestOnItsWay(b))' = current
  BY <1>2, <1>3 DEF NewestOnItsWay
<1>6. \A a \in Browsers \ {b} :
        /\ tab'[a] = tab[a] /\ queue'[a] = queue[a]
        /\ outgoing'[a] = outgoing[a] /\ shown'[a] = shown[a]
  BY DEF DashboardInv, DashboardTypeOK, Open, hubVars
<1>7. UNCHANGED current
  BY DEF Open, hubVars
<1> QED
  BY <1>1, <1>2, <1>4, <1>5, <1>6, <1>7, TabStep

LEMMA SentStep ==
  ASSUME DashboardInv, NEW b \in Browsers, Sent(b)
  PROVE  DashboardInv'
<1>1. DashboardTypeOK'
  BY DEF DashboardInv, DashboardTypeOK, Sent, hubVars
<1>2. tab'[b] = "waiting" /\ shown'[b] = outgoing[b] /\ queue'[b] = queue[b]
  BY DEF DashboardInv, DashboardTypeOK, Sent, hubVars
<1>3. InOrderAt(b)'
  <2>1. InOrderAt(b) /\ tab[b] = "sending" /\ UNCHANGED current
    BY DEF DashboardInv, InOrder, Sent, hubVars
  <2> QED
    BY <1>2, <2>1 DEF InOrderAt
<1>4. (NewestOnItsWay(b))' = current
  BY <1>2 DEF NewestOnItsWay, DashboardInv, TabsCatchUp, Subscribed, Sent
<1>5. \A a \in Browsers \ {b} :
        /\ tab'[a] = tab[a] /\ queue'[a] = queue[a]
        /\ outgoing'[a] = outgoing[a] /\ shown'[a] = shown[a]
  BY DEF DashboardInv, DashboardTypeOK, Sent, hubVars
<1>6. UNCHANGED current
  BY DEF Sent, hubVars
<1> QED
  BY <1>1, <1>2, <1>3, <1>4, <1>5, <1>6, TabStep

LEMMA TakeStep ==
  ASSUME DashboardInv, NEW b \in Browsers, Take(b)
  PROVE  DashboardInv'
<1> DEFINE q == queue[b]
<1>1. /\ q \in Seq(State) /\ q # <<>> /\ Len(q) \in Nat /\ Len(q) > 0
      /\ Len(q) <= QueueSize
  BY DEF DashboardInv, DashboardTypeOK, Take
<1>2. /\ Head(q) = q[1] /\ q[1] \in State
      /\ Tail(q) \in Seq(State) /\ Len(Tail(q)) = Len(q) - 1
      /\ \A i \in 1..Len(q) - 1 : Tail(q)[i] = q[i + 1]
  BY <1>1
<1>3. /\ tab'[b] = "sending" /\ outgoing'[b] = q[1] /\ queue'[b] = Tail(q)
      /\ shown'[b] = shown[b] /\ UNCHANGED current
  BY <1>2 DEF DashboardInv, DashboardTypeOK, Take
<1>4. DashboardTypeOK'
  <2>1. queue' \in [Browsers -> Seq(State)] /\ \A a \in Browsers : Len(queue'[a]) <= QueueSize
    BY <1>1, <1>2, Constants DEF DashboardInv, DashboardTypeOK, Take
  <2> QED
    BY <1>2, <2>1 DEF DashboardInv, DashboardTypeOK, Take
<1>5. InOrderAt(b)'
  <2>1. InOrderAt(b) /\ shown[b] \in State /\ current \in State
    BY DEF DashboardInv, InOrder, DashboardTypeOK
  <2>2. shown[b].id <= q[1].id /\ q[1].id <= current.id /\ shown[b].id <= current.id
    BY <1>1, <2>1 DEF InOrderAt
  <2>3. ASSUME NEW i \in 1..Len(q) - 1
        PROVE  /\ i + 1 \in 1..Len(q) /\ 1 \in 1..Len(q) /\ 1 <= i + 1
               /\ shown[b].id <= q[i + 1].id /\ q[i + 1].id <= current.id
               /\ q[1].id <= q[i + 1].id
               /\ \A j \in 1..Len(q) - 1 : i <= j => q[i + 1].id <= q[j + 1].id
    BY <1>1, <2>1 DEF InOrderAt
  <2> QED
    BY <1>2, <1>3, <2>2, <2>3 DEF InOrderAt
<1>6. (NewestOnItsWay(b))' = current
  <2>1. q[Len(q)] = current
    BY <1>1 DEF DashboardInv, TabsCatchUp, NewestOnItsWay, Subscribed, Take, Last
  <2>2. CASE Len(q) = 1
    <3>1. Tail(q) = <<>>
      <4>1. Tail(q) \in Seq(State) /\ Len(Tail(q)) = 0
        BY <1>2, <2>2
      <4> QED BY <4>1, EmptySeq
    <3> QED BY <1>3, <2>1, <2>2, <3>1 DEF NewestOnItsWay
  <2>3. CASE Len(q) # 1
    <3>1. Tail(q) # <<>>
      <4>1. Len(Tail(q)) # 0 /\ Len(<<>>) = 0
        BY <1>1, <1>2, <2>3
      <4> QED BY <4>1
    <3>2. Tail(q)[Len(q) - 1] = q[Len(q)]
      <4>1. Len(q) - 1 \in 1..Len(q) - 1 /\ (Len(q) - 1) + 1 = Len(q)
        <5>1. ASSUME NEW n \in Nat, n > 0, n # 1
              PROVE  n - 1 \in 1..n - 1 /\ (n - 1) + 1 = n
          BY <5>1
        <5>2. Len(q) \in Nat /\ Len(q) > 0
          BY <1>1
        <5> HIDE DEF q
        <5> QED BY <2>3, <5>1, <5>2
      <4>2. Tail(q)[Len(q) - 1] = q[(Len(q) - 1) + 1]
        BY <1>2, <4>1
      <4> QED BY <4>1, <4>2
    <3> QED BY <1>2, <1>3, <2>1, <3>1, <3>2 DEF NewestOnItsWay, Last
  <2> QED BY <2>2, <2>3
<1>7. \A a \in Browsers \ {b} :
        /\ tab'[a] = tab[a] /\ queue'[a] = queue[a]
        /\ outgoing'[a] = outgoing[a] /\ shown'[a] = shown[a]
  BY DEF DashboardInv, DashboardTypeOK, Take
<1> QED
  BY <1>3, <1>4, <1>5, <1>6, <1>7, TabStep

LEMMA CloseTabStep ==
  ASSUME DashboardInv, NEW b \in Browsers, CloseTab(b)
  PROVE  DashboardInv'
BY DEF DashboardInv, DashboardTypeOK, NothingQueued, TabsCatchUp, NewestOnItsWay, Subscribed, InOrder,
       InOrderAt, CloseTab, hubVars

LEMMA SendFailsStep ==
  ASSUME DashboardInv, NEW b \in Browsers, SendFails(b)
  PROVE  DashboardInv'
<1>1. Initial \in State /\ <<>> \in Seq(State) /\ Len(<<>>) = 0
  BY Constants DEF Initial, State
<1>2. DashboardTypeOK'
  BY <1>1, Constants DEF DashboardInv, DashboardTypeOK, SendFails
<1>3. tab'[b] = "away" /\ queue'[b] = <<>> /\ shown'[b] = Initial /\ UNCHANGED current
  BY DEF DashboardInv, DashboardTypeOK, SendFails
<1>4. InOrderAt(b)'
  <2>1. current \in State
    BY DEF DashboardInv, DashboardTypeOK
  <2> QED
    BY <1>1, <1>3, <2>1, Constants DEF InOrderAt, State, Initial
<1>5. \A a \in Browsers \ {b} :
        /\ tab'[a] = tab[a] /\ queue'[a] = queue[a]
        /\ outgoing'[a] = outgoing[a] /\ shown'[a] = shown[a]
  BY DEF DashboardInv, DashboardTypeOK, SendFails
<1> QED
  BY <1>2, <1>3, <1>4, <1>5, TabStep

-----------------------------------------------------------------------------
(* A step of the link that publishes, given the types of its own variables. *)
LEMMA LinkPublishes ==
  ASSUME DashboardInv, NEW connected \in BOOLEAN, HubPublishes(connected), UNCHANGED tabVars,
         ea' \in {"down", "up", "closed", "reset"},
         wire' \in Seq(Lines), Len(wire') <= MaxWire,
         link' \in {"connecting", "reading", "sleeping", "dead"}
  PROVE  DashboardInv'
<1>1. DashboardTypeOK'
  BY PublishStep DEF DashboardTypeOK, DashboardInv, tabVars
<1> QED
  BY <1>1, PublishStep DEF DashboardInv

LEMMA NextInv == DashboardInv /\ [DashboardNext]_dashboardVars => DashboardInv'
<1> SUFFICES ASSUME DashboardInv, [DashboardNext]_dashboardVars PROVE DashboardInv'
  OBVIOUS
<1> USE Constants
<1>0. /\ ea \in {"down", "up", "closed", "reset"}
      /\ wire \in Seq(Lines) /\ Len(wire) <= MaxWire
      /\ link \in {"connecting", "reading", "sleeping", "dead"}
  BY DEF DashboardInv, DashboardTypeOK
<1>1. CASE EaStarts
  BY <1>1, OtherSteps DEF EaStarts, DashboardInv, DashboardTypeOK, hubVars, tabVars
<1>2. ASSUME NEW what \in Lines, EaSends(what) PROVE DashboardInv'
  <2>1. wire' \in Seq(Lines) /\ Len(wire') <= MaxWire
    BY <1>0, <1>2 DEF EaSends
  <2> QED
    BY <1>2, <2>1, OtherSteps DEF EaSends, DashboardInv, DashboardTypeOK, hubVars, tabVars
<1>3. ASSUME NEW how \in {"closed", "reset"}, EaEnds(how) PROVE DashboardInv'
  BY <1>3, OtherSteps DEF EaEnds, DashboardInv, DashboardTypeOK, hubVars, tabVars
<1>4. CASE ConnectRefused
  BY <1>0, <1>4, LinkPublishes DEF ConnectRefused
<1>5. CASE ConnectOk
  BY <1>5, OtherSteps DEF ConnectOk, DashboardInv, DashboardTypeOK, hubVars, tabVars
<1>6. CASE ReadTimeout
  BY <1>0, <1>6, LinkPublishes DEF ReadTimeout
<1>7. CASE ReadState
  <2>1. wire' \in Seq(Lines) /\ Len(wire') <= MaxWire
    BY <1>0, <1>7 DEF ReadState
  <2> QED
    BY <1>0, <1>7, <2>1, LinkPublishes DEF ReadState
<1>8. CASE ReadJunk
  <2>1. wire' \in Seq(Lines) /\ Len(wire') <= MaxWire
    BY <1>0, <1>8 DEF ReadJunk
  <2> QED
    BY <1>8, <2>1, OtherSteps DEF ReadJunk, DashboardInv, DashboardTypeOK, hubVars, tabVars
<1>9. CASE ReadEof
  BY <1>0, <1>9, LinkPublishes DEF ReadEof
<1>10. CASE ReadRaises
  <2>1. <<>> \in Seq(Lines) /\ Len(<<>>) <= MaxWire
    OBVIOUS
  <2> QED
    BY <1>0, <1>10, <2>1, LinkPublishes DEF ReadRaises
<1>11. CASE Wake
  BY <1>11, OtherSteps DEF Wake, DashboardInv, DashboardTypeOK, hubVars, tabVars
<1>12. ASSUME NEW b \in Browsers, Open(b) \/ Sent(b) \/ Take(b) \/ CloseTab(b) \/ SendFails(b)
       PROVE  DashboardInv'
  BY <1>12, OpenStep, SentStep, TakeStep, CloseTabStep, SendFailsStep
<1>13. CASE UNCHANGED dashboardVars
  BY <1>13, OtherSteps DEF dashboardVars, DashboardInv, DashboardTypeOK, hubVars, tabVars
<1> QED
  BY <1>1, <1>2, <1>3, <1>4, <1>5, <1>6, <1>7, <1>8, <1>9, <1>10, <1>11, <1>12, <1>13 DEF DashboardNext

LEMMA Invariance == DashboardSpec => []DashboardInv
  BY InitInv, NextInv, PTL DEF DashboardSpec

-----------------------------------------------------------------------------
(* Every variable of the dashboard keeps its type, and no queue outgrows   *)
(* its size (state_hub.py:55).                                             *)
THEOREM DashboardTypeCorrect == DashboardSpec => []DashboardTypeOK
<1>1. DashboardInv => DashboardTypeOK
  BY DEF DashboardInv
<1> QED BY <1>1, Invariance, PTL

(* Whatever a slow tab has missed, the last thing on its way to it is the  *)
(* hub's state (state_hub.py:61, app.py:98).                               *)
THEOREM SlowTabsCatchUp == DashboardSpec => []TabsCatchUp
<1>1. DashboardInv => TabsCatchUp
  BY DEF DashboardInv
<1> QED BY <1>1, Invariance, PTL

(* Nobody is told of a connection when there is none (ea_link.py:101).     *)
THEOREM NeverConnectedWithout == DashboardSpec => []HonestWithoutConnection
<1>1. DashboardInit => HonestWithoutConnection
  BY DEF DashboardInit, Initial, HonestWithoutConnection
<1>2. DashboardTypeOK /\ HonestWithoutConnection /\ [DashboardNext]_dashboardVars => HonestWithoutConnection'
  BY DEF DashboardTypeOK, HonestWithoutConnection, DashboardNext, dashboardVars, hubVars, tabVars, HubPublishes, EaStarts,
         EaSends, EaEnds, ConnectRefused, ConnectOk, ReadTimeout, ReadState, ReadJunk,
         ReadEof, ReadRaises, Wake, Open, Sent, Take, CloseTab, SendFails
<1> QED BY <1>1, <1>2, DashboardTypeCorrect, PTL DEF DashboardSpec

(* What a tab shows never goes back to an older state (app.py:98).         *)
THEOREM TabsGoForward == DashboardSpec => NoTabGoesBack
<1> DEFINE Forward == \A b \in Browsers : Subscribed(b)' => shown'[b].id >= shown[b].id
<1>1. ASSUME DashboardInv, [DashboardNext]_dashboardVars PROVE Forward
  <2> SUFFICES ASSUME NEW b \in Browsers, Subscribed(b)'
               PROVE  shown'[b].id >= shown[b].id
    OBVIOUS
  <2>1. shown \in [Browsers -> State] /\ outgoing \in [Browsers -> State]
    BY <1>1 DEF DashboardInv, DashboardTypeOK
  <2>2. shown[b].id \in Nat
    BY <2>1, Constants DEF State
  <2>3. CASE shown'[b] = shown[b]
    BY <2>2, <2>3
  <2>4. CASE shown'[b] # shown[b]
    <3>1. Sent(b) \/ SendFails(b)
      BY <1>1, <2>1, <2>4 DEF DashboardNext, dashboardVars, hubVars, tabVars, EaStarts, EaSends, EaEnds,
         ConnectRefused, ConnectOk, ReadTimeout, ReadState, ReadJunk, ReadEof, ReadRaises,
         Wake, Open, Sent, Take, CloseTab, SendFails
    <3>2. ~SendFails(b)
      BY <1>1 DEF SendFails, Subscribed, DashboardInv, DashboardTypeOK
    <3>3. shown'[b] = outgoing[b] /\ shown[b].id <= outgoing[b].id
      BY <1>1, <2>1, <3>1, <3>2 DEF Sent, DashboardInv, InOrder, InOrderAt
    <3>4. outgoing[b].id \in Nat
      BY <2>1, Constants DEF State
    <3> QED BY <2>2, <3>3, <3>4
  <2> QED BY <2>3, <2>4
<1>2. DashboardInv /\ [DashboardNext]_dashboardVars => [Forward]_dashboardVars
  BY <1>1
<1> QED BY <1>2, Invariance, PTL DEF DashboardSpec, NoTabGoesBack

=============================================================================
