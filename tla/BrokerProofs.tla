---------------------------- MODULE BrokerProofs ----------------------------
(***************************************************************************)
(* Theorems about the programs that send orders to the broker.  First the  *)
(* three that trade without a strategy, for any positions and any pending  *)
(* orders the account has before: the preflight alone (Spec), then with    *)
(* the closeout and the reconciliation that run on the same account        *)
(* (CloseoutSpec), then what all three report.  Last the live session      *)
(* (DispatchSpec), for every account and set of rules.                     *)
(***************************************************************************)
EXTENDS Closeout, LiveDispatch, FiniteSetTheorems, WellFoundedInduction, TLAPS

(***************************************************************************)
(* The preflight.                                                          *)
(*                                                                         *)
(* What its cleanup rests on: tickets are unique, the preflight's own is   *)
(* given once (GivenOnce), and a position that was ever seen is either     *)
(* still open or has closed (NothingLost), whatever is in flight.          *)
(***************************************************************************)
KnowsIts ==
  /\ pc \in Steps \ {"OPEN_POSITION", "VERIFY_OPEN"} => opened \in Positions
  /\ pc \in {"TRAIL_STOP", "CLOSE_POSITION"} => seen \in Positions
  /\ pc \in {"OPEN_POSITION", "VERIFY_OPEN"} => opened = NoPosition

Known(ticket) == Holds(ticket) \/ WasClosed(ticket)

\* The order to open is on its way, or its position is known, but never both.
GivenOnce ==
  /\ \A r \in flight : r.kind = "OPEN" => r.ticket = NewTicket /\ ~Known(NewTicket)
  /\ \A q, r \in flight : q.kind = "OPEN" /\ r.kind = "OPEN" => q = r
  /\ pc = "OPEN_POSITION" => flight = {} /\ ~Known(NewTicket)

NothingLost == opened # NoPosition => Known(opened.ticket)

NoLaterTicket == \A ticket \in Nat : Holds(ticket) => ticket <= NewTicket

Inv == TypeOK /\ KnowsIts /\ GivenOnce /\ NothingLost /\ NoLaterTicket /\ VerifiedCleanupIsReal

-----------------------------------------------------------------------------
(* What the broker does to the account, seen by ticket.                    *)

LEMMA CarryOutKnown ==
  ASSUME BrokerTypeOK, NEW r \in Requests, CarryOut(r), NEW ticket \in Nat
  PROVE  /\ Known(ticket) => Known(ticket)'
         /\ Known(ticket)' => Known(ticket) \/ (r.kind = "OPEN" /\ r.ticket = ticket)
         /\ Holds(ticket)' => Holds(ticket) \/ (r.kind = "OPEN" /\ r.ticket = ticket)
         /\ WasClosed(ticket) => WasClosed(ticket)'
<1>1. CASE r.kind = "OPEN"
  BY <1>1 DEF CarryOut, BookAfter, Known, Holds, WasClosed
<1>2. CASE r.kind = "MODIFY"
  <2>1. /\ book' = {IF p.ticket = r.ticket THEN [p EXCEPT !.stop = r.stop, !.target = r.target]
                    ELSE p : p \in book}
        /\ closed' = closed
    BY <1>2 DEF CarryOut, BookAfter
  <2> DEFINE After(p) == IF p.ticket = r.ticket
                           THEN [p EXCEPT !.stop = r.stop, !.target = r.target] ELSE p
  <2>2. ASSUME NEW p \in book PROVE After(p).ticket = p.ticket
    BY DEF BrokerTypeOK, Positions
  <2>3. book' = {After(p) : p \in book}
    BY <2>1
  <2> HIDE DEF After
  <2>4. Holds(ticket)' <=> Holds(ticket)
    BY <2>2, <2>3 DEF Holds
  <2> QED BY <1>2, <2>1, <2>4 DEF Known, WasClosed
<1>3. CASE r.kind = "CLOSE"
  BY <1>3 DEF CarryOut, BookAfter, Known, Holds, WasClosed
<1> QED BY <1>1, <1>2, <1>3 DEF Requests

LEMMA CarryOutType ==
  ASSUME BrokerTypeOK, NEW r \in Requests, CarryOut(r)
  PROVE  book' \subseteq Positions /\ closed' \subseteq Positions
<1>1. CASE r.kind = "OPEN"
  <2>1. [ticket |-> r.ticket, own |-> TRUE, stop |-> r.stop, target |-> r.target] \in Positions
    BY DEF Positions, Requests
  <2>2. /\ book' = book \cup {[ticket |-> r.ticket, own |-> TRUE, stop |-> r.stop,
                               target |-> r.target]}
        /\ closed' \subseteq closed \cup book
    BY <1>1 DEF CarryOut, BookAfter
  <2> QED BY <2>1, <2>2 DEF BrokerTypeOK
<1>2. CASE r.kind = "MODIFY"
  <2>1. /\ book' = {IF p.ticket = r.ticket THEN [p EXCEPT !.stop = r.stop, !.target = r.target]
                    ELSE p : p \in book}
        /\ closed' = closed \cup {}
    BY <1>2 DEF CarryOut, BookAfter
  <2>2. ASSUME NEW p \in Positions
        PROVE  [p EXCEPT !.stop = r.stop, !.target = r.target] \in Positions
    BY DEF Positions, Requests
  <2> QED BY <2>1, <2>2 DEF BrokerTypeOK
<1>3. CASE r.kind = "CLOSE"
  BY <1>3 DEF CarryOut, BookAfter, BrokerTypeOK
<1> QED BY <1>1, <1>2, <1>3 DEF Requests

(* Sending carries a request out, leaves it in flight, or does nothing.    *)
LEMMA SendCases ==
  ASSUME NEW r, NEW outcome, Send(r, outcome)
  PROVE  \/ CarryOut(r) /\ UNCHANGED flight
         \/ flight' = flight \cup {r} /\ UNCHANGED <<book, closed>>
         \/ UNCHANGED <<book, closed, flight>>
  BY DEF Send, FillInPart, Accept, brokerVars

(* The broker's variables after a step that is not the preflight's order   *)
(* to open.                                                                *)
Harmless ==
  /\ BrokerTypeOK'
  /\ \A ticket \in Nat :
                 /\ Known(ticket) => Known(ticket)'
                 /\ Known(ticket)' => Known(ticket)
                 /\ Holds(ticket)' => Holds(ticket)
                 /\ WasClosed(ticket) => WasClosed(ticket)'
  /\ \A r \in flight' : r.kind = "OPEN" => r \in flight

LEMMA QuietIsHarmless == BrokerTypeOK /\ UNCHANGED brokerVars => Harmless
  BY DEF Harmless, BrokerTypeOK, Known, Holds, WasClosed, brokerVars

LEMMA SendIsHarmless ==
  ASSUME BrokerTypeOK, NEW r \in Requests, r.kind # "OPEN", NEW outcome, Send(r, outcome)
  PROVE  Harmless
<1>1. CASE CarryOut(r) /\ UNCHANGED flight
  BY <1>1, CarryOutKnown, CarryOutType DEF Harmless, BrokerTypeOK
<1>2. CASE flight' = flight \cup {r} /\ UNCHANGED <<book, closed>>
  BY <1>2 DEF Harmless, BrokerTypeOK, Known, Holds, WasClosed
<1>3. CASE UNCHANGED <<book, closed, flight>>
  BY <1>3, QuietIsHarmless DEF brokerVars
<1> QED BY <1>1, <1>2, <1>3, SendCases

-----------------------------------------------------------------------------
LEMMA InitInv == Init => Inv
<1> SUFFICES ASSUME Init PROVE Inv
  OBVIOUS
<1> USE PriorAssumption DEF Init
<1>1. TypeOK
  <2>1. <<>> \in Seq([step : Steps, ok : BOOLEAN])
    OBVIOUS
  <2>2. "OPEN_POSITION" \in Labels
    BY DEF Labels, Steps
  <2> QED BY <2>1, <2>2 DEF TypeOK, BrokerTypeOK
<1>2. KnowsIts
  BY DEF KnowsIts, Steps
<1>3. GivenOnce
  <2>1. \A p \in Prior : p.ticket # NewTicket
    BY DEF Positions
  <2> QED BY <2>1 DEF GivenOnce, Known, Holds, WasClosed
<1>4. NothingLost /\ VerifiedCleanupIsReal
  BY DEF NothingLost, VerifiedCleanupIsReal
<1>5. NoLaterTicket
  BY DEF NoLaterTicket, Holds, Positions
<1> QED BY <1>1, <1>2, <1>3, <1>4, <1>5 DEF Inv

(* A step that is harmless at the broker and keeps to the types of the     *)
(* run's variables, its position and its verdict.                          *)
LEMMA HarmlessStep ==
  ASSUME Inv, Harmless,
         pc' \in Labels,
         pc' = "OPEN_POSITION" => pc = "OPEN_POSITION" /\ flight' \subseteq flight,
         handling' \in BOOLEAN, seen' \in Positions \cup {NoPosition},
         steps' \in Seq([step : Steps, ok : BOOLEAN]),
         opened' \in Positions \cup {NoPosition}, cleanupVerified' \in BOOLEAN,
         KnowsIts',
         opened' = opened \/ (opened' \in Positions /\ Known(opened.ticket)'),
         pc' = "RETURNED" =>
           \/ opened' = NoPosition
           \/ opened' = opened /\ (cleanupVerified' => ~Holds(opened.ticket)')
  PROVE  Inv'
<1>1. TypeOK'
  BY DEF TypeOK, Harmless, Inv
<1>2. GivenOnce'
  <2>1. NewTicket \in Nat
    BY PriorAssumption
  <2>2. ASSUME NEW r \in flight', r.kind = "OPEN"
        PROVE  r.ticket = NewTicket /\ ~Known(NewTicket)'
    <3>1. r \in flight
      BY <2>2 DEF Harmless
    <3>2. r.ticket = NewTicket /\ ~Known(NewTicket)
      BY <2>2, <3>1 DEF Inv, GivenOnce
    <3> QED BY <2>1, <3>2 DEF Harmless
  <2>3. \A q, r \in flight' : q.kind = "OPEN" /\ r.kind = "OPEN" => q = r
    BY DEF Inv, GivenOnce, Harmless
  <2>4. CASE pc' # "OPEN_POSITION"
    BY <2>2, <2>3, <2>4 DEF GivenOnce
  <2>5. CASE pc' = "OPEN_POSITION"
    BY <2>1, <2>2, <2>3, <2>5 DEF Inv, GivenOnce, Harmless
  <2> QED BY <2>4, <2>5
<1>3. NothingLost'
  <2>1. CASE opened' = opened
    <3>1. opened # NoPosition => opened.ticket \in Nat /\ Known(opened.ticket)
      BY DEF Inv, TypeOK, Positions, NothingLost
    <3>2. opened # NoPosition => Known(opened.ticket)'
      BY <2>1, <3>1 DEF Harmless, Known, Holds, WasClosed
    <3> QED BY <2>1, <3>2 DEF NothingLost
  <2>2. CASE opened' # opened
    BY <2>2 DEF NothingLost
  <2> QED BY <2>1, <2>2
<1>4. VerifiedCleanupIsReal'
  BY <1>3 DEF VerifiedCleanupIsReal, NothingLost, Known
<1>5. NoLaterTicket'
  BY DEF NoLaterTicket, Harmless, Inv
<1> QED BY <1>1, <1>2, <1>3, <1>4, <1>5 DEF Inv

-----------------------------------------------------------------------------
(* The account's tickets are bounded, so the latest of them is one of them. *)
LEMMA LatestExists ==
  ASSUME NEW bound \in Nat, NEW S, S \subseteq Positions, S # {}, \A p \in S : p.ticket <= bound
  PROVE  \E p \in S : \A q \in S : q.ticket <= p.ticket
<1> DEFINE Short == {n \in Nat : \E p \in S : n = bound - p.ticket}
<1>2. ASSUME NEW p \in S PROVE p.ticket \in Nat /\ bound - p.ticket \in Short
  BY DEF Positions
<1>3. Short \subseteq Nat /\ Short # {}
  BY <1>2
<1>4. PICK n \in Short : \A m \in Short : n <= m
  <2>1. IsWellFoundedOn(OpToRel(<, Nat), Nat)
    BY NatLessThanWellFounded
  <2>2. PICK n \in Short : \A m \in Short : ~ (<<m, n>> \in OpToRel(<, Nat))
    BY <1>3, <2>1, WFMin
  <2>3. ASSUME NEW m \in Short PROVE n <= m
    <3>1. m \in Nat /\ n \in Nat /\ ~(m < n)
      BY <1>3, <2>2 DEF OpToRel
    <3> QED BY <3>1
  <2> QED BY <2>3
<1>5. PICK p \in S : n = bound - p.ticket
  BY <1>4
<1>6. ASSUME NEW q \in S PROVE q.ticket <= p.ticket
  <2>1. p.ticket \in Nat /\ q.ticket \in Nat /\ bound - q.ticket \in Short
    BY <1>2
  <2>2. bound - p.ticket <= bound - q.ticket
    BY <1>4, <1>5, <2>1
  <2> QED BY <2>1, <2>2
<1> QED BY <1>6

LEMMA FindOpenedFacts ==
  ASSUME Inv
  PROVE  /\ FindOpened \in Positions \cup {NoPosition}
         /\ FindOpened # NoPosition => FindOpened \in book /\ FindOpened.own
<1>1. CASE Own = {}
  BY <1>1 DEF FindOpened
<1>2. CASE Own # {}
  <2>1. Own \subseteq Positions /\ Own \subseteq book
    BY DEF Inv, TypeOK, BrokerTypeOK, Own
  <2>2. NewTicket \in Nat /\ \A p \in Own : p.ticket <= NewTicket
    BY <2>1, PriorAssumption DEF Inv, NoLaterTicket, Holds, Positions
  <2>3. \E p \in Own : \A q \in Own : q.ticket <= p.ticket
    BY <1>2, <2>1, <2>2, LatestExists
  <2>4. FindOpened \in Own
    BY <1>2, <2>3 DEF FindOpened
  <2> QED BY <2>1, <2>4 DEF Own
<1> QED BY <1>1, <1>2

LEMMA RefreshFacts ==
  ASSUME BrokerTypeOK, NEW ticket
  PROVE  /\ Refresh(ticket) \in Positions \cup {NoPosition}
         /\ Refresh(ticket) # NoPosition => Refresh(ticket).ticket = ticket
  BY DEF Refresh, Holds, BrokerTypeOK

-----------------------------------------------------------------------------
(* How a step of the run ends.                                             *)

Record == [step : Steps, ok : BOOLEAN]

LEMMA RecordsType ==
  ASSUME steps \in Seq(Record), NEW step \in Steps, NEW ok \in BOOLEAN, Records(step, ok)
  PROVE  steps' \in Seq(Record)
  BY DEF Records, Record

LEMMA RaisesFacts ==
  ASSUME TypeOK, Raises
  PROVE  /\ pc' \in {"FINISH", "ESCAPED"} /\ handling' \in BOOLEAN
         /\ steps' \in Seq(Record)
<1>1. steps \in Seq(Record) /\ "CLOSE_POSITION" \in Steps /\ FALSE \in BOOLEAN
  BY DEF TypeOK, Steps, Record
<1> QED BY <1>1, RecordsType DEF Raises

LEMMA ConcludesFacts ==
  ASSUME TypeOK, NEW step \in Steps, NEW ok \in BOOLEAN, NEW next, Concludes(step, ok, next)
  PROVE  /\ pc' = (IF ok THEN next ELSE "FINISH") /\ handling' \in BOOLEAN
         /\ steps' \in Seq(Record)
<1>1. steps \in Seq(Record)
  BY DEF TypeOK, Record
<1> QED BY <1>1, RecordsType DEF Concludes, TypeOK

LEMMA CallsFacts ==
  ASSUME TypeOK, NEW step \in Steps, NEW request \in Requests, request.kind # "OPEN",
         NEW next, Calls(step, request, next)
  PROVE  /\ Harmless /\ UNCHANGED <<opened, seen, cleanupVerified>>
         /\ pc' \in {next, "FINISH", "ESCAPED"} /\ handling' \in BOOLEAN
         /\ steps' \in Seq(Record)
<1>1. PICK outcome \in Outcomes :
        /\ Send(request, outcome)
        /\ IF outcome = "raised" THEN Raises
           ELSE Concludes(step, outcome \in Approved, next)
        /\ UNCHANGED <<opened, seen, cleanupVerified>>
  BY DEF Calls
<1>2. Harmless
  BY <1>1, SendIsHarmless DEF TypeOK
<1>3. (outcome \in Approved) \in BOOLEAN
  OBVIOUS
<1> QED BY <1>1, <1>2, <1>3, RaisesFacts, ConcludesFacts

-----------------------------------------------------------------------------
(* Every step but the order to open, sent or carried out, is harmless.     *)

LEMMA LookRaisesStep == Inv /\ LookRaises => Inv'
<1> SUFFICES ASSUME Inv, LookRaises PROVE Inv'
  OBVIOUS
<1>1. /\ pc' \in {"FINISH", "ESCAPED"} /\ handling' \in BOOLEAN /\ steps' \in Seq(Record)
      /\ UNCHANGED <<opened, seen, cleanupVerified, brokerVars>>
  BY RaisesFacts DEF LookRaises, Inv
<1>2. Harmless
  BY <1>1, QuietIsHarmless DEF Inv, TypeOK
<1>3. KnowsIts'
  BY <1>1 DEF KnowsIts, Steps
<1> QED BY <1>1, <1>2, <1>3, HarmlessStep DEF Inv, TypeOK, Labels, Record

LEMMA VerifyOpenStep == Inv /\ VerifyOpen => Inv'
<1> SUFFICES ASSUME Inv, VerifyOpen PROVE Inv'
  OBVIOUS
<1>1. /\ opened' = FindOpened /\ UNCHANGED <<seen, cleanupVerified, brokerVars>>
      /\ Concludes("VERIFY_OPEN", opened' # NoPosition, "SET_PROTECTIVE_LEVELS")
  BY DEF VerifyOpen
<1>2. /\ pc' = (IF opened' # NoPosition THEN "SET_PROTECTIVE_LEVELS" ELSE "FINISH")
      /\ handling' \in BOOLEAN /\ steps' \in Seq(Record)
  <2>1. "VERIFY_OPEN" \in Steps /\ (opened' # NoPosition) \in BOOLEAN
    BY DEF Steps
  <2> QED BY <1>1, <2>1, ConcludesFacts DEF Inv
<1>3. Harmless
  BY <1>1, QuietIsHarmless DEF Inv, TypeOK
<1>4. opened' \in Positions \cup {NoPosition} /\ (opened' # NoPosition => opened' \in book)
  BY <1>1, FindOpenedFacts
<1>5. KnowsIts'
  BY <1>2, <1>4 DEF KnowsIts, Steps
<1>6. opened' # NoPosition => opened' \in Positions /\ Known(opened.ticket)'
  BY <1>1, <1>4 DEF Known, Holds, brokerVars
<1>7. pc' \in {"SET_PROTECTIVE_LEVELS", "FINISH"}
  BY <1>2
<1>8. Inv' \/ opened' = NoPosition
  BY <1>1, <1>2, <1>3, <1>4, <1>5, <1>6, <1>7, HarmlessStep DEF Inv, TypeOK, Labels, Steps, Record
<1>9. CASE opened' = NoPosition
  <2>1. TypeOK'
    BY <1>1, <1>2, <1>3, <1>7, <1>9 DEF Harmless, TypeOK, Inv, Labels, Steps, Record
  <2>2. GivenOnce' /\ NoLaterTicket'
    BY <1>1, <1>7 DEF Inv, GivenOnce, NoLaterTicket, Known, Holds, WasClosed, brokerVars
  <2> QED BY <1>5, <1>9, <2>1, <2>2 DEF Inv, NothingLost, VerifiedCleanupIsReal
<1> QED BY <1>8, <1>9

LEMMA SetProtectiveLevelsStep == Inv /\ SetProtectiveLevels => Inv'
<1> SUFFICES ASSUME Inv, SetProtectiveLevels PROVE Inv'
  OBVIOUS
<1>1. opened \in Positions /\ pc = "SET_PROTECTIVE_LEVELS"
  BY DEF Inv, KnowsIts, SetProtectiveLevels, Steps
<1> DEFINE request == [kind |-> "MODIFY", ticket |-> opened.ticket, stop |-> FirstStop,
                       target |-> TRUE]
<1>2. request \in Requests /\ request.kind # "OPEN"
  BY <1>1 DEF Requests, Positions, FirstStop
<1>3. \/ Raises /\ UNCHANGED <<opened, seen, cleanupVerified, brokerVars>>
      \/ Calls("SET_PROTECTIVE_LEVELS", request, "VERIFY_LEVELS")
  BY DEF SetProtectiveLevels, Modifies
<1> HIDE DEF request
<1>4. /\ Harmless /\ UNCHANGED <<opened, seen, cleanupVerified>>
      /\ pc' \in {"VERIFY_LEVELS", "FINISH", "ESCAPED"} /\ handling' \in BOOLEAN
      /\ steps' \in Seq(Record)
  <2>1. "SET_PROTECTIVE_LEVELS" \in Steps
    BY DEF Steps
  <2> QED BY <1>2, <1>3, <2>1, RaisesFacts, CallsFacts, QuietIsHarmless DEF Inv, TypeOK
<1>5. KnowsIts'
  BY <1>1, <1>4 DEF KnowsIts, Steps
<1> QED BY <1>4, <1>5, HarmlessStep DEF Inv, TypeOK, Labels, Steps, Record

LEMMA VerifyLevelsStep == Inv /\ VerifyLevels => Inv'
<1> SUFFICES ASSUME Inv, VerifyLevels PROVE Inv'
  OBVIOUS
<1> DEFINE ok == seen' # NoPosition /\ seen'.stop # NoStop /\ seen'.target
<1>1. /\ seen' = Refresh(opened.ticket) /\ UNCHANGED <<opened, cleanupVerified, brokerVars>>
      /\ Concludes("VERIFY_LEVELS", ok, "TRAIL_STOP") /\ opened \in Positions
  BY DEF VerifyLevels, Inv, KnowsIts, Steps
<1>2. seen' \in Positions \cup {NoPosition}
  BY <1>1, RefreshFacts DEF Inv, TypeOK
<1>3. ok \in BOOLEAN /\ (ok => seen' \in Positions)
  BY <1>2 DEF Positions
<1> HIDE DEF ok
<1>4. /\ pc' = (IF ok THEN "TRAIL_STOP" ELSE "FINISH") /\ handling' \in BOOLEAN
      /\ steps' \in Seq(Record)
  <2>1. "VERIFY_LEVELS" \in Steps
    BY DEF Steps
  <2> QED BY <1>1, <1>3, <2>1, ConcludesFacts DEF Inv
<1>5. Harmless
  BY <1>1, QuietIsHarmless DEF Inv, TypeOK
<1>6. KnowsIts'
  BY <1>1, <1>3, <1>4 DEF KnowsIts, Steps
<1> QED BY <1>1, <1>2, <1>4, <1>5, <1>6, HarmlessStep DEF Inv, TypeOK, Labels, Steps, Record

LEMMA TrailStopStep == Inv /\ TrailStop => Inv'
<1> SUFFICES ASSUME Inv, TrailStop PROVE Inv'
  OBVIOUS
<1>1. opened \in Positions /\ seen \in Positions /\ pc = "TRAIL_STOP"
  BY DEF Inv, KnowsIts, TrailStop, Steps
<1> DEFINE request == [kind |-> "MODIFY", ticket |-> seen.ticket, stop |-> TrailedStop,
                       target |-> seen.target]
<1>2. request \in Requests /\ request.kind # "OPEN"
  BY <1>1 DEF Requests, Positions, TrailedStop
<1>3. \/ Raises /\ UNCHANGED <<opened, seen, cleanupVerified, brokerVars>>
      \/ Calls("TRAIL_STOP", request, "VERIFY_TRAIL")
  BY DEF TrailStop, Modifies
<1> HIDE DEF request
<1>4. /\ Harmless /\ UNCHANGED <<opened, seen, cleanupVerified>>
      /\ pc' \in {"VERIFY_TRAIL", "FINISH", "ESCAPED"} /\ handling' \in BOOLEAN
      /\ steps' \in Seq(Record)
  <2>1. "TRAIL_STOP" \in Steps
    BY DEF Steps
  <2> QED BY <1>2, <1>3, <2>1, RaisesFacts, CallsFacts, QuietIsHarmless DEF Inv, TypeOK
<1>5. KnowsIts'
  BY <1>1, <1>4 DEF KnowsIts, Steps
<1> QED BY <1>4, <1>5, HarmlessStep DEF Inv, TypeOK, Labels, Steps, Record

LEMMA VerifyTrailStep == Inv /\ VerifyTrail => Inv'
<1> SUFFICES ASSUME Inv, VerifyTrail PROVE Inv'
  OBVIOUS
<1> DEFINE after == Refresh(opened.ticket)
           ok == after # NoPosition /\ after.stop > seen.stop
<1>1. Concludes("VERIFY_TRAIL", ok, "FINISH")
      /\ UNCHANGED <<opened, seen, cleanupVerified, brokerVars>>
  BY DEF VerifyTrail
<1>2. ok \in BOOLEAN
  OBVIOUS
<1> HIDE DEF ok
<1>3. pc' = "FINISH" /\ handling' \in BOOLEAN /\ steps' \in Seq(Record)
  <2>1. "VERIFY_TRAIL" \in Steps
    BY DEF Steps
  <2> QED BY <1>1, <1>2, <2>1, ConcludesFacts DEF Inv
<1>4. Harmless
  BY <1>1, QuietIsHarmless DEF Inv, TypeOK
<1>5. KnowsIts'
  BY <1>3 DEF KnowsIts, Steps
<1> QED BY <1>1, <1>3, <1>4, <1>5, HarmlessStep DEF Inv, TypeOK, Labels, Record

LEMMA FinishNothingStep == Inv /\ FinishNothing => Inv'
<1> SUFFICES ASSUME Inv, FinishNothing PROVE Inv'
  OBVIOUS
<1>1. /\ pc' = "RETURNED" /\ opened = NoPosition
      /\ UNCHANGED <<handling, opened, seen, steps, cleanupVerified, brokerVars>>
  BY DEF FinishNothing, Returns
<1>2. Harmless
  BY <1>1, QuietIsHarmless DEF Inv, TypeOK
<1>3. KnowsIts'
  BY <1>1 DEF KnowsIts, Steps
<1> QED BY <1>1, <1>2, <1>3, HarmlessStep DEF Inv, TypeOK, Labels

LEMMA FinishLookStep == Inv /\ FinishLook => Inv'
<1> SUFFICES ASSUME Inv, FinishLook PROVE Inv'
  OBVIOUS
<1>1. /\ seen' = Refresh(opened.ticket) /\ opened \in Positions
      /\ pc' = (IF seen' = NoPosition THEN "VERIFY_CLOSED" ELSE "CLOSE_POSITION")
      /\ UNCHANGED <<handling, opened, steps, cleanupVerified, brokerVars>>
  BY DEF FinishLook, Inv, TypeOK
<1>2. seen' \in Positions \cup {NoPosition}
  BY <1>1, RefreshFacts DEF Inv, TypeOK
<1>3. Harmless
  BY <1>1, QuietIsHarmless DEF Inv, TypeOK
<1>4. KnowsIts'
  BY <1>1, <1>2 DEF KnowsIts, Steps
<1> QED BY <1>1, <1>2, <1>3, <1>4, HarmlessStep DEF Inv, TypeOK, Labels, Steps

LEMMA FinishCloseStep == Inv /\ FinishClose => Inv'
<1> SUFFICES ASSUME Inv, FinishClose PROVE Inv'
  OBVIOUS
<1>1. opened \in Positions /\ seen \in Positions
  BY DEF Inv, KnowsIts, FinishClose, Steps
<1> DEFINE request == [kind |-> "CLOSE", ticket |-> seen.ticket, stop |-> seen.stop,
                       target |-> seen.target]
<1>2. request \in Requests /\ request.kind # "OPEN"
  BY <1>1 DEF Requests, Positions
<1>3. PICK outcome \in Outcomes :
        /\ Send(request, outcome)
        /\ IF outcome = "raised" THEN Raises
           ELSE /\ Records("CLOSE_POSITION", outcome \in Approved)
                /\ pc' = "VERIFY_CLOSED" /\ UNCHANGED handling
        /\ UNCHANGED <<opened, seen, cleanupVerified>>
  BY DEF FinishClose
<1> HIDE DEF request
<1>4. Harmless
  BY <1>2, <1>3, SendIsHarmless DEF Inv, TypeOK
<1>5. /\ pc' \in {"VERIFY_CLOSED", "FINISH", "ESCAPED"} /\ handling' \in BOOLEAN
      /\ steps' \in Seq(Record)
  <2>1. "CLOSE_POSITION" \in Steps /\ (outcome \in Approved) \in BOOLEAN
    BY DEF Steps
  <2>2. steps \in Seq(Record) /\ handling \in BOOLEAN
    BY DEF Inv, TypeOK, Record
  <2> QED BY <1>3, <2>1, <2>2, RaisesFacts, RecordsType DEF Inv
<1>6. KnowsIts'
  BY <1>1, <1>3, <1>5 DEF KnowsIts, Steps
<1> QED BY <1>3, <1>4, <1>5, <1>6, HarmlessStep DEF Inv, TypeOK, Labels, Steps, Record

LEMMA FinishVerifyStep == Inv /\ FinishVerify => Inv'
<1> SUFFICES ASSUME Inv, FinishVerify PROVE Inv'
  OBVIOUS
<1>1. /\ cleanupVerified' = ~Holds(opened.ticket) /\ pc' = "RETURNED"
      /\ Records("VERIFY_CLOSED", ~Holds(opened.ticket))
      /\ UNCHANGED <<handling, opened, seen, brokerVars>>
  BY DEF FinishVerify, Returns
<1>2. Holds(opened.ticket) \in BOOLEAN /\ "VERIFY_CLOSED" \in Steps
  BY DEF Holds, Steps
<1>3. steps' \in Seq(Record)
  <2>1. steps \in Seq(Record) /\ (~Holds(opened.ticket)) \in BOOLEAN
    BY <1>2 DEF Inv, TypeOK, Record
  <2> QED BY <1>1, <1>2, <2>1, RecordsType
<1>4. Harmless
  BY <1>1, QuietIsHarmless DEF Inv, TypeOK
<1>5. KnowsIts'
  BY <1>1 DEF KnowsIts, Steps
<1>6. cleanupVerified' => ~Holds(opened.ticket)'
  BY <1>1 DEF Holds, brokerVars
<1> QED BY <1>1, <1>3, <1>4, <1>5, <1>6, HarmlessStep DEF Inv, TypeOK, Labels, Record

-----------------------------------------------------------------------------
(* The order to open, sent and carried out.                                *)

(* A position under the preflight's own ticket appears.                    *)
LEMMA NewPosition ==
  ASSUME Inv, NEW r \in Requests, r.kind = "OPEN", r.ticket = NewTicket, CarryOut(r),
         UNCHANGED opened
  PROVE  /\ NoLaterTicket' /\ book' \subseteq Positions /\ closed' \subseteq Positions
         /\ opened # NoPosition => Known(opened.ticket)'
<1>1. NewTicket \in Nat
  BY PriorAssumption
<1>2. \A ticket \in Nat : /\ Known(ticket) => Known(ticket)'
                          /\ Holds(ticket)' => Holds(ticket) \/ ticket = NewTicket
  BY CarryOutKnown DEF Inv, TypeOK
<1>3. NoLaterTicket'
  BY <1>1, <1>2 DEF NoLaterTicket, Inv
<1>4. opened # NoPosition => Known(opened.ticket)'
  <2>1. opened # NoPosition => opened.ticket \in Nat /\ Known(opened.ticket)
    BY DEF Inv, TypeOK, Positions, NothingLost
  <2>2. ASSUME NEW ticket \in Nat, ticket = opened.ticket, Known(ticket)
        PROVE  Known(opened.ticket)'
    BY <1>2, <2>2 DEF Known, Holds, WasClosed
  <2> QED BY <2>1, <2>2
<1> QED BY <1>3, <1>4, CarryOutType DEF Inv, TypeOK

LEMMA OpenPositionStep == Inv /\ OpenPosition => Inv'
<1> SUFFICES ASSUME Inv, OpenPosition PROVE Inv'
  OBVIOUS
<1> DEFINE request == [kind |-> "OPEN", ticket |-> NewTicket, stop |-> NoStop,
                       target |-> FALSE]
<1>1. request \in Requests /\ request.kind = "OPEN" /\ request.ticket = NewTicket
  BY PriorAssumption DEF Requests, NoStop
<1>2. /\ opened = NoPosition /\ flight = {} /\ ~Known(NewTicket)
      /\ Calls("OPEN_POSITION", request, "VERIFY_OPEN")
  BY DEF OpenPosition, Inv, KnowsIts, GivenOnce
<1> HIDE DEF request
<1>3. PICK outcome \in Outcomes :
        /\ Send(request, outcome)
        /\ IF outcome = "raised" THEN Raises
           ELSE Concludes("OPEN_POSITION", outcome \in Approved, "VERIFY_OPEN")
        /\ UNCHANGED <<opened, seen, cleanupVerified>>
  BY <1>2 DEF Calls
<1>4. /\ pc' \in {"VERIFY_OPEN", "FINISH", "ESCAPED"} /\ handling' \in BOOLEAN
      /\ steps' \in Seq(Record)
  <2>1. "OPEN_POSITION" \in Steps /\ (outcome \in Approved) \in BOOLEAN
    BY DEF Steps
  <2> QED BY <1>3, <2>1, RaisesFacts, ConcludesFacts DEF Inv
<1>5. KnowsIts'
  BY <1>2, <1>3, <1>4 DEF KnowsIts, Steps
<1>6. /\ BrokerTypeOK' /\ NoLaterTicket'
      /\ \A r \in flight' : r.kind = "OPEN" => r.ticket = NewTicket /\ ~Known(NewTicket)'
      /\ \A q, r \in flight' : q.kind = "OPEN" /\ r.kind = "OPEN" => q = r
  <2>1. CASE CarryOut(request) /\ UNCHANGED flight
    BY <1>1, <1>2, <1>3, <2>1, NewPosition DEF BrokerTypeOK
  <2>2. CASE flight' = flight \cup {request} /\ UNCHANGED <<book, closed>>
    BY <1>1, <1>2, <2>2
       DEF BrokerTypeOK, Known, Holds, WasClosed, NoLaterTicket, Inv, TypeOK
  <2>3. CASE UNCHANGED <<book, closed, flight>>
    BY <1>2, <2>3 DEF BrokerTypeOK, NoLaterTicket, Holds, Inv, TypeOK
  <2> QED BY <1>3, <2>1, <2>2, <2>3, SendCases
<1>7. TypeOK'
  BY <1>3, <1>4, <1>6 DEF TypeOK, Inv, Labels, Steps, Record
<1>8. GivenOnce' /\ NothingLost' /\ VerifiedCleanupIsReal'
  BY <1>2, <1>3, <1>4, <1>6 DEF GivenOnce, NothingLost, VerifiedCleanupIsReal
<1> QED BY <1>5, <1>6, <1>7, <1>8 DEF Inv

LEMMA BrokerSteps == Inv /\ BrokerStep /\ UNCHANGED runVars => Inv'
<1> SUFFICES ASSUME Inv, BrokerStep, UNCHANGED runVars PROVE Inv'
  OBVIOUS
<1>1. BrokerTypeOK /\ UNCHANGED <<pc, handling, opened, seen, steps, cleanupVerified>>
  BY DEF Inv, TypeOK, runVars
<1>2. KnowsIts'
  BY <1>1 DEF KnowsIts, Inv
<1>3. CASE Harmless /\ flight' \subseteq flight
  <2>1. opened # NoPosition => opened.ticket \in Nat
    BY DEF Inv, TypeOK, Positions
  <2>2. pc' = "RETURNED" /\ opened # NoPosition =>
          (cleanupVerified' => ~Holds(opened.ticket)')
    BY <1>1, <1>3, <2>1 DEF Inv, VerifiedCleanupIsReal, Harmless, Holds
  <2> QED BY <1>1, <1>2, <1>3, <2>2, HarmlessStep DEF Inv, TypeOK
<1>4. ASSUME NEW r \in flight, Lose(r) PROVE Inv'
  <2>1. Harmless /\ flight' \subseteq flight
    BY <1>1, <1>4 DEF Lose, Harmless, BrokerTypeOK, Known, Holds, WasClosed
  <2> QED BY <1>3, <2>1
<1>5. ASSUME NEW p \in book, Vanish(p) PROVE Inv'
  <2>1. Harmless /\ flight' \subseteq flight
    BY <1>1, <1>5 DEF Vanish, Harmless, BrokerTypeOK, Known, Holds, WasClosed
  <2> QED BY <1>3, <2>1
<1>6. ASSUME NEW r \in flight, Deliver(r) PROVE Inv'
  <2>1. r \in Requests /\ CarryOut(r) /\ flight' = flight \ {r}
    BY <1>1, <1>6 DEF Deliver, BrokerTypeOK
  <2>2. CASE r.kind # "OPEN"
    <3>1. Harmless /\ flight' \subseteq flight
      BY <1>1, <2>1, <2>2, CarryOutKnown, CarryOutType DEF Harmless, BrokerTypeOK
    <3> QED BY <1>3, <3>1
  <2>3. CASE r.kind = "OPEN"
    <3>1. r.ticket = NewTicket /\ ~Known(NewTicket) /\ pc # "OPEN_POSITION"
      BY <1>6, <2>3 DEF Inv, GivenOnce
    <3>2. /\ NoLaterTicket' /\ book' \subseteq Positions /\ closed' \subseteq Positions
          /\ opened # NoPosition => Known(opened.ticket)'
      BY <1>1, <2>1, <2>3, <3>1, NewPosition
    <3>3. \A q \in flight' : q.kind # "OPEN"
      BY <2>1, <2>3 DEF Inv, GivenOnce
    <3>4. TypeOK'
      BY <1>1, <2>1, <3>2 DEF TypeOK, BrokerTypeOK, Inv
    <3>5. GivenOnce' /\ NothingLost'
      BY <1>1, <3>1, <3>2, <3>3 DEF GivenOnce, NothingLost
    <3>6. VerifiedCleanupIsReal'
      <4>1. SUFFICES ASSUME pc = "RETURNED", opened # NoPosition, cleanupVerified
                     PROVE  ~Holds(opened.ticket)'
        BY <1>1, <3>5 DEF VerifiedCleanupIsReal, NothingLost, Known
      <4>2. opened.ticket \in Nat /\ ~Holds(opened.ticket) /\ WasClosed(opened.ticket)
        BY <4>1 DEF Inv, TypeOK, Positions, VerifiedCleanupIsReal
      <4>3. opened.ticket # NewTicket
        BY <3>1, <4>2 DEF Known
      <4> QED BY <1>1, <2>1, <3>1, <4>2, <4>3, CarryOutKnown
    <3> QED BY <1>2, <3>2, <3>4, <3>5, <3>6 DEF Inv
  <2> QED BY <2>2, <2>3
<1> QED BY <1>4, <1>5, <1>6 DEF BrokerStep

LEMMA NextInv == Inv /\ [Next]_vars => Inv'
<1> SUFFICES ASSUME Inv, [Next]_vars PROVE Inv'
  OBVIOUS
<1>1. CASE Runner
  BY <1>1, OpenPositionStep, VerifyOpenStep, SetProtectiveLevelsStep, VerifyLevelsStep,
     TrailStopStep, VerifyTrailStep, FinishNothingStep, FinishLookStep, FinishCloseStep,
     FinishVerifyStep, LookRaisesStep DEF Runner
<1>2. CASE BrokerStep /\ UNCHANGED runVars
  BY <1>2, BrokerSteps
<1>3. CASE UNCHANGED vars
  BY <1>3 DEF vars, runVars, brokerVars, Inv, TypeOK, BrokerTypeOK, KnowsIts, GivenOnce,
     NothingLost, NoLaterTicket, VerifiedCleanupIsReal, Known, Holds, WasClosed
<1> QED BY <1>1, <1>2, <1>3 DEF Next

LEMMA Invariance == Spec => []Inv
  BY InitInv, NextInv, PTL DEF Spec

(* The run, its report and the account keep their types, so that no step   *)
(* looks into a position that is not there (preflight.py:214).             *)
THEOREM TypeCorrect == Spec => []TypeOK
<1>1. Inv => TypeOK
  BY DEF Inv
<1> QED BY <1>1, Invariance, PTL

(* A report that verifies the cleanup of a position the run has seen is    *)
(* about one that closed, and stays true of it (preflight.py:348).         *)
THEOREM CleanupIsReal == Spec => []VerifiedCleanupIsReal
<1>1. Inv => VerifiedCleanupIsReal
  BY DEF Inv
<1> QED BY <1>1, Invariance, PTL

-----------------------------------------------------------------------------
(* Whose the positions are, also on an account that has some of this EA's  *)
(* before: its tickets are known, and all a run asks for but the opening   *)
(* is under the ticket of the one position it took for its own.            *)

OwnTicket(ticket) == ticket = NewTicket \/ OwnBefore(ticket)

OwnersKnown == \A p \in book : p.own <=> OwnTicket(p.ticket)

ItsOwnOnly ==
  /\ OwnersKnown
  /\ \A r \in flight : r.kind # "OPEN" => opened # NoPosition /\ r.ticket = opened.ticket
  /\ opened # NoPosition => OwnTicket(opened.ticket)
  /\ seen # NoPosition => opened # NoPosition /\ seen.ticket = opened.ticket

LEMMA CarryOutOwn ==
  ASSUME BrokerTypeOK, NEW r \in Requests, r.kind = "OPEN" => r.ticket = NewTicket, CarryOut(r),
         OwnersKnown
  PROVE  /\ OwnersKnown'
         /\ OwnTicket(r.ticket) =>
              \A p \in (book \ book') \cup (book' \ book) : p.own /\ p.ticket = r.ticket
<1>1. CASE r.kind = "OPEN"
  BY <1>1 DEF CarryOut, BookAfter, OwnersKnown, OwnTicket
<1>2. CASE r.kind = "MODIFY"
  <2> DEFINE After(p) == IF p.ticket = r.ticket
                           THEN [p EXCEPT !.stop = r.stop, !.target = r.target] ELSE p
  <2>1. ASSUME NEW p \in book
        PROVE  /\ After(p).ticket = p.ticket /\ After(p).own = p.own
               /\ p.ticket # r.ticket => After(p) = p
    BY DEF BrokerTypeOK, Positions
  <2>2. book' = {After(p) : p \in book}
    BY <1>2 DEF CarryOut, BookAfter
  <2> HIDE DEF After
  <2>3. OwnersKnown'
    BY <2>1, <2>2 DEF OwnersKnown
  <2>4. ASSUME NEW p \in book, p \notin book' PROVE p.ticket = r.ticket
    <3>1. After(p) \in book'
      BY <2>2
    <3> QED BY <2>1, <2>4, <3>1
  <2>5. ASSUME NEW q \in book', q \notin book PROVE q.ticket = r.ticket
    BY <2>1, <2>2, <2>5
  <2> QED BY <2>3, <2>4, <2>5 DEF OwnersKnown
<1>3. CASE r.kind = "CLOSE"
  BY <1>3 DEF CarryOut, BookAfter, OwnersKnown
<1> QED BY <1>1, <1>2, <1>3 DEF Requests

(* What a step of the run asks the broker for: its position, or a change   *)
(* of the one it took for it.                                              *)
Asks(r) ==
  /\ r \in Requests
  /\ \E outcome : Send(r, outcome)
  /\ \/ r.kind = "OPEN" /\ r.ticket = NewTicket /\ opened = NoPosition
     \/ r.kind # "OPEN" /\ r.ticket = opened.ticket /\ opened # NoPosition
  /\ UNCHANGED <<opened, seen>>

Looks ==
  /\ UNCHANGED brokerVars
  /\ \/ UNCHANGED opened
     \/ opened = NoPosition /\ opened' = FindOpened /\ UNCHANGED seen
  /\ \/ UNCHANGED seen
     \/ opened # NoPosition /\ seen' = Refresh(opened.ticket) /\ UNCHANGED opened

LEMMA RunnerAsks ==
  ASSUME Inv, ItsOwnOnly, Runner
  PROVE  Looks \/ \E r : Asks(r)
<1> USE DEF Asks
<1>0. NewTicket \in Nat \ {0} /\ NoPosition \notin Positions
  BY PriorAssumption
<1>1. CASE OpenPosition
  <2>1. [kind |-> "OPEN", ticket |-> NewTicket, stop |-> NoStop, target |-> FALSE] \in Requests
    BY <1>0 DEF Requests, NoStop
  <2>2. opened = NoPosition
    BY <1>1 DEF OpenPosition, Inv, KnowsIts
  <2> QED BY <1>1, <2>1, <2>2 DEF OpenPosition, Calls
<1>2. CASE SetProtectiveLevels
  <2>1. opened \in Positions
    BY <1>2 DEF Inv, KnowsIts, SetProtectiveLevels, Steps
  <2>2. [kind |-> "MODIFY", ticket |-> opened.ticket, stop |-> FirstStop, target |-> TRUE]
          \in Requests
    BY <1>0, <2>1 DEF Requests, FirstStop, Positions
  <2> QED BY <1>0, <1>2, <2>1, <2>2 DEF SetProtectiveLevels, Modifies, Calls, Looks
<1>3. CASE TrailStop
  <2>1. seen \in Positions /\ seen.ticket = opened.ticket /\ opened # NoPosition
    BY <1>0, <1>3 DEF Inv, KnowsIts, TrailStop, Steps, ItsOwnOnly
  <2>2. [kind |-> "MODIFY", ticket |-> seen.ticket, stop |-> TrailedStop,
         target |-> seen.target] \in Requests
    BY <1>0, <2>1 DEF Requests, Positions, TrailedStop
  <2> QED BY <1>3, <2>1, <2>2 DEF TrailStop, Modifies, Calls, Looks
<1>4. CASE FinishClose
  <2>1. seen \in Positions /\ seen.ticket = opened.ticket /\ opened # NoPosition
    BY <1>0, <1>4 DEF Inv, KnowsIts, FinishClose, Steps, ItsOwnOnly
  <2>2. [kind |-> "CLOSE", ticket |-> seen.ticket, stop |-> seen.stop,
         target |-> seen.target] \in Requests
    BY <1>0, <2>1 DEF Requests, Positions
  <2> QED BY <1>4, <2>1, <2>2 DEF FinishClose
<1>5. CASE VerifyOpen \/ VerifyLevels \/ VerifyTrail \/ FinishNothing \/ FinishLook
           \/ FinishVerify \/ LookRaises
  BY <1>0, <1>5 DEF VerifyOpen, VerifyLevels, VerifyTrail, FinishNothing,
     FinishLook, FinishVerify, LookRaises, Inv, KnowsIts, Steps, Looks
<1> QED BY <1>1, <1>2, <1>3, <1>4, <1>5 DEF Runner

ItsTicket == IF opened = NoPosition THEN NewTicket ELSE opened.ticket

(* A step of the run leaves every position but that one alone.             *)
LEMMA AskedOnlyOwn ==
  ASSUME Inv, ItsOwnOnly, Runner
  PROVE  /\ ItsOwnOnly'
         /\ \A p \in (book \ book') \cup (book' \ book) : p.own /\ p.ticket = ItsTicket
<1>1. BrokerTypeOK
  BY DEF Inv, TypeOK
<1>2. CASE Looks
  <2>1. UNCHANGED <<book, flight>>
    BY <1>2 DEF Looks, brokerVars
  <2>2. OwnersKnown'
    BY <2>1 DEF ItsOwnOnly, OwnersKnown
  <2>3. CASE UNCHANGED opened
    <3>1. seen' # NoPosition => opened # NoPosition /\ seen'.ticket = opened.ticket
      BY <1>1, <1>2, RefreshFacts DEF Looks, ItsOwnOnly
    <3> QED BY <2>1, <2>2, <2>3, <3>1 DEF ItsOwnOnly
  <2>4. CASE opened = NoPosition /\ opened' = FindOpened /\ UNCHANGED seen
    <3>1. seen' = NoPosition /\ \A r \in flight : r.kind = "OPEN"
      BY <2>4 DEF ItsOwnOnly
    <3>2. opened' # NoPosition => OwnTicket(opened'.ticket)
      BY <2>4, FindOpenedFacts DEF ItsOwnOnly, OwnersKnown
    <3> QED BY <2>1, <2>2, <3>1, <3>2 DEF ItsOwnOnly
  <2> QED BY <1>2, <2>1, <2>3, <2>4 DEF Looks
<1>3. CASE \E r : Asks(r)
  <2>1. PICK r : Asks(r)
    BY <1>3
  <2>2. PICK outcome : Send(r, outcome)
    BY <2>1 DEF Asks
  <2>3. /\ r \in Requests /\ (r.kind = "OPEN" => r.ticket = NewTicket)
        /\ r.ticket = ItsTicket /\ OwnTicket(r.ticket) /\ UNCHANGED <<opened, seen>>
        /\ r.kind # "OPEN" => opened # NoPosition /\ r.ticket = opened.ticket
    BY <2>1 DEF Asks, ItsTicket, OwnTicket, ItsOwnOnly
  <2>4. CASE CarryOut(r) /\ UNCHANGED flight
    BY <1>1, <2>3, <2>4, CarryOutOwn DEF ItsOwnOnly
  <2>5. CASE flight' \subseteq flight \cup {r} /\ UNCHANGED <<book, closed>>
    BY <2>3, <2>5 DEF ItsOwnOnly, OwnersKnown
  <2> QED BY <2>2, <2>4, <2>5, SendCases
<1> QED BY <1>2, <1>3, RunnerAsks

LEMMA NextItsOwn == Inv /\ ItsOwnOnly /\ [Next]_vars => ItsOwnOnly'
<1> SUFFICES ASSUME Inv, ItsOwnOnly, [Next]_vars PROVE ItsOwnOnly'
  OBVIOUS
<1>1. CASE Runner
  BY <1>1, AskedOnlyOwn
<1>2. CASE BrokerStep /\ UNCHANGED runVars
  <2>1. BrokerTypeOK /\ UNCHANGED <<opened, seen>>
    BY <1>2 DEF Inv, TypeOK, runVars
  <2>2. ASSUME NEW r \in flight, Deliver(r) PROVE OwnersKnown' /\ flight' \subseteq flight
    <3>1. r \in Requests /\ (r.kind = "OPEN" => r.ticket = NewTicket) /\ CarryOut(r)
      BY <2>1, <2>2 DEF Deliver, BrokerTypeOK, Inv, GivenOnce
    <3> QED BY <2>1, <2>2, <3>1, CarryOutOwn DEF ItsOwnOnly, Deliver
  <2>3. ASSUME NEW r \in flight, Lose(r) PROVE book' = book /\ flight' \subseteq flight
    BY <2>3 DEF Lose
  <2>4. ASSUME NEW p \in book, Vanish(p) PROVE book' \subseteq book /\ flight' = flight
    BY <2>4 DEF Vanish
  <2>5. OwnersKnown' /\ flight' \subseteq flight
    BY <1>2, <2>2, <2>3, <2>4 DEF BrokerStep, ItsOwnOnly, OwnersKnown
  <2> QED BY <2>1, <2>5 DEF ItsOwnOnly
<1>3. CASE UNCHANGED vars
  BY <1>3 DEF vars, runVars, brokerVars, ItsOwnOnly, OwnersKnown
<1> QED BY <1>1, <1>2, <1>3 DEF Next

LEMMA InitItsOwn == Init => ItsOwnOnly
<1>1. ASSUME NEW p \in Prior PROVE p.own <=> OwnTicket(p.ticket)
  BY PriorAssumption DEF OwnTicket, OwnBefore, Positions
<1> QED BY <1>1 DEF Init, ItsOwnOnly, OwnersKnown

(* Whatever the account holds before, whatever the broker answers or       *)
(* delays: no step of the preflight touches a position of the user's, and  *)
(* of this EA's only the one it opens or took for that one                 *)
(* (preflight.py:247, :391).                                               *)
THEOREM LeavesOthersAlone == Spec => TouchesOnlyItsOwn
<1> DEFINE Touches ==
      Runner => \A p \in (book \ book') \cup (book' \ book) :
                  /\ p.own
                  /\ p.ticket = IF opened = NoPosition THEN NewTicket ELSE opened.ticket
<1>1. Inv /\ ItsOwnOnly /\ [Next]_vars => [Touches]_vars
  BY AskedOnlyOwn DEF ItsTicket
<1> QED BY <1>1, InitItsOwn, NextItsOwn, Invariance, PTL DEF Spec, TouchesOnlyItsOwn

-----------------------------------------------------------------------------
(***************************************************************************)
(* The closeout and the reconciliation.                                    *)
(*                                                                         *)
(* While a job runs, every position it still has to answer for is left to  *)
(* close, its order is left to cancel, or a result already names it        *)
(* (Owed); for that the tickets of positions and orders must never meet    *)
(* (Apart), and no order to open may be sent after the plan (JobGoesOn).   *)
(***************************************************************************)
Ended == pc \in {"RETURNED", "ESCAPED"}

\* Positions and pending orders have tickets of their own, and this EA's are known.
Apart ==
  /\ orders \subseteq Pending
  /\ \A p \in book : p.ticket \notin orders
  /\ OwnersKnown
  /\ \A r \in flight : r.kind = "OPEN" => r.ticket = NewTicket

ToClose(ticket) == \E p \in toClose : p.ticket = ticket

Owed(ticket) == ToClose(ticket) \/ ticket \in toCancel \/ Named(ticket)

JobGoesOn ==
  /\ at \in {"IDLE", "SENDING", "RETURNED", "RAISED"}
  /\ toClose \subseteq Positions
  /\ toCancel \subseteq Pending
  /\ at # "IDLE" => pc = "ESCAPED"
  /\ at # "IDLE" /\ ~opening => \A r \in flight : r.kind # "OPEN"
  /\ at = "RETURNED" => toClose = {} /\ toCancel = {}
  /\ at = "IDLE" => job = "NONE" /\ results = {}

Answered ==
  /\ job = "CLOSEOUT" /\ at # "RAISED" =>
       /\ \A p \in book : Owed(p.ticket) \/ (opening /\ p.ticket = NewTicket)
       /\ \A o \in orders : o \in toCancel \/ Named(o)
  /\ job = "RECONCILE" =>
       /\ at # "RAISED" =>
            \A p \in book : p.own \/ p.ticket \in Pending \/ ToClose(p.ticket) \/ Named(p.ticket)
       /\ \A p \in toClose : ~OwnTicket(p.ticket)
       /\ \A r \in results : ~OwnTicket(r.ticket)
       /\ toCancel = {}

CInv ==
  /\ ~Ended => Inv
  /\ BrokerTypeOK
  /\ Apart
  /\ JobGoesOn
  /\ Answered

-----------------------------------------------------------------------------
(* No position but those of before.                                        *)
NoneNew == \A p \in book' : \E q \in book : q.ticket = p.ticket /\ q.own = p.own

\* Or the preflight's own, when its order to open is carried out.
OnlyItsNew ==
  \A p \in book' : \/ \E q \in book : q.ticket = p.ticket /\ q.own = p.own
                   \/ p.ticket = NewTicket /\ p.own

LEMMA QuietBook == book' = book => NoneNew
  BY DEF NoneNew

LEMMA CarryOutBook ==
  ASSUME BrokerTypeOK, NEW r \in Requests, CarryOut(r)
  PROVE  /\ r.kind # "OPEN" => NoneNew
         /\ r.kind = "OPEN" /\ r.ticket = NewTicket => OnlyItsNew
         /\ r.kind = "CLOSE" => \A p \in book' : p.ticket # r.ticket
<1>1. CASE r.kind = "OPEN"
  <2>1. book' = book \cup {[ticket |-> r.ticket, own |-> TRUE, stop |-> r.stop,
                            target |-> r.target]}
    BY <1>1 DEF CarryOut, BookAfter
  <2> QED BY <1>1, <2>1 DEF OnlyItsNew
<1>2. CASE r.kind = "MODIFY"
  <2> DEFINE After(p) == IF p.ticket = r.ticket
                           THEN [p EXCEPT !.stop = r.stop, !.target = r.target] ELSE p
  <2>1. book' = {After(p) : p \in book}
    BY <1>2 DEF CarryOut, BookAfter
  <2>2. ASSUME NEW p \in book PROVE After(p).ticket = p.ticket /\ After(p).own = p.own
    BY DEF BrokerTypeOK, Positions
  <2> HIDE DEF After
  <2> QED BY <1>2, <2>1, <2>2 DEF NoneNew
<1>3. CASE r.kind = "CLOSE"
  BY <1>3 DEF CarryOut, BookAfter, NoneNew
<1> QED BY <1>1, <1>2, <1>3 DEF Requests

LEMMA SendBook ==
  ASSUME BrokerTypeOK, NEW r \in Requests, NEW outcome, Send(r, outcome),
         r.kind = "OPEN" => r.ticket = NewTicket
  PROVE  /\ BrokerTypeOK'
         /\ flight' \subseteq flight \cup {r}
         /\ r.kind # "OPEN" => NoneNew
         /\ OnlyItsNew
<1>1. CASE CarryOut(r) /\ UNCHANGED flight
  <2>1. NoneNew => OnlyItsNew
    BY DEF NoneNew, OnlyItsNew
  <2> QED BY <1>1, <2>1, CarryOutBook, CarryOutType DEF BrokerTypeOK
<1>2. CASE UNCHANGED <<book, closed>> /\ flight' \subseteq flight \cup {r}
  BY <1>2 DEF BrokerTypeOK, NoneNew, OnlyItsNew
<1> QED BY <1>1, <1>2, SendCases

-----------------------------------------------------------------------------
(* What the preflight's own steps send.                                    *)

LEMMA RunnerSends ==
  ASSUME Inv, Runner
  PROVE  \/ UNCHANGED brokerVars
         \/ \E r \in Requests, outcome \in Outcomes :
              Send(r, outcome) /\ (r.kind = "OPEN" => r.ticket = NewTicket)
<1>1. CASE OpenPosition
  <2> DEFINE request == [kind |-> "OPEN", ticket |-> NewTicket, stop |-> NoStop,
                         target |-> FALSE]
  <2>1. request \in Requests /\ request.ticket = NewTicket
    BY PriorAssumption DEF Requests, NoStop
  <2>2. Calls("OPEN_POSITION", request, "VERIFY_OPEN")
    BY <1>1 DEF OpenPosition
  <2> HIDE DEF request
  <2> QED BY <2>1, <2>2 DEF Calls
<1>2. CASE SetProtectiveLevels
  <2> DEFINE request == [kind |-> "MODIFY", ticket |-> opened.ticket, stop |-> FirstStop,
                         target |-> TRUE]
  <2>1. opened \in Positions
    BY <1>2 DEF Inv, KnowsIts, SetProtectiveLevels, Steps
  <2>2. request \in Requests /\ request.kind # "OPEN"
    BY <2>1 DEF Requests, Positions, FirstStop
  <2>3. UNCHANGED brokerVars \/ Calls("SET_PROTECTIVE_LEVELS", request, "VERIFY_LEVELS")
    BY <1>2 DEF SetProtectiveLevels, Modifies
  <2> HIDE DEF request
  <2> QED BY <2>2, <2>3 DEF Calls
<1>3. CASE TrailStop
  <2> DEFINE request == [kind |-> "MODIFY", ticket |-> seen.ticket, stop |-> TrailedStop,
                         target |-> seen.target]
  <2>1. seen \in Positions
    BY <1>3 DEF Inv, KnowsIts, TrailStop, Steps
  <2>2. request \in Requests /\ request.kind # "OPEN"
    BY <2>1 DEF Requests, Positions, TrailedStop
  <2>3. UNCHANGED brokerVars \/ Calls("TRAIL_STOP", request, "VERIFY_TRAIL")
    BY <1>3 DEF TrailStop, Modifies
  <2> HIDE DEF request
  <2> QED BY <2>2, <2>3 DEF Calls
<1>4. CASE FinishClose
  <2> DEFINE request == [kind |-> "CLOSE", ticket |-> seen.ticket, stop |-> seen.stop,
                         target |-> seen.target]
  <2>1. seen \in Positions
    BY <1>4 DEF Inv, KnowsIts, FinishClose, Steps
  <2>2. request \in Requests /\ request.kind # "OPEN"
    BY <2>1 DEF Requests, Positions
  <2>3. \E outcome \in Outcomes : Send(request, outcome)
    BY <1>4 DEF FinishClose
  <2> HIDE DEF request
  <2> QED BY <2>2, <2>3
<1>5. CASE VerifyOpen \/ VerifyLevels \/ VerifyTrail \/ FinishNothing \/ FinishLook
             \/ FinishVerify \/ LookRaises
  BY <1>5 DEF VerifyOpen, VerifyLevels, VerifyTrail, FinishNothing, FinishLook, FinishVerify,
     LookRaises
<1> QED BY <1>1, <1>2, <1>3, <1>4, <1>5 DEF Runner

LEMMA EndedStays == Ended => ~Runner
  BY DEF Ended, Runner, OpenPosition, VerifyOpen, SetProtectiveLevels, VerifyLevels, TrailStop,
     VerifyTrail, FinishNothing, FinishLook, FinishClose, FinishVerify, LookRaises

-----------------------------------------------------------------------------
(* What happens at the broker meanwhile.                                   *)

LEMMA BrokerBook ==
  ASSUME BrokerTypeOK, Apart, BrokerStep
  PROVE  /\ BrokerTypeOK'
         /\ flight' \subseteq flight
         /\ OnlyItsNew
         /\ (\A r \in flight : r.kind # "OPEN") => NoneNew
<1>1. NoneNew => OnlyItsNew
  BY DEF NoneNew, OnlyItsNew
<1>2. ASSUME NEW r \in flight, Deliver(r)
      PROVE  /\ BrokerTypeOK' /\ flight' \subseteq flight /\ OnlyItsNew
             /\ r.kind # "OPEN" => NoneNew
  <2>1. r \in Requests /\ CarryOut(r) /\ flight' = flight \ {r}
    BY <1>2 DEF Deliver, BrokerTypeOK
  <2>2. r.kind = "OPEN" => r.ticket = NewTicket
    BY DEF Apart
  <2> QED BY <1>1, <2>1, <2>2, CarryOutBook, CarryOutType DEF BrokerTypeOK
<1>3. ASSUME NEW r \in flight, Lose(r)
      PROVE  BrokerTypeOK' /\ flight' \subseteq flight /\ NoneNew
  BY <1>3 DEF Lose, BrokerTypeOK, NoneNew
<1>4. ASSUME NEW p \in book, Vanish(p)
      PROVE  BrokerTypeOK' /\ flight' \subseteq flight /\ NoneNew
  BY <1>4 DEF Vanish, BrokerTypeOK, NoneNew
<1> QED BY <1>1, <1>2, <1>3, <1>4 DEF BrokerStep

LEMMA ApartStays ==
  ASSUME Apart, OnlyItsNew, UNCHANGED orderVars,
         \A r \in flight' : r.kind = "OPEN" => r.ticket = NewTicket
  PROVE  Apart'
<1>1. NewTicket \notin Pending
  BY PendingAssumption
<1>2. OwnersKnown'
  BY DEF Apart, OwnersKnown, OwnTicket, OnlyItsNew
<1> QED BY <1>1, <1>2 DEF Apart, OnlyItsNew, orderVars

(* The preflight runs, or ends; no job has begun.                          *)
LEMMA PreflightSteps ==
  ASSUME CInv, ~Ended, Next, UNCHANGED <<orderVars, jobVars>>
  PROVE  CInv'
<1>1. Inv /\ Inv'
  BY NextInv DEF CInv
<1>2. BrokerTypeOK /\ BrokerTypeOK' /\ \A r \in flight' : r.kind = "OPEN" => r.ticket = NewTicket
  BY <1>1 DEF Inv, TypeOK, GivenOnce
<1>3. OnlyItsNew
  <2>1. CASE UNCHANGED brokerVars
    BY <2>1 DEF brokerVars, OnlyItsNew
  <2>2. CASE BrokerStep
    BY <2>2, BrokerBook DEF CInv
  <2>3. CASE Runner
    BY <1>1, <1>2, <2>1, <2>3, RunnerSends, SendBook
  <2> QED BY <2>2, <2>3 DEF Next
<1>4. Apart'
  BY <1>2, <1>3, ApartStays DEF CInv
<1>5. at = "IDLE" /\ job = "NONE"
  BY DEF CInv, JobGoesOn, Ended
<1>6. JobGoesOn' /\ Answered'
  BY <1>5 DEF CInv, JobGoesOn, Answered, jobVars
<1> QED BY <1>1, <1>2, <1>4, <1>6 DEF CInv

(* What a job has to answer for does not grow, but for a late opening.     *)
LEMMA AnsweredStays ==
  ASSUME Answered, UNCHANGED <<orderVars, jobVars>>, OnlyItsNew,
         job # "NONE" => opening \/ NoneNew
  PROVE  Answered'
<1> USE DEF Answered, Owed, ToClose, Named, jobVars, orderVars
<1>1. CASE job = "NONE"
  BY <1>1
<1>2. CASE NoneNew
  BY <1>2 DEF NoneNew
<1>3. CASE opening
  BY <1>3 DEF OnlyItsNew
<1> QED BY <1>1, <1>2, <1>3

LEMMA EndedSteps ==
  ASSUME CInv, Ended, Next, UNCHANGED <<orderVars, jobVars>>
  PROVE  CInv'
<1>1. BrokerStep /\ UNCHANGED <<pc, orders, cancelling, job, at, toClose, toCancel, results, opening>>
  BY EndedStays DEF Next, runVars, orderVars, jobVars
<1>2. /\ BrokerTypeOK' /\ flight' \subseteq flight /\ OnlyItsNew
      /\ (\A r \in flight : r.kind # "OPEN") => NoneNew
  BY <1>1, BrokerBook DEF CInv
<1>3. Apart'
  BY <1>2, ApartStays DEF CInv, Apart
<1>4. JobGoesOn'
  BY <1>1, <1>2 DEF CInv, JobGoesOn
<1>5. job # "NONE" => opening \/ NoneNew
  BY <1>2 DEF CInv, JobGoesOn
<1>6. Answered'
  BY <1>2, <1>5, AnsweredStays DEF CInv
<1>7. Ended'
  BY <1>1 DEF Ended
<1> QED BY <1>2, <1>3, <1>4, <1>6, <1>7 DEF CInv

-----------------------------------------------------------------------------
(* The pending orders.                                                     *)

LEMMA OrderSteps == CInv /\ OrderStep => CInv'
<1> SUFFICES ASSUME CInv, OrderStep PROVE CInv'
  OBVIOUS
<1>1. /\ Ended /\ Ended'
      /\ UNCHANGED <<pc, job, at, toClose, toCancel, results, opening>>
  BY DEF OrderStep, runVars, jobVars, Ended
<1>2. PICK o \in orders : Trigger(o) \/ Removed(o)
  BY DEF OrderStep
<1>3. o \in Pending /\ o \in Nat \ {0} /\ ~OwnTicket(o)
  BY PendingAssumption DEF CInv, Apart, OwnTicket, OwnBefore
<1>4. CASE Removed(o)
  <2>1. orders' \subseteq orders /\ UNCHANGED <<book, closed, flight>>
    BY <1>4 DEF Removed, brokerVars
  <2>2. BrokerTypeOK' /\ Apart' /\ JobGoesOn'
    BY <1>1, <2>1 DEF CInv, BrokerTypeOK, Apart, OwnersKnown, JobGoesOn
  <2>3. Answered'
    BY <1>1, <2>1 DEF CInv, Answered, Owed, ToClose, Named
  <2> QED BY <1>1, <2>2, <2>3 DEF CInv
<1>5. CASE Trigger(o)
  <2> DEFINE new == [ticket |-> o, own |-> FALSE, stop |-> FirstStop, target |-> TRUE]
  <2>1. new \in Positions /\ new.ticket = o /\ ~new.own
    BY <1>3 DEF Positions, FirstStop
  <2>2. book' = book \cup {new} /\ orders' = orders \ {o} /\ UNCHANGED <<closed, flight>>
    BY <1>5 DEF Trigger
  <2> HIDE DEF new
  <2>3. BrokerTypeOK'
    BY <2>1, <2>2 DEF CInv, BrokerTypeOK
  <2>4. Apart' /\ JobGoesOn'
    BY <1>1, <1>3, <2>1, <2>2 DEF CInv, Apart, OwnersKnown, OwnTicket, JobGoesOn
  <2>5. Answered'
    <3>1. job = "CLOSEOUT" /\ at # "RAISED" => Owed(o)
      BY DEF CInv, Answered, Owed
    <3> QED BY <1>1, <1>3, <2>1, <2>2, <3>1 DEF CInv, Answered, Owed, ToClose, Named
  <2> QED BY <1>1, <2>3, <2>4, <2>5 DEF CInv
<1> QED BY <1>2, <1>4, <1>5

-----------------------------------------------------------------------------
(* The jobs.                                                               *)

LEMMA StartJobStep == CInv /\ StartJob => CInv'
<1> SUFFICES ASSUME CInv, StartJob PROVE CInv'
  OBVIOUS
<1>1. /\ pc' = "ESCAPED" /\ closed' = {} /\ opening' = (\E r \in flight : r.kind = "OPEN")
      /\ UNCHANGED <<results, book, flight, orders, cancelling>>
  BY DEF StartJob, Forgotten, orderVars
<1>2. Ended' /\ BrokerTypeOK' /\ Apart'
  BY <1>1 DEF CInv, Ended, BrokerTypeOK, Apart, OwnersKnown
<1>3. ASSUME NEW status \in Verdicts, PlanBreachCloseout(status) PROVE JobGoesOn' /\ Answered'
  <2>1. JobGoesOn'
    BY <1>1, <1>3 DEF PlanBreachCloseout, CInv, JobGoesOn, BrokerTypeOK, Apart
  <2>2. Answered'
    BY <1>1, <1>3
       DEF PlanBreachCloseout, Triggers, Answered, Owed, ToClose, Named
  <2> QED BY <2>1, <2>2
<1>4. ASSUME Reconcile PROVE JobGoesOn' /\ Answered'
  <2>1. JobGoesOn'
    BY <1>1, <1>4 DEF Reconcile, Unrecognized, CInv, JobGoesOn, BrokerTypeOK, Apart
  <2>2. results' = {}
    BY <1>1 DEF StartJob, CInv, JobGoesOn
  <2>3. \A p \in book : ~p.own => ~OwnTicket(p.ticket)
    BY DEF CInv, Apart, OwnersKnown
  <2>4. Answered'
    BY <1>1, <1>4, <2>2, <2>3 DEF Reconcile, Unrecognized, Answered, ToClose, Named
  <2> QED BY <2>1, <2>4
<1> QED BY <1>2, <1>3, <1>4 DEF StartJob, CInv

LEMMA ClosePositionStep == ASSUME CInv, NEW p \in toClose, ClosePosition(p) PROVE CInv'
<1> DEFINE request == CloseRequest(p)
<1>1. p \in Positions /\ pc = "ESCAPED" /\ BrokerTypeOK
  BY DEF CInv, JobGoesOn, ClosePosition
<1>2. request \in Requests /\ request.kind = "CLOSE" /\ request.ticket = p.ticket
  BY <1>1 DEF CloseRequest, Requests, Positions
<1>3. PICK outcome \in Outcomes :
        /\ Send(request, outcome)
        /\ Answer(p.ticket, outcome)
  BY DEF ClosePosition
<1>4. /\ at = "SENDING" /\ toClose' = toClose \ {p}
      /\ UNCHANGED <<job, toCancel, opening, orders, cancelling, pc>>
  BY DEF ClosePosition, orderVars, runVars
<1> HIDE DEF request
<1>5. BrokerTypeOK' /\ flight' \subseteq flight \cup {request} /\ NoneNew /\ OnlyItsNew
  BY <1>1, <1>2, <1>3, SendBook
<1>6. Ended' /\ Apart'
  BY <1>1, <1>2, <1>4, <1>5, ApartStays DEF CInv, Apart, Ended, orderVars
<1>7. /\ outcome = "raised" => at' = "RAISED" /\ results' = results
      /\ outcome # "raised" =>
           /\ at' = at
           /\ results' = results \cup {[ticket |-> p.ticket, retcode |-> outcome]}
  BY <1>3 DEF Answer
<1>8. JobGoesOn'
  BY <1>1, <1>2, <1>4, <1>5, <1>7 DEF CInv, JobGoesOn
<1>9. ASSUME at' # "RAISED", NEW q \in book', q.ticket = p.ticket
      PROVE  Named(q.ticket)'
  <2>1. CASE outcome \in Retcodes \ {"done"}
    <3>1. [ticket |-> p.ticket, retcode |-> outcome] \in results'
      BY <1>7, <1>9
    <3> QED BY <1>9, <2>1, <3>1 DEF Named
  <2>2. CASE outcome = "done"
    <3>1. CarryOut(request)
      BY <1>3, <2>2 DEF Send
    <3> QED BY <1>1, <1>2, <1>9, <3>1, CarryOutBook
  <2> QED BY <1>7, <1>9, <2>1, <2>2 DEF Outcomes
<1>10. ASSUME NEW ticket, Named(ticket) PROVE Named(ticket)'
  BY <1>7, <1>10 DEF Named
<1>11. ASSUME NEW ticket, ToClose(ticket), ticket # p.ticket PROVE ToClose(ticket)'
  BY <1>4, <1>11 DEF ToClose
<1>12. ASSUME job = "CLOSEOUT", at' # "RAISED"
       PROVE  /\ \A q \in book' : Owed(q.ticket)' \/ (opening' /\ q.ticket = NewTicket)
              /\ \A o \in orders' : o \in toCancel' \/ Named(o)'
  <2>1. ASSUME NEW q \in book' PROVE Owed(q.ticket)' \/ (opening' /\ q.ticket = NewTicket)
    <3>1. PICK r \in book : r.ticket = q.ticket
      BY <1>5 DEF NoneNew
    <3>2. Owed(r.ticket) \/ (opening /\ r.ticket = NewTicket)
      BY <1>4, <1>7, <1>12 DEF CInv, Answered
    <3> QED BY <1>4, <1>9, <1>10, <1>11, <1>12, <3>1, <3>2 DEF Owed
  <2>2. ASSUME NEW o \in orders PROVE o \in toCancel \/ Named(o)
    BY <1>4, <1>12 DEF CInv, Answered
  <2> QED BY <1>4, <1>10, <2>1, <2>2
<1>13. ASSUME job = "RECONCILE"
       PROVE  /\ \A q \in toClose' : ~OwnTicket(q.ticket)
              /\ \A r \in results' : ~OwnTicket(r.ticket)
              /\ toCancel' = {}
  <2>1. ~OwnTicket(p.ticket) /\ toCancel = {}
    BY <1>13 DEF CInv, Answered
  <2> QED BY <1>4, <1>7, <1>13, <2>1 DEF CInv, Answered
<1>14. ASSUME job = "RECONCILE", at' # "RAISED", NEW q \in book'
       PROVE  q.own \/ q.ticket \in Pending \/ ToClose(q.ticket)' \/ Named(q.ticket)'
  <2>1. PICK r \in book : r.ticket = q.ticket /\ r.own = q.own
    BY <1>5 DEF NoneNew
  <2>2. r.own \/ r.ticket \in Pending \/ ToClose(r.ticket) \/ Named(r.ticket)
    BY <1>4, <1>7, <1>14 DEF CInv, Answered
  <2> QED BY <1>9, <1>10, <1>11, <1>14, <2>1, <2>2
<1>15. Answered'
  BY <1>4, <1>12, <1>13, <1>14 DEF Answered
<1> QED BY <1>5, <1>6, <1>8, <1>15 DEF CInv

LEMMA CancelOrderStep == ASSUME CInv, NEW o \in toCancel, CancelOrder(o) PROVE CInv'
<1>1. PICK outcome \in Outcomes :
        /\ SendCancel(o, outcome)
        /\ Answer(o, outcome)
  BY DEF CancelOrder
<1>2. /\ at = "SENDING" /\ toClose = {} /\ toCancel' = toCancel \ {o}
      /\ UNCHANGED <<job, toClose, opening, pc, book, closed, flight>>
  BY DEF CancelOrder, vars, runVars, brokerVars
<1>3. /\ outcome = "raised" => at' = "RAISED" /\ results' = results
      /\ outcome # "raised" =>
           /\ at' = at
           /\ results' = results \cup {[ticket |-> o, retcode |-> outcome]}
  BY <1>1 DEF Answer
<1>4. orders' \subseteq orders
  BY <1>1 DEF SendCancel, orderVars
<1>5. Ended' /\ BrokerTypeOK' /\ Apart'
  BY <1>2, <1>4 DEF CInv, JobGoesOn, Ended, BrokerTypeOK, Apart, OwnersKnown
<1>6. JobGoesOn'
  BY <1>2, <1>3 DEF CInv, JobGoesOn
<1>7. ASSUME NEW ticket, Named(ticket) PROVE Named(ticket)'
  BY <1>3, <1>7 DEF Named
<1>8. job # "RECONCILE"
  BY DEF CInv, Answered
<1>9. ASSUME at' # "RAISED" PROVE o \notin orders' \/ Named(o)'
  <2>1. CASE outcome \in Retcodes \ {"done"}
    <3>1. [ticket |-> o, retcode |-> outcome] \in results'
      BY <1>3, <1>9
    <3> QED BY <2>1, <3>1 DEF Named
  <2>2. CASE outcome = "done"
    BY <1>1, <2>2 DEF SendCancel
  <2> QED BY <1>3, <1>9, <2>1, <2>2 DEF Outcomes
<1>10. ASSUME at' # "RAISED", NEW p \in book, p.ticket = o PROVE Named(o)'
  <2>1. o \notin orders
    BY <1>10 DEF CInv, Apart
  <2>2. outcome = "rejected"
    BY <1>1, <1>3, <1>10, <2>1 DEF SendCancel
  <2>3. [ticket |-> o, retcode |-> "rejected"] \in results'
    BY <1>3, <2>2
  <2> QED BY <2>3 DEF Named
<1>11. Answered'
  BY <1>2, <1>3, <1>4, <1>7, <1>8, <1>9, <1>10 DEF CInv, Answered, Owed, ToClose
<1> QED BY <1>5, <1>6, <1>11 DEF CInv

LEMMA JobReturnsStep == CInv /\ JobReturns => CInv'
<1> SUFFICES ASSUME CInv, JobReturns PROVE CInv'
  OBVIOUS
<1>1. /\ at = "SENDING" /\ at' = "RETURNED" /\ toClose = {} /\ toCancel = {}
      /\ UNCHANGED <<job, toClose, toCancel, results, opening, pc, book, closed, flight,
                     orders, cancelling>>
  BY DEF JobReturns, vars, runVars, brokerVars, orderVars
<1>2. Ended' /\ BrokerTypeOK' /\ Apart'
  BY <1>1 DEF CInv, JobGoesOn, Ended, BrokerTypeOK, Apart, OwnersKnown
<1>3. JobGoesOn'
  BY <1>1 DEF CInv, JobGoesOn
<1>4. Answered'
  BY <1>1 DEF CInv, Answered, Owed, ToClose, Named
<1> QED BY <1>2, <1>3, <1>4 DEF CInv

-----------------------------------------------------------------------------
LEMMA CloseoutInitInv == CloseoutInit => CInv
<1> SUFFICES ASSUME CloseoutInit PROVE CInv
  OBVIOUS
<1>1. Init /\ Inv
  BY InitInv DEF CloseoutInit
<1>2. Apart
  <2>1. \A p \in Prior : p.ticket \notin Pending
    BY PendingAssumption
  <2>2. OwnersKnown
    BY <1>1, InitItsOwn DEF ItsOwnOnly
  <2> QED BY <1>1, <2>1, <2>2 DEF CloseoutInit, Init, Apart
<1>3. JobGoesOn /\ Answered
  BY DEF CloseoutInit, JobGoesOn, Answered
<1> QED BY <1>1, <1>2, <1>3 DEF CInv, Inv, TypeOK

LEMMA CloseoutNextInv == CInv /\ [CloseoutNext]_allVars => CInv'
<1> SUFFICES ASSUME CInv, [CloseoutNext]_allVars PROVE CInv'
  OBVIOUS
<1>1. CASE Next /\ UNCHANGED <<orderVars, jobVars>>
  BY <1>1, PreflightSteps, EndedSteps
<1>2. CASE Job
  BY <1>2, ClosePositionStep, CancelOrderStep, JobReturnsStep DEF Job
<1>3. CASE UNCHANGED allVars
  <2>1. /\ UNCHANGED vars
        /\ UNCHANGED <<pc, book, closed, flight, orders, cancelling, job, at, toClose, toCancel,
                       results, opening>>
    BY <1>3 DEF allVars, vars, runVars, brokerVars, orderVars, jobVars
  <2>2. Inv => Inv'
    BY <2>1, NextInv
  <2> QED BY <2>1, <2>2 DEF CInv, Ended, BrokerTypeOK, Apart, OwnersKnown, JobGoesOn, Answered,
       Owed, ToClose, Named
<1> QED BY <1>1, <1>2, <1>3, StartJobStep, OrderSteps DEF CloseoutNext

LEMMA CloseoutInvariance == CloseoutSpec => []CInv
  BY CloseoutInitInv, CloseoutNextInv, PTL DEF CloseoutSpec

(* What a closeout or a reconciliation returns names every position it has *)
(* left open, refused, filled in part or only placed, for any account it   *)
(* is run on (compliance_closeout.py:109, reconciliation.py:98).           *)
THEOREM ResultsNameWhatIsLeft == CloseoutSpec => []ResultsNameTheRiskLeft
<1>1. CInv => ResultsNameTheRiskLeft
  BY DEF CInv, JobGoesOn, Answered, Owed, ToClose, OwnTicket, ResultsNameTheRiskLeft
<1> QED BY <1>1, CloseoutInvariance, PTL

-----------------------------------------------------------------------------
(***************************************************************************)
(* The reports of all three.  What is new here is that a preflight which   *)
(* passed on the position it opened had both levels on it.  No step looks  *)
(* at the target after the trail, so this rests on what can still be in    *)
(* flight: while every step so far is ok, a look that shows a level also   *)
(* shows that the request which set it is carried out, and only then is    *)
(* the next one sent (Levels).                                             *)
(***************************************************************************)
Its(p) == p.ticket = NewTicket

NoneModifies == \A r \in flight : r.kind # "MODIFY"

\* The only changes in flight set both levels, the stop to this one.
OnlySet(stop) ==
  \A r \in flight : r.kind = "MODIFY" => Its(r) /\ r.stop = stop /\ r.target

Protected(p) == Its(p) /\ p.stop = TrailedStop /\ p.target

\* Every step so far answered "ok", and was about the run's own position.
AllWell == AllOk /\ (opened # NoPosition => opened.ticket = NewTicket)

Levels ==
  /\ \A r \in flight : r.kind = "OPEN" => r.stop = NoStop
  /\ pc \in {"OPEN_POSITION", "VERIFY_OPEN", "SET_PROTECTIVE_LEVELS"} =>
       NoneModifies /\ \A p \in book : Its(p) => p.stop = NoStop
  /\ pc = "VERIFY_LEVELS" /\ AllWell =>
       /\ OnlySet(FirstStop)
       /\ \A p \in book : Its(p) =>
            p.stop = NoStop \/ (p.stop = FirstStop /\ p.target /\ NoneModifies)
  /\ pc = "TRAIL_STOP" /\ AllWell =>
       /\ NoneModifies
       /\ seen.stop = FirstStop /\ seen.target
       /\ \A p \in book : Its(p) => p.stop <= FirstStop
  /\ pc = "VERIFY_TRAIL" /\ AllWell =>
       /\ OnlySet(TrailedStop)
       /\ seen.stop = FirstStop
       /\ \A p \in book : Its(p) => p.stop <= FirstStop \/ Protected(p)
  /\ pc \in {"FINISH", "CLOSE_POSITION", "VERIFY_CLOSED"} /\ AllOk => opened # NoPosition
  /\ pc \in {"FINISH", "CLOSE_POSITION", "VERIFY_CLOSED"} /\ AllWell =>
       /\ OnlySet(TrailedStop)
       /\ \E p \in book \cup closed : Protected(p)

\* The report the runner handed over, if it passed.
Reported ==
  pc = "RETURNED" /\ AllOk /\ cleanupVerified =>
    /\ opened # NoPosition /\ OwnTicket(opened.ticket)
    /\ opened.ticket = NewTicket => \E p \in closed : Protected(p)

-----------------------------------------------------------------------------
(* What a request carried out does to the levels.                          *)

LEMMA CarryOutLevels ==
  ASSUME BrokerTypeOK, NEW r \in Requests, CarryOut(r)
  PROVE  /\ \A p \in book' : Its(p) =>
              \/ p \in book
              \/ r.kind = "OPEN" /\ p.stop = r.stop
              \/ r.kind = "MODIFY" /\ Its(r) /\ p.stop = r.stop /\ p.target = r.target
         /\ closed \subseteq closed'
         /\ (r.kind = "MODIFY" => Its(r) /\ r.stop = TrailedStop /\ r.target) =>
              \A p \in book \cup closed : Protected(p) =>
                \E q \in book' \cup closed' : Protected(q)
<1>1. CASE r.kind = "OPEN"
  BY <1>1 DEF CarryOut, BookAfter, Its, Protected
<1>2. CASE r.kind = "MODIFY"
  <2> DEFINE After(p) == IF p.ticket = r.ticket
                           THEN [p EXCEPT !.stop = r.stop, !.target = r.target] ELSE p
  <2>1. book' = {After(p) : p \in book} /\ closed' = closed
    BY <1>2 DEF CarryOut, BookAfter
  <2>2. ASSUME NEW p \in book
        PROVE  /\ After(p).ticket = p.ticket
               /\ p.ticket # r.ticket => After(p) = p
               /\ p.ticket = r.ticket => After(p).stop = r.stop /\ After(p).target = r.target
    BY DEF BrokerTypeOK, Positions
  <2> HIDE DEF After
  <2>3. ASSUME NEW q \in book', Its(q)
        PROVE  q \in book \/ (Its(r) /\ q.stop = r.stop /\ q.target = r.target)
    <3>1. PICK p \in book : q = After(p)
      BY <2>1
    <3> QED BY <2>2, <2>3, <3>1 DEF Its
  <2>4. ASSUME Its(r), r.stop = TrailedStop, r.target, NEW p \in book, Protected(p)
        PROVE  \E q \in book' : Protected(q)
    <3>1. After(p) \in book' /\ Protected(After(p))
      BY <2>1, <2>2, <2>4 DEF Its, Protected
    <3> QED BY <3>1
  <2> QED BY <1>2, <2>1, <2>3, <2>4
<1>3. CASE r.kind = "CLOSE"
  BY <1>3 DEF CarryOut, BookAfter, Its, Protected
<1> QED BY <1>1, <1>2, <1>3 DEF Requests

-----------------------------------------------------------------------------
(* The report while the run records its steps.                             *)

LEMMA RecordsOk ==
  ASSUME TypeOK, NEW step \in Steps, NEW ok \in BOOLEAN, Records(step, ok)
  PROVE  AllOk' => AllOk /\ ok
<1>1. steps \in Seq(Record) /\ steps' = Append(steps, [step |-> step, ok |-> ok])
  BY DEF TypeOK, Record, Records
<1>2. /\ Len(steps) \in Nat
      /\ DOMAIN steps = 1..Len(steps) /\ DOMAIN steps' = 1..(Len(steps) + 1)
      /\ \A i \in 1..Len(steps) : steps'[i] = steps[i]
      /\ steps'[Len(steps) + 1].ok = ok
  BY <1>1 DEF Record
<1> QED BY <1>2 DEF AllOk

LEMMA RaisesOk ==
  ASSUME TypeOK, Raises
  PROVE  pc' = "ESCAPED" \/ (pc' = "FINISH" /\ ~AllOk')
<1>1. "CLOSE_POSITION" \in Steps /\ FALSE \in BOOLEAN
  BY DEF Steps
<1> QED BY <1>1, RecordsOk DEF Raises

LEMMA ConcludesOk ==
  ASSUME TypeOK, NEW step \in Steps, NEW ok \in BOOLEAN, NEW next, Concludes(step, ok, next)
  PROVE  /\ AllOk' => AllOk /\ ok
         /\ pc' = (IF ok THEN next ELSE "FINISH")
  BY RecordsOk DEF Concludes

-----------------------------------------------------------------------------
(* The broker between two calls.                                           *)

LEMMA BrokerKeepsLevels ==
  ASSUME Inv, Levels, BrokerStep, UNCHANGED runVars
  PROVE  Levels'
<1>1. /\ BrokerTypeOK /\ UNCHANGED <<pc, opened, seen, steps>>
      /\ (AllOk' <=> AllOk) /\ (AllWell' <=> AllWell)
  BY DEF Inv, TypeOK, runVars, AllOk, AllWell
<1> USE DEF NoneModifies, OnlySet
<1>2. ASSUME flight' \subseteq flight, book' \subseteq book, book \cup closed = book' \cup closed'
      PROVE  Levels'
  BY <1>1, <1>2 DEF Levels
<1>3. ASSUME NEW r \in flight, Lose(r) PROVE Levels'
  BY <1>2, <1>3 DEF Lose
<1>4. ASSUME NEW p \in book, Vanish(p) PROVE Levels'
  BY <1>2, <1>4 DEF Vanish
<1>5. ASSUME NEW r \in flight, Deliver(r) PROVE Levels'
  <2>1. r \in Requests /\ CarryOut(r) /\ flight' = flight \ {r}
    BY <1>1, <1>5 DEF Deliver, BrokerTypeOK
  <2>2. /\ \A p \in book' : Its(p) =>
             \/ p \in book
             \/ r.kind = "OPEN" /\ p.stop = NoStop
             \/ r.kind = "MODIFY" /\ Its(r) /\ p.stop = r.stop /\ p.target = r.target
        /\ (r.kind = "MODIFY" => Its(r) /\ r.stop = TrailedStop /\ r.target) =>
             \A p \in book \cup closed : Protected(p) =>
               \E q \in book' \cup closed' : Protected(q)
    BY <1>1, <2>1, CarryOutLevels DEF Levels
  <2>3. \A q \in flight' : q.kind = "OPEN" => q.stop = NoStop
    BY <2>1 DEF Levels
  <2>4. pc \in {"OPEN_POSITION", "VERIFY_OPEN", "SET_PROTECTIVE_LEVELS"} =>
          NoneModifies' /\ \A p \in book' : Its(p) => p.stop = NoStop
    BY <2>1, <2>2 DEF Levels
  <2>5. ASSUME pc = "VERIFY_LEVELS", AllWell
        PROVE  /\ OnlySet(FirstStop)'
               /\ \A p \in book' : Its(p) =>
                    p.stop = NoStop \/ (p.stop = FirstStop /\ p.target /\ NoneModifies')
    <3>1. /\ OnlySet(FirstStop)
          /\ \A p \in book : Its(p) =>
               p.stop = NoStop \/ (p.stop = FirstStop /\ p.target /\ NoneModifies)
      BY <2>5 DEF Levels
    <3>2. r.kind = "MODIFY" => NoneModifies'
      <4>1. ASSUME r.kind = "MODIFY", NEW q \in flight', q.kind = "MODIFY" PROVE FALSE
        <5>1. /\ q \in Requests /\ q # r
              /\ q.ticket = r.ticket /\ q.stop = r.stop /\ q.target /\ r.target
          BY <1>1, <2>1, <3>1, <4>1 DEF BrokerTypeOK, Its
        <5> QED BY <2>1, <4>1, <5>1 DEF Requests
      <4> QED BY <4>1
    <3> QED BY <2>1, <2>2, <3>1, <3>2
  <2>6. pc = "TRAIL_STOP" /\ AllWell =>
          /\ NoneModifies'
          /\ \A p \in book' : Its(p) => p.stop <= FirstStop
    BY <2>1, <2>2 DEF Levels, NoStop, FirstStop
  <2>7. pc = "VERIFY_TRAIL" /\ AllWell =>
          /\ OnlySet(TrailedStop)'
          /\ \A p \in book' : Its(p) => p.stop <= FirstStop \/ Protected(p)
    BY <2>1, <2>2 DEF Levels, Protected, NoStop, FirstStop
  <2>8. pc \in {"FINISH", "CLOSE_POSITION", "VERIFY_CLOSED"} /\ AllWell =>
          /\ OnlySet(TrailedStop)'
          /\ \E p \in book' \cup closed' : Protected(p)
    BY <2>1, <2>2 DEF Levels
  <2> QED BY <1>1, <2>3, <2>4, <2>5, <2>6, <2>7, <2>8 DEF Levels
<1> QED BY <1>3, <1>4, <1>5 DEF BrokerStep

-----------------------------------------------------------------------------
(* The run.                                                                *)

(* What is sent is carried out, or on its way, or neither.                 *)
LEMMA SendEffect ==
  ASSUME BrokerTypeOK, NEW r \in Requests, NEW outcome, Send(r, outcome)
  PROVE  /\ flight' \subseteq flight \cup {r}
         /\ \A p \in book' : Its(p) =>
              \/ p \in book
              \/ r.kind = "OPEN" /\ p.stop = r.stop
              \/ /\ r.kind = "MODIFY" /\ Its(r) /\ flight' = flight
                 /\ p.stop = r.stop /\ p.target = r.target
         /\ r.kind = "CLOSE" =>
              \A p \in book \cup closed : Protected(p) =>
                \E q \in book' \cup closed' : Protected(q)
<1>1. CASE CarryOut(r) /\ UNCHANGED flight
  BY <1>1, CarryOutLevels
<1>2. CASE UNCHANGED <<book, closed>> /\ flight' \subseteq flight \cup {r}
  BY <1>2
<1> QED BY <1>1, <1>2, SendCases

\* A step that failed leaves nothing to say but this.
Failed ==
  /\ pc' = "ESCAPED" \/ (pc' = "FINISH" /\ ~AllOk')
  /\ \A r \in flight' : r.kind = "OPEN" => r.stop = NoStop

LEMMA FailedKeepsLevels == Failed => Levels'
  BY DEF Failed, Levels, AllWell

LEMMA CallsLevels ==
  ASSUME Inv, Levels, NEW step \in Steps, NEW request \in Requests,
         request.kind = "OPEN" => request.stop = NoStop,
         NEW next, Calls(step, request, next)
  PROVE  \/ Failed
         \/ /\ pc' = next /\ (AllOk' => AllOk) /\ UNCHANGED <<opened, seen>>
            /\ \E outcome : Send(request, outcome)
<1>1. PICK outcome \in Outcomes :
        /\ Send(request, outcome)
        /\ IF outcome = "raised" THEN Raises
           ELSE Concludes(step, outcome \in Approved, next)
        /\ UNCHANGED <<opened, seen, cleanupVerified>>
  BY DEF Calls
<1>2. \A r \in flight' : r.kind = "OPEN" => r.stop = NoStop
  BY <1>1, SendCases DEF Levels
<1>3. CASE outcome = "raised"
  BY <1>1, <1>2, <1>3, RaisesOk DEF Inv, Failed
<1>4. CASE outcome # "raised"
  <2>1. (outcome \in Approved) \in BOOLEAN
    OBVIOUS
  <2>2. /\ AllOk' => AllOk /\ outcome \in Approved
        /\ pc' = (IF outcome \in Approved THEN next ELSE "FINISH")
    BY <1>1, <1>4, <2>1, ConcludesOk DEF Inv
  <2> QED BY <1>1, <1>2, <2>2 DEF Failed
<1> QED BY <1>3, <1>4

LEMMA OpenPositionLevels == Inv /\ Levels /\ OpenPosition => Levels'
<1> SUFFICES ASSUME Inv, Levels, OpenPosition PROVE Levels'
  OBVIOUS
<1> DEFINE request == [kind |-> "OPEN", ticket |-> NewTicket, stop |-> NoStop,
                       target |-> FALSE]
<1>1. /\ request \in Requests /\ request.kind = "OPEN" /\ request.stop = NoStop
      /\ "OPEN_POSITION" \in Steps /\ BrokerTypeOK
  BY PriorAssumption DEF Requests, NoStop, Steps, Inv, TypeOK
<1>2. pc = "OPEN_POSITION" /\ Calls("OPEN_POSITION", request, "VERIFY_OPEN")
  BY DEF OpenPosition
<1> HIDE DEF request
<1>3. CASE Failed
  BY <1>3, FailedKeepsLevels
<1>4. CASE /\ pc' = "VERIFY_OPEN" /\ \E outcome : Send(request, outcome)
  <2>1. /\ flight' \subseteq flight \cup {request}
        /\ \A p \in book' : Its(p) => p \in book \/ p.stop = NoStop
    BY <1>1, <1>4, SendEffect
  <2>2. NoneModifies' /\ (\A p \in book' : Its(p) => p.stop = NoStop)
    BY <1>1, <1>2, <2>1 DEF Levels, NoneModifies
  <2> QED BY <1>1, <1>4, <2>1, <2>2 DEF Levels
<1> QED BY <1>1, <1>2, <1>3, <1>4, CallsLevels

LEMMA SetLevels == Inv /\ ItsOwnOnly /\ Levels /\ SetProtectiveLevels => Levels'
<1> SUFFICES ASSUME Inv, ItsOwnOnly, Levels, SetProtectiveLevels PROVE Levels'
  OBVIOUS
<1>1. opened \in Positions /\ opened # NoPosition /\ pc = "SET_PROTECTIVE_LEVELS"
  BY PriorAssumption DEF Inv, KnowsIts, SetProtectiveLevels, Steps
<1> DEFINE request == [kind |-> "MODIFY", ticket |-> opened.ticket, stop |-> FirstStop,
                       target |-> TRUE]
<1>2. /\ request \in Requests /\ request.kind = "MODIFY" /\ request.ticket = opened.ticket
      /\ request.stop = FirstStop /\ request.target = TRUE
      /\ "SET_PROTECTIVE_LEVELS" \in Steps /\ BrokerTypeOK
  BY <1>1 DEF Requests, Positions, FirstStop, Steps, Inv, TypeOK
<1>3. \/ Raises /\ UNCHANGED brokerVars
      \/ Calls("SET_PROTECTIVE_LEVELS", request, "VERIFY_LEVELS")
  BY DEF SetProtectiveLevels, Modifies
<1> HIDE DEF request
<1>4. NoneModifies /\ \A p \in book : Its(p) => p.stop = NoStop
  BY <1>1 DEF Levels
<1>5. CASE Raises /\ UNCHANGED brokerVars
  BY <1>5, RaisesOk, FailedKeepsLevels DEF Failed, Levels, Inv, brokerVars
<1>6. CASE Failed
  BY <1>6, FailedKeepsLevels
<1>7. CASE /\ pc' = "VERIFY_LEVELS" /\ UNCHANGED <<opened, seen>>
           /\ \E outcome : Send(request, outcome)
  <2>0. AllWell' => Its(request)
    BY <1>1, <1>2, <1>7 DEF AllWell, Its
  <2>1. /\ flight' \subseteq flight \cup {request}
        /\ \A p \in book' : Its(p) =>
             p \in book \/ (flight' = flight /\ p.stop = FirstStop /\ p.target)
    BY <1>2, <1>7, SendEffect
  <2>2. AllWell' => OnlySet(FirstStop)'
    BY <1>2, <1>4, <2>0, <2>1 DEF OnlySet, NoneModifies
  <2>3. \A p \in book' : Its(p) =>
          p.stop = NoStop \/ (p.stop = FirstStop /\ p.target /\ NoneModifies')
    BY <1>4, <2>1 DEF NoneModifies
  <2> QED BY <1>2, <1>7, <2>1, <2>2, <2>3 DEF Levels
<1> QED BY <1>2, <1>3, <1>5, <1>6, <1>7, CallsLevels

LEMMA TrailLevels == Inv /\ ItsOwnOnly /\ Levels /\ TrailStop => Levels'
<1> SUFFICES ASSUME Inv, ItsOwnOnly, Levels, TrailStop PROVE Levels'
  OBVIOUS
<1>1. /\ seen \in Positions /\ opened # NoPosition /\ seen.ticket = opened.ticket
      /\ pc = "TRAIL_STOP"
  BY PriorAssumption DEF Inv, KnowsIts, TrailStop, Steps, ItsOwnOnly
<1> DEFINE request == [kind |-> "MODIFY", ticket |-> seen.ticket, stop |-> TrailedStop,
                       target |-> seen.target]
<1>2. /\ request \in Requests /\ request.kind = "MODIFY" /\ request.ticket = opened.ticket
      /\ request.stop = TrailedStop /\ request.target = seen.target
      /\ "TRAIL_STOP" \in Steps /\ BrokerTypeOK
  BY <1>1 DEF Requests, Positions, TrailedStop, Steps, Inv, TypeOK
<1>3. \/ Raises /\ UNCHANGED brokerVars
      \/ Calls("TRAIL_STOP", request, "VERIFY_TRAIL")
  BY DEF TrailStop, Modifies
<1> HIDE DEF request
<1>4. CASE Raises /\ UNCHANGED brokerVars
  BY <1>4, RaisesOk, FailedKeepsLevels DEF Failed, Levels, Inv, brokerVars
<1>5. CASE Failed
  BY <1>5, FailedKeepsLevels
<1>6. CASE /\ pc' = "VERIFY_TRAIL" /\ (AllOk' => AllOk) /\ UNCHANGED <<opened, seen>>
           /\ \E outcome : Send(request, outcome)
  <2>1. /\ flight' \subseteq flight \cup {request}
        /\ \A p \in book' : Its(p) =>
             p \in book \/ (p.stop = TrailedStop /\ p.target = seen.target)
    BY <1>2, <1>6, SendEffect
  <2>2. AllWell' => /\ Its(request) /\ NoneModifies /\ seen.stop = FirstStop /\ seen.target
                    /\ \A p \in book : Its(p) => p.stop <= FirstStop
    BY <1>1, <1>2, <1>6 DEF Levels, AllWell, Its
  <2>3. AllWell' => OnlySet(TrailedStop)'
    BY <1>2, <2>1, <2>2 DEF OnlySet, NoneModifies
  <2>4. AllWell' => \A p \in book' : Its(p) => p.stop <= FirstStop \/ Protected(p)
    BY <2>1, <2>2 DEF Protected
  <2>5. AllWell' => seen'.stop = FirstStop
    BY <1>6, <2>2
  <2> QED BY <1>2, <1>6, <2>1, <2>3, <2>4, <2>5 DEF Levels
<1> QED BY <1>2, <1>3, <1>4, <1>5, <1>6, CallsLevels

(* The steps that only look.                                               *)
LEMMA LookLevels ==
  ASSUME Inv, ItsOwnOnly, Levels,
         VerifyOpen \/ VerifyLevels \/ VerifyTrail \/ FinishLook \/ LookRaises
  PROVE  Levels'
<1>1. UNCHANGED <<book, closed, flight>> /\ TypeOK
  BY DEF VerifyOpen, VerifyLevels, VerifyTrail, FinishLook, LookRaises, brokerVars, Inv
<1>2. \A r \in flight' : r.kind = "OPEN" => r.stop = NoStop
  BY <1>1 DEF Levels
<1> USE DEF NoneModifies, OnlySet
<1>3. CASE VerifyOpen
  <2>1. "VERIFY_OPEN" \in Steps /\ (opened' # NoPosition) \in BOOLEAN
    BY DEF Steps
  <2>2. /\ AllOk' => opened' # NoPosition
        /\ pc' = IF opened' # NoPosition THEN "SET_PROTECTIVE_LEVELS" ELSE "FINISH"
    BY <1>1, <1>3, <2>1, ConcludesOk DEF VerifyOpen
  <2>3. NoneModifies /\ \A p \in book : Its(p) => p.stop = NoStop
    BY <1>3 DEF VerifyOpen, Levels
  <2> QED BY <1>1, <1>2, <2>2, <2>3 DEF Levels, AllWell
<1>4. CASE VerifyLevels
  <2> DEFINE ok == seen' # NoPosition /\ seen'.stop # NoStop /\ seen'.target
  <2>1. /\ pc = "VERIFY_LEVELS" /\ seen' = Refresh(opened.ticket)
        /\ Concludes("VERIFY_LEVELS", ok, "TRAIL_STOP")
        /\ opened \in Positions /\ opened # NoPosition /\ "VERIFY_LEVELS" \in Steps
        /\ UNCHANGED opened
    BY <1>4, PriorAssumption DEF VerifyLevels, Inv, KnowsIts, Steps
  <2>2. seen' # NoPosition =>
          seen' \in book /\ seen'.ticket = opened.ticket /\ seen' \in Positions
    BY <1>1, <2>1 DEF Refresh, Holds, TypeOK, BrokerTypeOK
  <2>3. ok \in BOOLEAN
    BY <2>2 DEF Positions
  <2>4. (AllOk' => AllOk /\ ok) /\ pc' = (IF ok THEN "TRAIL_STOP" ELSE "FINISH")
    <3> HIDE DEF ok
    <3> QED BY <1>1, <2>1, <2>3, ConcludesOk
  <2>5. AllWell' =>
          /\ NoneModifies /\ seen'.stop = FirstStop /\ seen'.target
          /\ \A p \in book : Its(p) => p.stop <= FirstStop
    <3>1. SUFFICES ASSUME AllWell'
                   PROVE  /\ NoneModifies /\ seen'.stop = FirstStop /\ seen'.target
                          /\ \A p \in book : Its(p) => p.stop <= FirstStop
      OBVIOUS
    <3>2. AllWell /\ ok /\ Its(seen')
      BY <2>1, <2>2, <2>4, <3>1 DEF AllWell, Its
    <3> QED BY <2>1, <2>2, <3>2 DEF Levels, NoStop, FirstStop
  <2>6. (AllOk' => pc' = "TRAIL_STOP") /\ pc' \in {"TRAIL_STOP", "FINISH"} /\ (AllWell' => AllOk')
    BY <2>4 DEF AllWell
  <2> QED BY <1>1, <1>2, <2>5, <2>6 DEF Levels
<1>5. CASE VerifyTrail
  <2> DEFINE after == Refresh(opened.ticket)
             ok == after # NoPosition /\ after.stop > seen.stop
  <2>1. /\ pc = "VERIFY_TRAIL" /\ Concludes("VERIFY_TRAIL", ok, "FINISH")
        /\ opened \in Positions /\ opened # NoPosition /\ "VERIFY_TRAIL" \in Steps
        /\ UNCHANGED <<opened, seen>>
    BY <1>5, PriorAssumption DEF VerifyTrail, Inv, KnowsIts, Steps
  <2>2. after # NoPosition =>
          after \in book /\ after.ticket = opened.ticket /\ after \in Positions
    BY <1>1, <2>1 DEF Refresh, Holds, TypeOK, BrokerTypeOK
  <2>3. ok \in BOOLEAN
    OBVIOUS
  <2>4. (AllOk' => AllOk /\ ok) /\ pc' = "FINISH"
    <3> HIDE DEF ok
    <3> QED BY <1>1, <2>1, <2>3, ConcludesOk
  <2>5. AllWell' => OnlySet(TrailedStop) /\ \E p \in book : Protected(p)
    <3>1. SUFFICES ASSUME AllWell' PROVE OnlySet(TrailedStop) /\ \E p \in book : Protected(p)
      OBVIOUS
    <3>0. AllWell /\ ok /\ opened.ticket = NewTicket
      BY <2>1, <2>4, <3>1 DEF AllWell
    <3>2. /\ OnlySet(TrailedStop) /\ seen.stop = FirstStop
          /\ \A p \in book : Its(p) => p.stop <= FirstStop \/ Protected(p)
      BY <2>1, <3>0 DEF Levels
    <3>3. after \in book /\ Its(after) /\ after.stop \in Nat /\ after.stop > FirstStop
      BY <2>2, <3>0, <3>2 DEF Positions, Its
    <3> HIDE DEF after
    <3>4. Protected(after)
      BY <3>2, <3>3 DEF FirstStop
    <3> QED BY <3>2, <3>3, <3>4
  <2>6. opened' # NoPosition
    BY <2>1, PriorAssumption
  <2> QED BY <1>1, <1>2, <2>4, <2>5, <2>6 DEF Levels
<1>6. CASE FinishLook
  <2>1. /\ pc = "FINISH" /\ pc' \in {"VERIFY_CLOSED", "CLOSE_POSITION"}
        /\ UNCHANGED <<opened, steps>> /\ (AllOk' <=> AllOk) /\ (AllWell' <=> AllWell)
    BY <1>6 DEF FinishLook, AllOk, AllWell
  <2> QED BY <1>1, <1>2, <2>1 DEF Levels
<1>7. CASE LookRaises
  BY <1>1, <1>2, <1>7, RaisesOk, FailedKeepsLevels DEF LookRaises, Failed
<1> QED BY <1>3, <1>4, <1>5, <1>6, <1>7

LEMMA FinishCloseLevels == Inv /\ Levels /\ FinishClose => Levels'
<1> SUFFICES ASSUME Inv, Levels, FinishClose PROVE Levels'
  OBVIOUS
<1>1. seen \in Positions /\ pc = "CLOSE_POSITION" /\ TypeOK /\ BrokerTypeOK
  BY DEF Inv, KnowsIts, FinishClose, Steps, TypeOK
<1> DEFINE request == [kind |-> "CLOSE", ticket |-> seen.ticket, stop |-> seen.stop,
                       target |-> seen.target]
<1>2. request \in Requests /\ request.kind = "CLOSE" /\ "CLOSE_POSITION" \in Steps
  BY <1>1 DEF Requests, Positions, Steps
<1>3. PICK outcome \in Outcomes :
        /\ Send(request, outcome)
        /\ IF outcome = "raised" THEN Raises
           ELSE /\ Records("CLOSE_POSITION", outcome \in Approved)
                /\ pc' = "VERIFY_CLOSED" /\ UNCHANGED handling
        /\ UNCHANGED <<opened, seen, cleanupVerified>>
  BY DEF FinishClose
<1> HIDE DEF request
<1>4. /\ flight' \subseteq flight \cup {request}
      /\ \A p \in book \cup closed : Protected(p) => \E q \in book' \cup closed' : Protected(q)
  BY <1>1, <1>2, <1>3, SendEffect
<1>5. \A r \in flight' : r.kind = "OPEN" => r.stop = NoStop
  BY <1>2, <1>4 DEF Levels
<1>6. CASE outcome = "raised"
  BY <1>1, <1>3, <1>5, <1>6, RaisesOk, FailedKeepsLevels DEF Failed
<1>7. CASE outcome # "raised"
  <2>1. (outcome \in Approved) \in BOOLEAN
    OBVIOUS
  <2>2. (AllOk' => AllOk) /\ pc' = "VERIFY_CLOSED" /\ opened' = opened
    BY <1>1, <1>2, <1>3, <1>7, <2>1, RecordsOk
  <2>3. AllOk' => opened' # NoPosition
    BY <1>1, <2>2 DEF Levels
  <2>4. AllWell' => OnlySet(TrailedStop)' /\ \E p \in book' \cup closed' : Protected(p)
    BY <1>1, <1>2, <1>4, <2>2 DEF Levels, OnlySet, AllWell
  <2> QED BY <1>5, <2>2, <2>3, <2>4 DEF Levels
<1> QED BY <1>6, <1>7

LEMMA FinishNothingReports ==
  ASSUME Inv, Levels, FinishNothing
  PROVE  Levels' /\ Reported'
<1>1. /\ pc = "FINISH" /\ opened = NoPosition /\ pc' = "RETURNED"
      /\ flight' = flight /\ (AllOk' <=> AllOk)
  BY DEF FinishNothing, Returns, AllOk, brokerVars
<1> QED BY <1>1 DEF Levels, Reported

LEMMA FinishVerifyReports ==
  ASSUME Inv, ItsOwnOnly, Levels, FinishVerify
  PROVE  Levels' /\ Reported'
<1>1. /\ pc = "VERIFY_CLOSED" /\ pc' = "RETURNED" /\ cleanupVerified' = ~Holds(opened.ticket)
      /\ Records("VERIFY_CLOSED", ~Holds(opened.ticket))
      /\ UNCHANGED <<opened, book, closed, flight>>
  BY DEF FinishVerify, Returns, brokerVars
<1>2. "VERIFY_CLOSED" \in Steps /\ (~Holds(opened.ticket)) \in BOOLEAN
  BY DEF Steps
<1>3. AllOk' => AllOk /\ ~Holds(opened.ticket)
  BY <1>1, <1>2, RecordsOk DEF Inv
<1>4. AllOk => opened # NoPosition /\ OwnTicket(opened.ticket)
  BY <1>1 DEF Levels, ItsOwnOnly
<1>5. AllOk /\ opened.ticket = NewTicket => \E p \in book \cup closed : Protected(p)
  BY <1>1 DEF Levels, AllWell
<1>6. Levels'
  BY <1>1 DEF Levels
<1>7. Reported'
  BY <1>1, <1>3, <1>4, <1>5 DEF Reported, Protected, Its, Holds
<1> QED BY <1>6, <1>7

LEMMA NextLevels ==
  ASSUME Inv, ItsOwnOnly, Levels, [Next]_vars
  PROVE  Levels'
<1>1. CASE Runner
  BY <1>1, OpenPositionLevels, SetLevels, TrailLevels, LookLevels, FinishCloseLevels,
     FinishNothingReports, FinishVerifyReports DEF Runner
<1>2. CASE BrokerStep /\ UNCHANGED runVars
  BY <1>2, BrokerKeepsLevels
<1>3. CASE UNCHANGED vars
  BY <1>3 DEF vars, runVars, brokerVars, Levels, NoneModifies, OnlySet, AllOk, AllWell
<1> QED BY <1>1, <1>2, <1>3 DEF Next

(* The run hands over its report once.                                     *)
LEMMA NextReported ==
  ASSUME Inv, ItsOwnOnly, Levels, Next, pc # "RETURNED"
  PROVE  Reported'
<1>1. CASE Runner
  <2>1. CASE FinishNothing \/ FinishVerify
    BY <2>1, FinishNothingReports, FinishVerifyReports
  <2>2. CASE ~(FinishNothing \/ FinishVerify)
    <3>1. pc' # "RETURNED"
      BY <1>1, <2>2 DEF Runner, OpenPosition, VerifyOpen, SetProtectiveLevels, VerifyLevels,
         TrailStop, VerifyTrail, FinishLook, FinishClose, LookRaises, Calls, Modifies, Concludes,
         Raises
    <3> QED BY <3>1 DEF Reported
  <2> QED BY <2>1, <2>2
<1>2. CASE UNCHANGED runVars
  BY <1>2 DEF runVars, Reported
<1> QED BY <1>1, <1>2 DEF Next

-----------------------------------------------------------------------------
(* The report and the jobs that follow it.                                 *)

RunType ==
  /\ pc \in Labels /\ handling \in BOOLEAN /\ cleanupVerified \in BOOLEAN
  /\ opened \in Positions \cup {NoPosition} /\ seen \in Positions \cup {NoPosition}
  /\ steps \in Seq([step : Steps, ok : BOOLEAN])

JobType ==
  /\ cancelling \subseteq orders /\ opening \in BOOLEAN
  /\ results \subseteq [ticket : Nat, retcode : Retcodes]
  /\ job \in {"NONE", "CLOSEOUT", "RECONCILE"}

RInv ==
  /\ CInv
  /\ ~Ended => ItsOwnOnly /\ Levels
  /\ Reported
  /\ RunType
  /\ JobType

LEMMA InitReports == CloseoutInit => RInv
<1> SUFFICES ASSUME CloseoutInit PROVE RInv
  OBVIOUS
<1>1. CInv /\ Init /\ Inv
  BY CloseoutInitInv, InitInv DEF CloseoutInit
<1>2. ItsOwnOnly /\ Reported
  BY <1>1, InitItsOwn DEF Init, Reported
<1>3. Levels
  <2>1. \A p \in Prior : ~Its(p)
    BY PriorAssumption DEF Positions, Its
  <2> QED BY <1>1, <2>1 DEF Init, Levels, NoneModifies
<1>4. RunType /\ JobType
  BY <1>1 DEF Inv, TypeOK, RunType, JobType, CloseoutInit
<1> QED BY <1>1, <1>2, <1>3, <1>4 DEF RInv

(* A report that was handed over stays true of what has closed.            *)
LEMMA ReportedStays ==
  ASSUME Reported, UNCHANGED runVars, closed \subseteq closed'
  PROVE  Reported'
  BY DEF Reported, runVars, AllOk, Protected, Its

LEMMA BrokerKeepsClosed ==
  ASSUME BrokerTypeOK, BrokerStep
  PROVE  closed \subseteq closed'
  BY DEF BrokerStep, Deliver, Lose, Vanish, CarryOut

LEMMA PreflightReports ==
  ASSUME RInv, Next, UNCHANGED <<orderVars, jobVars>>
  PROVE  RInv'
<1>1. CInv'
  BY PreflightSteps, EndedSteps DEF RInv
<1>2. JobType'
  BY DEF RInv, JobType, orderVars, jobVars
<1>3. CASE ~Ended
  <2>1. Inv /\ ItsOwnOnly /\ Levels /\ pc # "RETURNED"
    BY <1>3 DEF RInv, CInv, Ended
  <2>2. Inv' /\ ItsOwnOnly' /\ Levels' /\ Reported'
    BY <2>1, NextInv, NextItsOwn, NextLevels, NextReported
  <2> QED BY <1>1, <1>2, <2>2 DEF RInv, RunType, Inv, TypeOK
<1>4. CASE Ended
  <2>1. BrokerStep /\ UNCHANGED runVars
    BY <1>4, EndedStays DEF Next
  <2>2. Reported'
    BY <2>1, ReportedStays, BrokerKeepsClosed DEF RInv, CInv
  <2>3. Ended' /\ RunType'
    BY <1>4, <2>1 DEF Ended, RunType, RInv, runVars
  <2> QED BY <1>1, <1>2, <2>2, <2>3 DEF RInv
<1> QED BY <1>3, <1>4

LEMMA OrderReports == RInv /\ OrderStep => RInv'
<1> SUFFICES ASSUME RInv, OrderStep PROVE RInv'
  OBVIOUS
<1>1. CInv'
  BY OrderSteps DEF RInv
<1>2. /\ UNCHANGED runVars /\ closed' = closed /\ Ended
      /\ UNCHANGED <<job, results, opening>> /\ cancelling' \subseteq orders'
  BY DEF OrderStep, Trigger, Removed, brokerVars, jobVars, Ended, RInv, JobType
<1>3. Reported'
  BY <1>2, ReportedStays DEF RInv
<1>4. Ended' /\ RunType' /\ JobType'
  BY <1>2 DEF Ended, RunType, JobType, RInv, runVars
<1> QED BY <1>1, <1>3, <1>4 DEF RInv

LEMMA StartReports == RInv /\ StartJob => RInv'
<1> SUFFICES ASSUME RInv, StartJob PROVE RInv'
  OBVIOUS
<1>1. CInv'
  BY StartJobStep DEF RInv
<1>2. Ended' /\ Reported' /\ RunType'
  <2>1. /\ pc' = "ESCAPED" /\ handling' = FALSE /\ cleanupVerified' = TRUE
        /\ opened' = NoPosition /\ seen' = NoPosition /\ steps' = <<>>
    BY DEF StartJob, Forgotten
  <2>2. steps' \in Seq([step : Steps, ok : BOOLEAN])
    BY <2>1
  <2> QED BY <2>1, <2>2 DEF Ended, Reported, RunType, Labels
<1>3. JobType'
  <2>1. job' \in {"NONE", "CLOSEOUT", "RECONCILE"}
    BY DEF StartJob, PlanBreachCloseout, Reconcile
  <2> QED BY <2>1 DEF StartJob, JobType, RInv, orderVars
<1> QED BY <1>1, <1>2, <1>3 DEF RInv

LEMMA AnswerType ==
  ASSUME JobType, NEW ticket \in Nat, NEW outcome \in Outcomes, Answer(ticket, outcome)
  PROVE  results' \subseteq [ticket : Nat, retcode : Retcodes]
  BY DEF Answer, JobType, Outcomes

LEMMA JobReports == RInv /\ Job => RInv'
<1> SUFFICES ASSUME RInv, Job PROVE RInv'
  OBVIOUS
<1>1. CInv'
  BY ClosePositionStep, CancelOrderStep, JobReturnsStep DEF RInv, Job
<1>2. pc = "ESCAPED" /\ UNCHANGED runVars
  BY DEF Job, ClosePosition, CancelOrder, JobReturns, RInv, CInv, JobGoesOn, vars
<1>3. Ended' /\ Reported' /\ RunType'
  BY <1>2 DEF Ended, Reported, RunType, RInv, runVars
<1>4. ASSUME NEW p \in toClose, ClosePosition(p) PROVE JobType'
  <2>1. p.ticket \in Nat
    BY DEF RInv, CInv, JobGoesOn, Positions
  <2>2. PICK outcome \in Outcomes : Answer(p.ticket, outcome)
    BY <1>4 DEF ClosePosition
  <2>3. results' \subseteq [ticket : Nat, retcode : Retcodes]
    BY <2>1, <2>2, AnswerType DEF RInv
  <2> QED BY <1>4, <2>3 DEF ClosePosition, RInv, JobType, orderVars
<1>5. ASSUME NEW o \in toCancel, CancelOrder(o) PROVE JobType'
  <2>1. o \in Nat
    BY PendingAssumption DEF RInv, CInv, JobGoesOn
  <2>2. PICK outcome \in Outcomes : SendCancel(o, outcome) /\ Answer(o, outcome)
    BY <1>5 DEF CancelOrder
  <2>3. results' \subseteq [ticket : Nat, retcode : Retcodes]
    BY <2>1, <2>2, AnswerType DEF RInv
  <2>4. cancelling' \subseteq orders'
    BY <2>2 DEF SendCancel, orderVars, RInv, JobType
  <2> QED BY <1>5, <2>3, <2>4 DEF CancelOrder, RInv, JobType
<1>6. JobReturns => JobType'
  BY DEF JobReturns, RInv, JobType, orderVars
<1> QED BY <1>1, <1>3, <1>4, <1>5, <1>6 DEF RInv, Job

LEMMA NextReports == RInv /\ [CloseoutNext]_allVars => RInv'
<1> SUFFICES ASSUME RInv, [CloseoutNext]_allVars PROVE RInv'
  OBVIOUS
<1>1. CASE UNCHANGED allVars
  <2>1. UNCHANGED vars /\ UNCHANGED runVars /\ UNCHANGED brokerVars
        /\ UNCHANGED orderVars /\ UNCHANGED jobVars
    BY <1>1 DEF allVars, vars
  <2>2. CInv'
    BY <1>1, CloseoutNextInv DEF RInv
  <2>3. ~Ended => ItsOwnOnly' /\ Levels'
    BY <2>1, NextItsOwn, NextLevels DEF RInv, CInv
  <2>4. Reported'
    BY <2>1, ReportedStays DEF RInv, brokerVars
  <2>5. (Ended' <=> Ended) /\ RunType' /\ JobType'
    BY <2>1 DEF Ended, RInv, RunType, JobType, runVars, orderVars, jobVars
  <2> QED BY <2>2, <2>3, <2>4, <2>5 DEF RInv
<1> QED BY <1>1, PreflightReports, OrderReports, StartReports, JobReports DEF CloseoutNext

(* What the three programs report is true, whatever positions of the       *)
(* user's and of this EA's the account has before, whatever the broker     *)
(* answers and however late: a preflight that passed on the position it    *)
(* opened closed it with the trailed stop and still its target             *)
(* (preflight.py:319), and the results of a closeout or a reconciliation   *)
(* name every position left (compliance_closeout.py:109).                  *)
THEOREM AllReportsAreTrue == CloseoutSpec => []ReportsAreTrue
<1>1. CloseoutInit => RInv
  BY InitReports
<1>2. RInv => ReportsAreTrue
  <2>1. RInv => CloseoutTypeOK
    BY DEF RInv, CInv, Apart, JobGoesOn, RunType, JobType, CloseoutTypeOK, TypeOK
  <2>2. RInv => PassedWithBothLevels
    BY DEF RInv, Reported, PassedWithBothLevels, Passed, Protected, Its, OwnTicket
  <2>3. RInv => ResultsNameTheRiskLeft
    BY DEF RInv, CInv, JobGoesOn, Answered, Owed, ToClose, OwnTicket, ResultsNameTheRiskLeft
  <2> QED BY <2>1, <2>2, <2>3 DEF ReportsAreTrue
<1> QED BY <1>1, <1>2, NextReports, PTL DEF CloseoutSpec

(***************************************************************************)
(* The live session.                                                       *)
(*                                                                         *)
(* Whatever is still in flight is an order to open that was answered       *)
(* before it was filled, and tickets only grow (SessionInv).  A poll that  *)
(* has sized a trade saw room for it among the open positions, and until   *)
(* its order is carried out nothing adds to them but such a late fill      *)
(* (RoomForOne).  A total breach that this session saw is in the engine's  *)
(* memory, and no poll is past the gate with such a memory                 *)
(* (BreachRemembered).                                                     *)
(***************************************************************************)
SessionInv ==
  /\ DispatchTypeOK
  /\ IsFiniteSet(book)
  /\ \A p \in book : p.ticket <= lastTicket
  /\ \A r \in flight : r.kind = "OPEN" /\ r.ticket \in late /\ r.ticket <= lastTicket
  /\ stage # "idle" => risked > 0 /\ lastTicket < MaxTicket

InTime == {p \in Trades : p.ticket \notin late}

RoomForOne ==
  /\ Cardinality(InTime) <= MaxOpenPositions
  /\ stage # "idle" => Cardinality(InTime) < MaxOpenPositions

BreachRemembered ==
  /\ breached = "now" => memory.totalBreached
  /\ stage = "approved" => ~memory.totalBreached

-----------------------------------------------------------------------------
LEMMA BoundTypes ==
  /\ MaxOpenPositions \in Nat \ {0} /\ MaxTicket \in Nat /\ MaxCash \in Nat /\ MaxDay \in Nat
  /\ Slippage \in Nat /\ Deposit \in Nat /\ StartCash \in Nat /\ Gain \in Nat
  BY SessionAssumption

LEMMA ObserveType ==
  ASSUME NEW m \in Memory, NEW day \in Nat, NEW equity \in Nat
  PROVE  Observe(m, day, equity) \in Memory
<1> DEFINE peak == IF m.peak = None THEN FirstPeak(equity) ELSE Higher(m.peak, equity)
<1>1. peak \in Nat
  BY ConfigAssumption DEF Memory, FirstPeak, Higher, None
<1>2. /\ m.dayStart \in Nat
      /\ (m.totalBreached \/ TotalReached(peak, equity)) \in BOOLEAN
  BY DEF Memory
<1> QED BY <1>1, <1>2 DEF Observe, Memory

(* A size the account can afford is a number of steps.                     *)
LEMMA SizedType ==
  ASSUME NEW equity \in Nat, NEW stepLoss \in StepLosses
  PROVE  /\ SizedSteps(equity, stepLoss) \in Nat
         /\ SizedSteps(equity, stepLoss) >= MinSteps =>
              SizedSteps(equity, stepLoss) * stepLoss \in Nat \ {0}
<1>1. /\ stepLoss \in Nat /\ stepLoss > 0 /\ Unit \in Nat /\ Unit > 0
      /\ RiskFraction \in Nat /\ MaxSteps \in Nat /\ MinSteps \in Nat /\ MinSteps > 0
  BY ConfigAssumption, SessionAssumption
<1>2. PICK x \in Nat : x = equity * RiskFraction
  BY <1>1
<1>3. PICK y \in Nat \ {0} : y = Unit * stepLoss
  BY <1>1
<1>4. x \div y \in Nat
  OBVIOUS
<1>5. SizedSteps(equity, stepLoss) \in Nat
  BY <1>1, <1>2, <1>3, <1>4 DEF SizedSteps
<1>6. ASSUME NEW n \in Nat, n > 0 PROVE n * stepLoss \in Nat \ {0}
  BY <1>1, <1>6
<1> QED BY <1>1, <1>5, <1>6

LEMMA NewestFacts == ASSUME SessionInv, book # {} PROVE Newest \in book
<1>1. lastTicket \in Nat /\ book \subseteq Positions /\ \A p \in book : p.ticket <= lastTicket
  BY BoundTypes DEF SessionInv, DispatchTypeOK, BrokerTypeOK
<1>2. \E p \in book : \A q \in book : q.ticket <= p.ticket
  BY <1>1, LatestExists
<1> QED BY <1>2 DEF Newest

-----------------------------------------------------------------------------
(* What the commissioning may leave: the account's positions, one of them  *)
(* closed or with a tighter stop, and an orphan of its own, open or late.  *)

Loosed(B) == book # {} /\ B = book \ {Newest}

Drawn(B) ==
  /\ book # {}
  /\ \E loss \in 1..Newest.stop : B = (book \ {Newest}) \cup {[Newest EXCEPT !.stop = loss]}

Orphan == [ticket |-> lastTicket', own |-> TRUE, stop |-> 0, target |-> FALSE]

LEMMA CommissionFacts ==
  ASSUME SessionInv, NEW passed \in BOOLEAN, Commission(passed)
  PROVE  /\ cash' \in Nat
         /\ \E B : /\ B = book \/ Loosed(B) \/ Drawn(B)
                   /\ \/ UNCHANGED <<lastTicket, flight, late>> /\ book' = B
                      \/ /\ lastTicket' = lastTicket + 1 /\ lastTicket' <= MaxTicket
                         /\ \/ book' = B \cup {Orphan} /\ UNCHANGED <<flight, late>>
                            \/ /\ book' = B
                               /\ flight' = flight \cup {OrphanOrder(lastTicket')}
                               /\ late' = late \cup {lastTicket'}
<1>1. PICK after \in IF passed THEN Passes ELSE Fails :
        /\ after.cash \in 1..MaxCash
        /\ cash' = after.cash
        /\ lastTicket' = IF after.orphan = "none" THEN lastTicket ELSE lastTicket + 1
        /\ lastTicket' <= MaxTicket
        /\ book' = IF after.orphan = "open" THEN after.book \cup {Orphan} ELSE after.book
        /\ IF after.orphan = "late"
             THEN flight' = flight \cup {OrphanOrder(lastTicket')} /\ late' = late \cup {lastTicket'}
             ELSE UNCHANGED <<flight, late>>
  BY DEF Commission, Orphan
<1>2. ASSUME NEW c \in ClosedByIt, book # {} PROVE Loosed(c.book)
  BY <1>2 DEF ClosedByIt, Loosed
<1>3. ASSUME NEW c \in Tightened, book # {} PROVE Drawn(c.book)
  BY <1>3 DEF Tightened, Drawn
<1>4. CASE after \in Passes
  <2>1. CASE after = [book |-> book, cash |-> cash, orphan |-> "none"]
    BY <1>1, <2>1
  <2>2. CASE book # {} /\ \E c \in ClosedByIt, orphan \in {"none", "late"} :
               after = [book |-> c.book, cash |-> c.cash, orphan |-> orphan]
    <3>1. Loosed(after.book) /\ after.orphan \in {"none", "late"}
      BY <1>2, <2>2
    <3> QED BY <1>1, <3>1
  <2> QED BY <1>4, <2>1, <2>2 DEF Passes
<1>5. CASE after \in Fails
  <2>1. PICK c \in {[book |-> book, cash |-> cash]} \cup
                     (IF book = {} THEN {} ELSE Tightened \cup ClosedByIt),
             orphan \in {"none", "open", "late"} :
          after = [book |-> c.book, cash |-> c.cash, orphan |-> orphan]
    BY <1>5 DEF Fails
  <2>2. c.book = book \/ Loosed(c.book) \/ Drawn(c.book)
    BY <1>2, <1>3, <2>1
  <2>3. after.book = c.book /\ after.orphan \in {"none", "open", "late"}
    BY <2>1
  <2> QED BY <1>1, <2>2, <2>3
<1>6. cash' \in Nat
  BY <1>1, BoundTypes
<1> QED BY <1>1, <1>4, <1>5, <1>6

(* An order to open is filled, is on its way, or comes to nothing.         *)
LEMMA OpenCases ==
  ASSUME NEW r, r.kind = "OPEN", NEW outcome, Send(r, outcome)
  PROVE  /\ closed' = closed
         /\ \/ /\ book' = book \cup {[ticket |-> r.ticket, own |-> TRUE, stop |-> r.stop,
                                      target |-> r.target]}
               /\ flight' = flight
            \/ book' = book /\ flight' = flight \cup {r}
            \/ book' = book /\ flight' = flight
  BY SendCases DEF CarryOut, BookAfter

LEMMA OpenDelivered ==
  ASSUME NEW r \in flight, r.kind = "OPEN", Deliver(r) \/ Lose(r)
  PROVE  /\ closed' = closed /\ flight' = flight \ {r}
         /\ \/ book' = book \cup {[ticket |-> r.ticket, own |-> TRUE, stop |-> r.stop,
                                   target |-> r.target]}
            \/ book' = book
  BY DEF Deliver, Lose, CarryOut, BookAfter

-----------------------------------------------------------------------------
LEMMA InitSession == DispatchInit => SessionInv
<1> SUFFICES ASSUME DispatchInit PROVE SessionInv
  OBVIOUS
<1>1. DispatchTypeOK
  <2>1. FreshMemory \in Memory
    BY DEF FreshMemory, Memory, None
  <2>2. StartCash \in Nat /\ 1 \in 1..MaxDay /\ 0 \in 0..MaxTicket
    BY SessionAssumption
  <2> QED BY <2>1, <2>2 DEF DispatchInit, DispatchTypeOK, BrokerTypeOK
<1> QED BY <1>1, FS_EmptySet DEF DispatchInit, SessionInv

LEMMA NextSession == SessionInv /\ [DispatchNext]_dispatchVars => SessionInv'
<1> SUFFICES ASSUME SessionInv, [DispatchNext]_dispatchVars PROVE SessionInv'
  OBVIOUS
<1> USE DEF SessionInv
<1>0. /\ cash \in Nat /\ risked \in Nat /\ memory \in Memory /\ today \in Nat
      /\ lastTicket \in Nat /\ lastTicket <= MaxTicket /\ book \subseteq Positions
      /\ flight \subseteq Requests /\ late \subseteq 1..MaxTicket
  BY BoundTypes DEF DispatchTypeOK, BrokerTypeOK
<1>1. CASE Start
  BY <1>1 DEF Start, DispatchTypeOK, BrokerTypeOK, FreshMemory, Memory, None, brokerVars
<1>2. ASSUME NEW passed \in BOOLEAN, Commission(passed)
      PROVE  SessionInv'
  <2>1. PICK B : /\ B = book \/ Loosed(B) \/ Drawn(B)
                 /\ \/ UNCHANGED <<lastTicket, flight, late>> /\ book' = B
                    \/ /\ lastTicket' = lastTicket + 1 /\ lastTicket' <= MaxTicket
                       /\ \/ book' = B \cup {Orphan} /\ UNCHANGED <<flight, late>>
                          \/ /\ book' = B
                             /\ flight' = flight \cup {OrphanOrder(lastTicket')}
                             /\ late' = late \cup {lastTicket'}
    BY <1>2, CommissionFacts
  <2>2. B \subseteq Positions /\ IsFiniteSet(B) /\ \A p \in B : p.ticket <= lastTicket
    <3>1. CASE Loosed(B)
      BY <1>0, <3>1, FS_Subset DEF Loosed
    <3>2. CASE Drawn(B)
      <4>1. Newest \in book /\ Newest \in Positions
        BY <1>0, <3>2, NewestFacts DEF Drawn
      <4>2. PICK loss \in 1..Newest.stop :
              B = (book \ {Newest}) \cup {[Newest EXCEPT !.stop = loss]}
        BY <3>2 DEF Drawn
      <4>3. /\ [Newest EXCEPT !.stop = loss] \in Positions
            /\ [Newest EXCEPT !.stop = loss].ticket = Newest.ticket
        BY <4>1, <4>2 DEF Positions
      <4>4. IsFiniteSet(book \ {Newest})
        BY FS_Subset
      <4> QED BY <1>0, <4>1, <4>2, <4>3, <4>4, FS_AddElement
    <3> QED BY <1>0, <2>1, <3>1, <3>2
  <2>3. CASE UNCHANGED <<lastTicket, flight, late>> /\ book' = B
    BY <1>0, <1>2, <2>2, <2>3, CommissionFacts DEF Commission, DispatchTypeOK, BrokerTypeOK
  <2>4. CASE /\ lastTicket' = lastTicket + 1 /\ lastTicket' <= MaxTicket
             /\ book' = B \cup {Orphan} /\ UNCHANGED <<flight, late>>
    <3>1. Orphan \in Positions /\ Orphan.ticket = lastTicket' /\ lastTicket' \in 0..MaxTicket
      BY <1>0, <2>4, BoundTypes DEF Orphan, Positions
    <3>2. IsFiniteSet(book')
      BY <2>2, <2>4, FS_AddElement
    <3>3. \A p \in book' : p \in Positions /\ p.ticket <= lastTicket'
      BY <1>0, <2>2, <2>4, <3>1 DEF Positions
    <3>4. \A r \in flight' : r.ticket <= lastTicket'
      BY <1>0, <2>4 DEF Requests
    <3> QED BY <1>0, <1>2, <2>4, <3>1, <3>2, <3>3, <3>4, CommissionFacts
            DEF Commission, DispatchTypeOK, BrokerTypeOK
  <2>5. CASE /\ lastTicket' = lastTicket + 1 /\ lastTicket' <= MaxTicket /\ book' = B
             /\ flight' = flight \cup {OrphanOrder(lastTicket')}
             /\ late' = late \cup {lastTicket'}
    <3>1. /\ OrphanOrder(lastTicket') \in Requests /\ lastTicket' \in 1..MaxTicket
          /\ OrphanOrder(lastTicket').ticket = lastTicket'
          /\ OrphanOrder(lastTicket').kind = "OPEN"
      BY <1>0, <2>5, BoundTypes DEF OrphanOrder, Requests
    <3>2. \A p \in book' : p \in Positions /\ p.ticket <= lastTicket'
      BY <1>0, <2>2, <2>5 DEF Positions
    <3>3. \A r \in flight' : r \in Requests /\ r.kind = "OPEN" /\ r.ticket \in late'
                            /\ r.ticket <= lastTicket'
      BY <1>0, <2>5, <3>1 DEF Requests
    <3>4. late' \subseteq 1..MaxTicket /\ lastTicket' \in 0..MaxTicket
      BY <1>0, <2>5, <3>1
    <3> QED BY <1>0, <1>2, <2>2, <2>5, <3>2, <3>3, <3>4, CommissionFacts
            DEF Commission, DispatchTypeOK, BrokerTypeOK
  <2> QED BY <2>1, <2>3, <2>4, <2>5
<1>3. CASE Crash
  BY <1>3 DEF Crash, Dies, DispatchTypeOK, BrokerTypeOK, brokerVars
<1>4. ASSUME NEW equity \in Readings, NEW stepLoss \in StepLosses, Propose(equity, stepLoss)
      PROVE  SessionInv'
  <2>1. equity \in Nat
    BY <1>0, BoundTypes DEF Readings
  <2>2. risked' \in Nat \ {0}
    BY <1>4, <2>1, SizedType DEF Propose
  <2> QED BY <1>4, <2>2 DEF Propose, DispatchTypeOK, BrokerTypeOK, brokerVars
<1>5. CASE NotCommissioned
  BY <1>5 DEF NotCommissioned, DispatchTypeOK, BrokerTypeOK, brokerVars
<1>6. ASSUME NEW equity \in Readings, NEW blackout \in BOOLEAN, Judge(equity, blackout)
      PROVE  SessionInv'
  <2>1. equity \in Nat
    BY <1>0, BoundTypes DEF Readings
  <2>2. memory' \in Memory
    BY <1>0, <1>6, <2>1, ObserveType DEF Judge
  <2>3. /\ stage' \in {"idle", "approved"} /\ risked' \in Nat /\ judgedEquity' \in Nat
        /\ stage' = "approved" => risked' = risked
        /\ breached' \in {"never", "now", "before"}
    BY <1>0, <1>6, <2>1 DEF Judge, DispatchTypeOK
  <2> QED BY <1>6, <2>2, <2>3 DEF Judge, DispatchTypeOK, BrokerTypeOK, brokerVars
<1>7. ASSUME NEW outcome \in Outcomes, NEW loss \in 1..(risked + Slippage), Place(outcome, loss)
      PROVE  SessionInv'
  <2> DEFINE r == [kind |-> "OPEN", ticket |-> lastTicket + 1, stop |-> loss, target |-> FALSE]
             p == [ticket |-> lastTicket + 1, own |-> TRUE, stop |-> loss, target |-> FALSE]
  <2>1. /\ lastTicket' = lastTicket + 1 /\ lastTicket' \in 1..MaxTicket /\ stage' = "idle"
        /\ risked' = 0 /\ judgedEquity' = 0
        /\ UNCHANGED <<cash, today, commissioned, memory, breached>> /\ proc' \in {proc, "down"}
    BY <1>0, <1>7, BoundTypes DEF Place, Dies
  <2>2. /\ Send(r, outcome) /\ late' = IF r \in flight' THEN late \cup {r.ticket} ELSE late
    BY <1>7 DEF Place
  <2>3. r \in Requests /\ p \in Positions /\ r.kind = "OPEN" /\ r.ticket = lastTicket'
        /\ p.ticket = lastTicket'
        /\ p = [ticket |-> r.ticket, own |-> TRUE, stop |-> r.stop, target |-> r.target]
    BY <1>0, <1>7, <2>1, BoundTypes DEF Requests, Positions
  <2> HIDE DEF r, p
  <2>4. /\ closed' = closed /\ book' \in {book, book \cup {p}} /\ flight' \subseteq flight \cup {r}
    BY <2>2, <2>3, OpenCases
  <2>5. IsFiniteSet(book') /\ book' \subseteq Positions
    <3>1. IsFiniteSet(book \cup {p})
      BY FS_AddElement
    <3> QED BY <1>0, <2>3, <2>4, <3>1
  <2>6. \A q \in book' : q.ticket <= lastTicket'
    BY <1>0, <2>1, <2>3, <2>4 DEF Positions
  <2>7. \A q \in flight' : q \in Requests /\ q.kind = "OPEN" /\ q.ticket \in late' /\ q.ticket <= lastTicket'
    BY <1>0, <2>1, <2>2, <2>3, <2>4 DEF Requests
  <2>8. late' \subseteq 1..MaxTicket /\ lastTicket' \in 0..MaxTicket
    BY <1>0, <2>1, <2>2, <2>3
  <2>9. DispatchTypeOK'
    BY <2>1, <2>4, <2>5, <2>7, <2>8 DEF DispatchTypeOK, BrokerTypeOK
  <2> QED BY <2>1, <2>5, <2>6, <2>7, <2>9
<1>8. CASE LateFill
  <2>1. PICK r \in flight : Deliver(r) \/ Lose(r)
    BY <1>8 DEF LateFill
  <2>2. UNCHANGED <<cash, today, proc, commissioned, memory, stage, risked, judgedEquity,
                    lastTicket, breached, late>>
    BY <1>8 DEF LateFill, sessionVars
  <2> DEFINE p == [ticket |-> r.ticket, own |-> TRUE, stop |-> r.stop, target |-> r.target]
  <2>3. p \in Positions /\ p.ticket <= lastTicket
    BY <1>0 DEF Positions, Requests
  <2>4. closed' = closed /\ flight' = flight \ {r} /\ book' \in {book, book \cup {p}}
    BY <2>1, OpenDelivered
  <2> HIDE DEF p
  <2>5. IsFiniteSet(book') /\ book' \subseteq Positions /\ \A q \in book' : q.ticket <= lastTicket
    BY <1>0, <2>3, <2>4, FS_AddElement
  <2> QED BY <2>2, <2>4, <2>5 DEF DispatchTypeOK, BrokerTypeOK
<1>9. ASSUME NEW p \in book, NEW result, Closes(p, result)
      PROVE  SessionInv'
  <2>1. book' = book \ {p} /\ cash' \in Nat /\ IsFiniteSet(book')
    BY <1>9, BoundTypes, FS_Subset DEF Closes
  <2> QED BY <1>9, <2>1 DEF Closes, DispatchTypeOK, BrokerTypeOK
<1>10. CASE PayIn
  BY <1>0, <1>10, BoundTypes DEF PayIn, DispatchTypeOK, BrokerTypeOK, brokerVars
<1>11. CASE NewDay
  BY <1>11, BoundTypes DEF NewDay, DispatchTypeOK, BrokerTypeOK, brokerVars
<1>12. CASE UNCHANGED dispatchVars
  BY <1>12 DEF dispatchVars, sessionVars, brokerVars, DispatchTypeOK, BrokerTypeOK
<1> QED
  BY <1>1, <1>2, <1>3, <1>4, <1>5, <1>6, <1>7, <1>8, <1>9, <1>10, <1>11, <1>12 DEF DispatchNext

LEMMA SessionHolds == DispatchSpec => []SessionInv
  BY InitSession, NextSession, PTL DEF DispatchSpec

-----------------------------------------------------------------------------
LEMMA FewerOf ==
  ASSUME NEW S, IsFiniteSet(S), NEW T, T \subseteq S
  PROVE  Cardinality(S) \in Nat /\ Cardinality(T) \in Nat /\ Cardinality(T) <= Cardinality(S)
  BY FS_Subset, FS_CardinalityType

LEMMA OneMoreOf ==
  ASSUME NEW S, IsFiniteSet(S), NEW x, NEW T, T \subseteq S \cup {x}
  PROVE  Cardinality(T) \in Nat /\ Cardinality(T) <= Cardinality(S) + 1
<1>1. /\ IsFiniteSet(S \cup {x}) /\ Cardinality(S) \in Nat
      /\ Cardinality(S \cup {x}) <= Cardinality(S) + 1
  <2>1. Cardinality(S) \in Nat
    BY FS_CardinalityType
  <2> QED BY <2>1, FS_AddElement
<1>2. Cardinality(S \cup {x}) \in Nat /\ Cardinality(T) \in Nat
      /\ Cardinality(T) <= Cardinality(S \cup {x})
  BY <1>1, FewerOf
<1> QED BY <1>1, <1>2

LEMMA ExchangedOf ==
  ASSUME NEW S, IsFiniteSet(S), NEW x \in S, NEW y, NEW T, T \subseteq (S \ {x}) \cup {y}
  PROVE  Cardinality(T) \in Nat /\ Cardinality(T) <= Cardinality(S)
<1>1. /\ IsFiniteSet(S \ {x}) /\ Cardinality(S) \in Nat
      /\ Cardinality(S \ {x}) = Cardinality(S) - 1
  BY FS_RemoveElement, FS_CardinalityType
<1>2. Cardinality(T) \in Nat /\ Cardinality(T) <= Cardinality(S \ {x}) + 1
  BY <1>1, OneMoreOf
<1> QED BY <1>1, <1>2

LEMMA InTimeFinite ==
  ASSUME SessionInv
  PROVE  IsFiniteSet(InTime) /\ Cardinality(InTime) \in Nat /\ Cardinality(book) \in Nat
<1>1. InTime \subseteq book
  BY DEF InTime, Trades
<1> QED BY <1>1, FS_Subset, FS_CardinalityType DEF SessionInv

LEMMA InitRoom == DispatchInit => RoomForOne
<1> SUFFICES ASSUME DispatchInit PROVE RoomForOne
  OBVIOUS
<1>1. InTime = {} /\ stage = "idle"
  BY DEF DispatchInit, Trades, InTime
<1> QED BY <1>1, BoundTypes, FS_EmptySet DEF RoomForOne

(* A commissioning makes no second trade: it may tighten or close one, and *)
(* its orphan is none.                                                     *)
LEMMA CommissionRoom ==
  ASSUME SessionInv, RoomForOne, NEW passed \in BOOLEAN, Commission(passed)
  PROVE  RoomForOne'
<1>1. PICK B : /\ B = book \/ Loosed(B) \/ Drawn(B)
               /\ book' = B \/ book' = B \cup {Orphan}
               /\ late \subseteq late'
  BY CommissionFacts
<1>2. stage' = "idle"
  BY DEF Commission, SessionInv, DispatchTypeOK
<1>3. InTime' \subseteq {p \in B : p.stop # 0 /\ p.ticket \notin late}
  <2>1. Orphan.stop = 0
    BY DEF Orphan
  <2> QED BY <1>1, <2>1 DEF InTime, Trades
<1>4. IsFiniteSet(InTime) /\ Cardinality(InTime) \in Nat
  BY InTimeFinite
<1>5. Cardinality(InTime') \in Nat /\ Cardinality(InTime') <= Cardinality(InTime)
  <2>1. CASE B \subseteq book
    <3>1. InTime' \subseteq InTime
      BY <1>3, <2>1 DEF InTime, Trades
    <3> QED BY <1>4, <3>1, FewerOf
  <2>2. CASE Drawn(B)
    <3>1. PICK loss \in 1..Newest.stop :
            B = (book \ {Newest}) \cup {[Newest EXCEPT !.stop = loss]}
      BY <2>2 DEF Drawn
    <3>2. Newest \in book /\ Newest \in Positions
      BY <2>2, NewestFacts DEF Drawn, SessionInv, DispatchTypeOK, BrokerTypeOK
    <3>3. Newest.stop # 0 /\ [Newest EXCEPT !.stop = loss].ticket = Newest.ticket
      BY <3>1, <3>2 DEF Positions
    <3>4. CASE Newest.ticket \in late
      <4>1. InTime' \subseteq InTime
        BY <1>3, <3>1, <3>3, <3>4 DEF InTime, Trades
      <4> QED BY <1>4, <4>1, FewerOf
    <3>5. CASE Newest.ticket \notin late
      <4>1. Newest \in InTime
        BY <3>2, <3>3, <3>5 DEF InTime, Trades
      <4>2. InTime' \subseteq (InTime \ {Newest}) \cup {[Newest EXCEPT !.stop = loss]}
        BY <1>3, <3>1 DEF InTime, Trades
      <4> QED BY <1>4, <4>1, <4>2, ExchangedOf
    <3> QED BY <3>4, <3>5
  <2> QED BY <1>1, <2>1, <2>2 DEF Loosed
<1> QED BY <1>2, <1>4, <1>5, BoundTypes DEF RoomForOne

LEMMA NextRoom == SessionInv /\ RoomForOne /\ [DispatchNext]_dispatchVars => RoomForOne'
<1> SUFFICES ASSUME SessionInv, RoomForOne, [DispatchNext]_dispatchVars PROVE RoomForOne'
  OBVIOUS
<1>0. /\ IsFiniteSet(InTime) /\ Cardinality(InTime) \in Nat /\ Cardinality(book) \in Nat
      /\ MaxOpenPositions \in Nat
  BY InTimeFinite, BoundTypes
<1>1. CASE InTime' \subseteq InTime /\ (stage' # "idle" => stage # "idle")
  BY <1>0, <1>1, FewerOf DEF RoomForOne
<1>2. CASE Start \/ Crash \/ NotCommissioned \/ PayIn \/ NewDay \/ UNCHANGED dispatchVars
  BY <1>1, <1>2 DEF Start, Crash, Dies, NotCommissioned, PayIn, NewDay, dispatchVars, sessionVars,
     brokerVars, InTime, Trades
<1>3. ASSUME NEW equity, NEW stepLoss, Propose(equity, stepLoss)
      PROVE  RoomForOne'
  <2>1. InTime' = InTime /\ Cardinality(book) < MaxOpenPositions
    BY <1>3 DEF Propose, brokerVars, InTime, Trades
  <2>2. Cardinality(InTime) <= Cardinality(book)
    BY FewerOf DEF InTime, Trades, SessionInv
  <2> QED BY <1>0, <2>1, <2>2 DEF RoomForOne
<1>4. ASSUME NEW equity, NEW blackout, Judge(equity, blackout)
      PROVE  RoomForOne'
  BY <1>1, <1>4 DEF Judge, brokerVars, InTime, Trades
<1>5. ASSUME NEW outcome, NEW loss, Place(outcome, loss)
      PROVE  RoomForOne'
  <2> DEFINE r == [kind |-> "OPEN", ticket |-> lastTicket + 1, stop |-> loss, target |-> FALSE]
             p == [ticket |-> r.ticket, own |-> TRUE, stop |-> r.stop, target |-> r.target]
  <2>1. /\ stage' = "idle" /\ Cardinality(InTime) < MaxOpenPositions /\ late \subseteq late'
        /\ Send(r, outcome) /\ r.kind = "OPEN"
    BY <1>5 DEF Place, Dies, RoomForOne
  <2> HIDE DEF r
  <2>2. book' \subseteq book \cup {p}
    BY <2>1, OpenCases
  <2> HIDE DEF p
  <2>3. InTime' \subseteq InTime \cup {p}
    BY <2>1, <2>2 DEF InTime, Trades
  <2>4. Cardinality(InTime') \in Nat /\ Cardinality(InTime') <= Cardinality(InTime) + 1
    BY <1>0, <2>3, OneMoreOf
  <2> QED BY <1>0, <2>1, <2>4 DEF RoomForOne
<1>6. CASE LateFill
  <2>1. PICK r \in flight : Deliver(r) \/ Lose(r)
    BY <1>6 DEF LateFill
  <2> DEFINE p == [ticket |-> r.ticket, own |-> TRUE, stop |-> r.stop, target |-> r.target]
  <2>2. r.kind = "OPEN" /\ p.ticket \in late
    BY DEF SessionInv
  <2>3. book' \subseteq book \cup {p} /\ UNCHANGED <<late, stage>>
    BY <1>6, <2>1, <2>2, OpenDelivered DEF LateFill, sessionVars
  <2> HIDE DEF p
  <2>4. InTime' \subseteq InTime
    BY <2>2, <2>3 DEF InTime, Trades
  <2> QED BY <1>1, <2>3, <2>4
<1>7. ASSUME NEW p \in book, NEW result, Closes(p, result)
      PROVE  RoomForOne'
  BY <1>1, <1>7 DEF Closes, InTime, Trades
<1> QED
  BY <1>2, <1>3, <1>4, <1>5, <1>6, <1>7, CommissionRoom DEF DispatchNext

LEMMA RoomHolds == DispatchSpec => []RoomForOne
  BY InitRoom, NextRoom, SessionHolds, PTL DEF DispatchSpec

(* Of the trades whose orders were filled before they were answered no     *)
(* more are open than the rule allows, whatever becomes of the orders, the *)
(* process, the preflights and the positions meanwhile: every second trade *)
(* is a late fill (trade_pipeline.py:137).                                 *)
THEOREM EverySecondTradeIsLate == DispatchSpec => []NoSecondTradeInTime
<1>1. RoomForOne => NoSecondTradeInTime
  BY DEF RoomForOne, InTime, NoSecondTradeInTime
<1> QED BY <1>1, RoomHolds, PTL

-----------------------------------------------------------------------------
(* The latch of the engine: an observation never takes a breach back.      *)
LEMMA BreachIsKept ==
  ASSUME NEW m, NEW day, NEW equity, m.totalBreached
  PROVE  Observe(m, day, equity).totalBreached
  BY DEF Observe

LEMMA AllowedWithoutBreach ==
  ASSUME NEW m, NEW equity, NEW blackout, Allowed(StatusOf(m, equity, blackout))
  PROVE  ~m.totalBreached
  BY DEF Allowed, StatusOf, BlockingStatuses

LEMMA InitRemembered == DispatchInit => BreachRemembered
  BY DEF DispatchInit, BreachRemembered

LEMMA NextRemembered == SessionInv /\ BreachRemembered /\ [DispatchNext]_dispatchVars => BreachRemembered'
<1> SUFFICES ASSUME SessionInv, BreachRemembered, [DispatchNext]_dispatchVars PROVE BreachRemembered'
  OBVIOUS
<1> USE DEF BreachRemembered
<1>1. CASE Start
  BY <1>1 DEF Start, SessionInv, DispatchTypeOK
<1>2. ASSUME NEW passed, Commission(passed) PROVE BreachRemembered'
  BY <1>2 DEF Commission
<1>3. CASE Crash
  BY <1>3 DEF Crash, Dies
<1>4. ASSUME NEW equity, NEW stepLoss, Propose(equity, stepLoss) PROVE BreachRemembered'
  BY <1>4 DEF Propose
<1>5. CASE NotCommissioned
  BY <1>5 DEF NotCommissioned
<1>6. ASSUME NEW equity, NEW blackout, Judge(equity, blackout) PROVE BreachRemembered'
  <2>1. /\ memory' = Observe(memory, today, equity)
        /\ breached' = IF memory'.totalBreached THEN "now" ELSE breached
    BY <1>6 DEF Judge
  <2>2. stage' = "approved" => ~memory'.totalBreached
    BY <1>6, AllowedWithoutBreach DEF Judge
  <2>3. memory.totalBreached => memory'.totalBreached
    BY <2>1, BreachIsKept
  <2> QED BY <2>1, <2>2, <2>3
<1>7. ASSUME NEW outcome, NEW loss, Place(outcome, loss) PROVE BreachRemembered'
  BY <1>7 DEF Place, Dies
<1>8. ASSUME NEW p, NEW result, Closes(p, result) PROVE BreachRemembered'
  BY <1>8 DEF Closes
<1>9. CASE LateFill \/ PayIn \/ NewDay \/ UNCHANGED dispatchVars
  BY <1>9 DEF LateFill, PayIn, NewDay, dispatchVars, sessionVars
<1> QED
  BY <1>1, <1>2, <1>3, <1>4, <1>5, <1>6, <1>7, <1>8, <1>9 DEF DispatchNext

(* Once a session has seen the total breach, no trade of it is approved,   *)
(* whatever the equity does, is paid in, or day it becomes                 *)
(* (engine.py:314).                                                        *)
THEOREM BreachStopsTheSession == DispatchSpec => []BreachEndsSession
<1>1. BreachRemembered => BreachEndsSession
  BY DEF BreachRemembered, BreachEndsSession
<1> QED BY <1>1, InitRemembered, NextRemembered, SessionHolds, PTL DEF DispatchSpec

-----------------------------------------------------------------------------
(* The risk of the live profile: one trade at a time, judged by its        *)
(* headroom.  As long as no order was answered before it was filled, a     *)
(* poll past the gate has an account without positions, so what the engine *)
(* judged is the cash and the one trade is all that is at risk; and until  *)
(* that trade has closed no other poll gets as far, so the peak stays what *)
(* it was judged by.  A trade an earlier session left behind keeps the     *)
(* engine from being asked at all.                                         *)

UnderHeadroom == MaxOpenPositions = 1 /\ DailyLossMode = "DRAWDOWN_HEADROOM"

Bears(loss) == (cash - loss) * (Unit * Unit) >= HaltPoint(memory.peak)

PollIsAlone ==
  late = {} =>
    /\ stage # "idle" => book = {}
    /\ stage = "approved" => Bears(risked)

Judged ==
  /\ proc = "starting" => memory.peak = None
  /\ late = {} /\ proc = "polling" /\ memory.peak # None =>
       \A p \in book : book = {p} /\ Bears(p.stop - Slippage)

RiskInv == PollIsAlone /\ Judged

(* The sum of a fold over one position is its stop.                        *)
LEMMA RiskOfOne ==
  ASSUME NEW p, p.stop \in Nat
  PROVE  RiskOf({p}) = p.stop
<1> DEFINE Chosen(s) == CHOOSE x \in s : TRUE
           Sums(f) == [s \in SUBSET {p} |-> IF s = {} THEN 0 ELSE Chosen(s).stop + f[s \ {Chosen(s)}]]
           iter == CHOOSE f : f = Sums(f)
           sum == [s \in SUBSET {p} |-> IF s = {} THEN 0 ELSE p.stop]
<1>1. RiskOf({p}) = iter[{p}]
  BY DEF RiskOf, MapThenSumSet, MapThenFoldSet
<1>2. Chosen({p}) = p
  OBVIOUS
<1>3. sum = Sums(sum)
  <2>1. \A s \in SUBSET {p} : s = {} \/ s = {p}
    OBVIOUS
  <2>2. ASSUME NEW s \in SUBSET {p}
        PROVE  sum[s] = IF s = {} THEN 0 ELSE Chosen(s).stop + sum[s \ {Chosen(s)}]
    <3> HIDE DEF Chosen
    <3>1. CASE s = {}
      BY <3>1
    <3>2. CASE s = {p}
      <4>1. s \ {Chosen(s)} = {} /\ {} \in SUBSET {p} /\ s # {}
        BY <1>2, <3>2
      <4>2. sum[s \ {Chosen(s)}] = 0
        BY <4>1
      <4>3. sum[s] = p.stop /\ Chosen(s) = p
        BY <1>2, <3>2
      <4> HIDE DEF sum
      <4> QED BY <4>1, <4>2, <4>3
    <3> QED BY <2>1, <3>1, <3>2
  <2> QED BY <2>2
<1>4. iter = Sums(iter)
  BY <1>3
<1>5. iter[{p}] = Chosen({p}).stop + iter[{}]
  <2> HIDE DEF iter, Chosen
  <2>1. {p} \in SUBSET {p} /\ {p} # {} /\ {p} \ {Chosen({p})} = {}
    BY <1>2
  <2> QED BY <1>4, <2>1
<1>6. iter[{}] = 0
  <2> HIDE DEF iter, Chosen
  <2>1. {} \in SUBSET {p}
    OBVIOUS
  <2> QED BY <1>4, <2>1
<1> QED BY <1>1, <1>2, <1>5, <1>6

LEMMA HaltPointType == ASSUME NEW peak \in Nat PROVE HaltPoint(peak) \in Int
  BY ConfigAssumption DEF HaltPoint, EffectiveTotalLimit

(* Whoever bears a loss bears it with more money too.                      *)
LEMMA BearsMore ==
  ASSUME NEW a \in Int, NEW b \in Int, a <= b, NEW h \in Int,
         a * (Unit * Unit) >= h
  PROVE  b * (Unit * Unit) >= h
<1>1. PICK u \in Nat : u = Unit * Unit
  BY ConfigAssumption
<1>2. a * u <= b * u
  BY <1>1
<1> QED BY <1>1, <1>2

LEMMA LessLeft ==
  ASSUME NEW a \in Nat, NEW b \in Nat, a <= b, NEW loss \in Int
  PROVE  a - loss \in Int /\ b - loss \in Int /\ a - loss <= b - loss
  OBVIOUS

(* A trade that the headroom admits can be borne by the equity it saw.     *)
LEMMA HeadroomIsBorne ==
  ASSUME UnderHeadroom, NEW m \in Memory, NEW equity \in Nat, NEW loss \in Nat \ {0},
         ~HeadroomRejects(m, equity, loss)
  PROVE  (equity - loss) * (Unit * Unit) >= HaltPoint(m.peak)
<1>1. HaltPoint(m.peak) \in Int
  BY HaltPointType DEF Memory
<1>2. PICK halt \in Int : halt = HaltPoint(m.peak)
  BY <1>1
<1>3. loss * Unit * Unit <= Higher(0, equity * Unit * Unit - halt)
  <2>1. ~(loss * Unit * Unit > Higher(0, equity * Unit * Unit - halt))
    BY <1>2 DEF UnderHeadroom, HeadroomRejects, Headroom
  <2>2. /\ loss * Unit * Unit \in Int
        /\ Higher(0, equity * Unit * Unit - halt) \in Int
    BY ConfigAssumption DEF Higher
  <2> QED BY <2>1, <2>2
<1>4. PICK u \in Nat \ {0} : u = Unit * Unit
  BY ConfigAssumption
<1>5. loss * Unit * Unit = loss * u /\ equity * Unit * Unit = equity * u
  BY <1>4, ConfigAssumption
<1>6. loss * u > 0
  BY <1>4
<1>7. PICK lost \in Int, had \in Int : lost = loss * u /\ had = equity * u
  BY <1>4
<1>8. lost <= Higher(0, had - halt) /\ lost > 0
  BY <1>3, <1>5, <1>6, <1>7
<1>9. had - lost >= halt
  BY <1>8 DEF Higher
<1>10. (equity - loss) * u = had - lost
  BY <1>4, <1>7
<1> QED BY <1>2, <1>4, <1>9, <1>10

-----------------------------------------------------------------------------
LEMMA InitRisk == DispatchInit => RiskInv
  BY DEF DispatchInit, RiskInv, PollIsAlone, Judged

(* With room for one and no poll under way, an account that shows fewer    *)
(* positions than the rule allows shows none.                              *)
LEMMA NoneWhereFewer ==
  ASSUME UnderHeadroom, IsFiniteSet(book), Cardinality(book) < MaxOpenPositions
  PROVE  book = {}
<1>1. Cardinality(book) = 0
  BY FS_CardinalityType DEF UnderHeadroom
<1> QED BY <1>1, FS_EmptySet

LEMMA NextRisk ==
  ASSUME UnderHeadroom, SessionInv, SessionInv', RiskInv, [DispatchNext]_dispatchVars
  PROVE  RiskInv'
<1> USE DEF RiskInv, PollIsAlone, Judged, Bears
<1>0. /\ cash \in Nat /\ risked \in Nat /\ memory \in Memory /\ today \in Nat
      /\ memory.peak \in Nat /\ memory'.peak \in Nat /\ HaltPoint(memory.peak) \in Int
      /\ stage # "idle" => proc = "polling"
      /\ \A p \in book : p.stop \in Nat
      /\ late = {} => flight = {}
  <2>1. /\ cash \in Nat /\ risked \in Nat /\ memory \in Memory /\ today \in Nat
        /\ memory' \in Memory /\ (stage # "idle" => proc = "polling")
        /\ \A p \in book : p.stop \in Nat
    BY BoundTypes DEF SessionInv, DispatchTypeOK, BrokerTypeOK, Positions
  <2>2. memory.peak \in Nat /\ memory'.peak \in Nat
    BY <2>1 DEF Memory
  <2>3. late = {} => flight = {}
    BY DEF SessionInv
  <2> QED BY <2>1, <2>2, <2>3, HaltPointType
<1>1. CASE Start
  BY <1>0, <1>1 DEF Start, FreshMemory, None
<1>2. ASSUME NEW passed, Commission(passed)
      PROVE  RiskInv'
  BY <1>0, <1>2 DEF Commission
<1>3. CASE Crash
  BY <1>3 DEF Crash, Dies
<1>4. ASSUME NEW equity, NEW stepLoss, Propose(equity, stepLoss)
      PROVE  RiskInv'
  <2>1. book = {}
    BY <1>4, NoneWhereFewer DEF Propose, SessionInv
  <2> QED BY <1>4, <2>1 DEF Propose, brokerVars
<1>5. CASE NotCommissioned
  BY <1>5 DEF NotCommissioned, brokerVars
<1>6. ASSUME NEW equity \in Readings, NEW blackout, Judge(equity, blackout)
      PROVE  RiskInv'
  <2>1. /\ stage = "sized" /\ proc = "polling" /\ risked > 0
        /\ UNCHANGED <<cash, proc, late, book>>
    BY <1>0, <1>6 DEF Judge, brokerVars, SessionInv
  <2>2. CASE late = {}
    <3>1. book = {} /\ equity = cash
      BY <2>1, <2>2 DEF Readings
    <3>2. memory' \in Memory
      BY DEF SessionInv, DispatchTypeOK
    <3>3. stage' = "approved" =>
            risked' = risked /\ ~HeadroomRejects(memory', cash, risked)
      BY <1>6, <3>1 DEF Judge
    <3>4. stage' = "approved" => (cash - risked') * (Unit * Unit) >= HaltPoint(memory'.peak)
      BY <1>0, <2>1, <3>2, <3>3, HeadroomIsBorne
    <3> QED BY <2>1, <3>1, <3>4
  <2>3. CASE late # {}
    BY <2>1, <2>3
  <2> QED BY <2>2, <2>3
<1>7. ASSUME NEW outcome, NEW loss \in 1..(risked + Slippage), Place(outcome, loss)
      PROVE  RiskInv'
  <2> DEFINE r == [kind |-> "OPEN", ticket |-> lastTicket + 1, stop |-> loss, target |-> FALSE]
             p == [ticket |-> r.ticket, own |-> TRUE, stop |-> r.stop, target |-> r.target]
  <2>1. /\ stage' = "idle" /\ stage = "approved" /\ proc = "polling" /\ proc' \in {proc, "down"}
        /\ UNCHANGED <<cash, memory>>
        /\ Send(r, outcome) /\ late' = IF r \in flight' THEN late \cup {r.ticket} ELSE late
    BY <1>0, <1>7 DEF Place, Dies
  <2>2. r.kind = "OPEN" /\ p.stop = loss
    OBVIOUS
  <2> HIDE DEF r, p
  <2>3. ASSUME late' = {} PROVE \A q \in book' : book' = {q} /\ Bears(q.stop - Slippage)'
    <3>1. late = {} /\ r \notin flight' /\ book = {} /\ Bears(risked)
      BY <2>1, <2>3
    <3>2. book' = {} \/ book' = {p}
      <4>1. book' = book \/ book' = book \cup {p}
        BY <2>1, <2>2, OpenCases DEF p
      <4> QED BY <3>1, <4>1
    <3>3. cash - risked <= cash - (loss - Slippage) /\ cash - (loss - Slippage) \in Int
          /\ cash - risked \in Int
      BY <1>0, <1>7, BoundTypes
    <3>4. Bears(loss - Slippage)
      BY <1>0, <3>1, <3>3, BearsMore
    <3> QED BY <2>1, <2>2, <3>2, <3>4
  <2> QED BY <2>1, <2>3
<1>8. CASE LateFill
  <2>1. late # {} /\ UNCHANGED <<late, proc, memory>>
    BY <1>0, <1>8 DEF LateFill, sessionVars
  <2> QED BY <2>1
<1>9. ASSUME NEW p \in book, NEW result, Closes(p, result)
      PROVE  RiskInv'
  <2>1. book' = book \ {p} /\ UNCHANGED <<late, proc, memory, stage>>
    BY <1>9 DEF Closes
  <2>2. late = {} => stage = "idle"
    OBVIOUS
  <2>3. late = {} /\ proc = "polling" /\ memory.peak # None => book' = {}
    BY <2>1
  <2> QED BY <2>1, <2>2, <2>3
<1>10. CASE PayIn
  <2>1. /\ cash' \in Nat /\ cash <= cash'
        /\ UNCHANGED <<late, proc, memory, stage, risked, book>>
    BY <1>0, <1>10, BoundTypes DEF PayIn, brokerVars
  <2>2. ASSUME NEW loss \in Int, Bears(loss)
        PROVE  (cash' - loss) * (Unit * Unit) >= HaltPoint(memory.peak)
    <3>1. cash - loss \in Int /\ cash' - loss \in Int /\ cash - loss <= cash' - loss
      BY <1>0, <2>1, LessLeft
    <3> QED BY <1>0, <2>2, <3>1, BearsMore
  <2>3. \A p \in book : p.stop - Slippage \in Int
    BY <1>0, BoundTypes
  <2> QED BY <1>0, <2>1, <2>2, <2>3
<1>11. CASE NewDay
  BY <1>11 DEF NewDay, brokerVars
<1>12. CASE UNCHANGED dispatchVars
  BY <1>12 DEF dispatchVars, sessionVars, brokerVars
<1> QED
  BY <1>1, <1>2, <1>3, <1>4, <1>5, <1>6, <1>7, <1>8, <1>9, <1>10, <1>11, <1>12 DEF DispatchNext

LEMMA RiskInvHolds == ASSUME UnderHeadroom PROVE DispatchSpec => []RiskInv
<1>1. SessionInv /\ SessionInv' /\ RiskInv /\ [DispatchNext]_dispatchVars => RiskInv'
  BY NextRisk
<1> QED BY <1>1, InitRisk, SessionHolds, PTL DEF DispatchSpec

(* Under the live profile's rules (one trade at a time, the headroom gate) *)
(* and while no order was answered before it was filled, the loss of what  *)
(* is open in full carries the equity below the halt point the session     *)
(* knows by no more than the fill was away from the price it was judged    *)
(* at, whatever the sizes, the limits, the payments, the preflights and    *)
(* the crashes (live_dispatch.py:199).                                     *)
THEOREM LossStaysNearHalt == ASSUME UnderHeadroom PROVE DispatchSpec => []RiskIsBounded
<1>1. SessionInv /\ RiskInv => RiskIsBounded
  <2> SUFFICES ASSUME SessionInv, RiskInv, proc = "polling", memory.peak # None, Trades # {},
                      late = {}
               PROVE  (cash - RiskOf(book) + Slippage) * Unit * Unit >= HaltPoint(memory.peak)
    BY DEF RiskIsBounded, OpenRiskIsWithinSlippage, AtStake, SessionInv
  <2>1. PICK p \in book : book = {p} /\ Bears(p.stop - Slippage)
    BY DEF RiskInv, Judged, Trades
  <2>2. p.stop \in Nat /\ cash \in Nat /\ Slippage \in Nat
    BY BoundTypes DEF SessionInv, DispatchTypeOK, BrokerTypeOK, Positions
  <2>3. RiskOf(book) = p.stop
    BY <2>1, <2>2, RiskOfOne
  <2>4. cash - (p.stop - Slippage) = cash - p.stop + Slippage
    BY <2>2
  <2>5. PICK left \in Int : left = cash - p.stop + Slippage
    BY <2>2
  <2>6. left * Unit * Unit = left * (Unit * Unit)
    BY ConfigAssumption
  <2> QED BY <2>1, <2>3, <2>4, <2>5, <2>6 DEF Bears
<1> QED BY <1>1, RiskInvHolds, SessionHolds, PTL
=============================================================================
