----------------------------- MODULE Preflight -----------------------------
(***************************************************************************)
(* vo.execution.preflight.PreflightSequence.run: open one minimal          *)
(* position, protect it, trail its stop, close it, and verify each step    *)
(* against the account's positions.  One action per call the runner makes, *)
(* so everything the broker may do between two calls can happen there.     *)
(* Only the order of stop levels matters: none, the first stop, the        *)
(* trailed one.                                                            *)
(***************************************************************************)
EXTENDS Broker, Sequences, SequencesExt

CONSTANTS
  Prior,      \* the positions the account already has
  NewTicket   \* the ticket the broker will give the preflight's position

NoStop == 0
FirstStop == 1      \* price_open - stop_distance
TrailedStop == 2    \* FirstStop + trail_improvement

ASSUME PriorAssumption ==
  /\ Prior \subseteq Positions
  /\ \A p, q \in Prior : p.ticket = q.ticket => p = q
  /\ NewTicket \in Nat
  /\ \A p \in Prior : p.ticket < NewTicket
  /\ NewTicket > 0
  /\ NoPosition \notin Positions

VARIABLES
  pc,               \* the step run is about to take
  handling,         \* inside run's except clause
  opened,           \* the position _find_opened returned
  seen,             \* the result of the latest _refresh
  steps,            \* report.steps
  cleanupVerified   \* report.cleanup_verified

runVars == <<pc, handling, opened, seen, steps, cleanupVerified>>

vars == <<runVars, brokerVars>>

Steps == {"OPEN_POSITION", "VERIFY_OPEN", "SET_PROTECTIVE_LEVELS", "VERIFY_LEVELS",
          "TRAIL_STOP", "VERIFY_TRAIL", "CLOSE_POSITION", "VERIFY_CLOSED"}

(* FINISH is _finish's first _refresh; RETURNED and ESCAPED are its ends.  *)
Labels == Steps \cup {"FINISH", "RETURNED", "ESCAPED"}

TypeOK ==
  /\ BrokerTypeOK
  /\ pc \in Labels
  /\ handling \in BOOLEAN
  /\ opened \in Positions \cup {NoPosition}
  /\ seen \in Positions \cup {NoPosition}
  /\ steps \in Seq([step: Steps, ok: BOOLEAN])
  /\ cleanupVerified \in BOOLEAN

Init ==
  /\ book = Prior
  /\ closed = {}
  /\ flight = {}
  /\ pc = "OPEN_POSITION"
  /\ handling = FALSE
  /\ opened = NoPosition
  /\ seen = NoPosition
  /\ steps = <<>>
  /\ cleanupVerified = TRUE

-----------------------------------------------------------------------------
Records(step, ok) == steps' = Append(steps, [step |-> step, ok |-> ok])

(* The step is recorded; the run goes on, or goes to _finish.              *)
Concludes(step, ok, next) ==
  /\ Records(step, ok)
  /\ pc' = IF ok THEN next ELSE "FINISH"
  /\ UNCHANGED handling

(* The except clause records a failed CLOSE_POSITION and runs _finish; an  *)
(* exception raised in there leaves run.                                   *)
Raises ==
  /\ IF handling THEN pc' = "ESCAPED" /\ UNCHANGED steps
                 ELSE pc' = "FINISH" /\ Records("CLOSE_POSITION", FALSE)
  /\ handling' = TRUE

Calls(step, request, next) ==
  \E outcome \in Outcomes :
    /\ Send(request, outcome)
    /\ IF outcome = "raised" THEN Raises
                             ELSE Concludes(step, outcome \in Approved, next)
    /\ UNCHANGED <<opened, seen, cleanupVerified>>

(* positions_now raises.                                                   *)
LookRaises ==
  /\ \/ pc \in {"VERIFY_OPEN", "VERIFY_LEVELS", "VERIFY_TRAIL", "VERIFY_CLOSED"}
     \/ pc = "FINISH" /\ opened # NoPosition
  /\ Raises
  /\ UNCHANGED <<opened, seen, cleanupVerified, brokerVars>>

OpenPosition ==
  /\ pc = "OPEN_POSITION"
  /\ Calls("OPEN_POSITION",
           [kind |-> "OPEN", ticket |-> NewTicket, stop |-> NoStop, target |-> FALSE],
           "VERIFY_OPEN")

Own == {p \in book : p.own}

(* _find_opened: own[-1], the latest of this EA's positions.               *)
FindOpened ==
  IF Own = {} THEN NoPosition
  ELSE CHOOSE p \in Own : \A q \in Own : q.ticket <= p.ticket

VerifyOpen ==
  /\ pc = "VERIFY_OPEN"
  /\ opened' = FindOpened
  /\ Concludes("VERIFY_OPEN", opened' # NoPosition, "SET_PROTECTIVE_LEVELS")
  /\ UNCHANGED <<seen, cleanupVerified, brokerVars>>

(* build_modify_request refuses to loosen the stop it was handed, before   *)
(* anything is sent.                                                       *)
Modifies(step, position, stop, target, next) ==
  IF stop < position.stop
    THEN Raises /\ UNCHANGED <<opened, seen, cleanupVerified, brokerVars>>
    ELSE Calls(step, [kind |-> "MODIFY", ticket |-> position.ticket,
                      stop |-> stop, target |-> target], next)

SetProtectiveLevels ==
  /\ pc = "SET_PROTECTIVE_LEVELS"
  /\ Modifies("SET_PROTECTIVE_LEVELS", opened, FirstStop, TRUE, "VERIFY_LEVELS")

VerifyLevels ==
  /\ pc = "VERIFY_LEVELS"
  /\ seen' = Refresh(opened.ticket)
  /\ Concludes("VERIFY_LEVELS",
               /\ seen' # NoPosition
               /\ seen'.stop # NoStop
               /\ seen'.target, "TRAIL_STOP")
  /\ UNCHANGED <<opened, cleanupVerified, brokerVars>>

(* Mutant: the trail names the stop alone, and SLTP deletes the target.    *)
TrailStopAlone ==
  /\ pc = "TRAIL_STOP"
  /\ Modifies("TRAIL_STOP", seen, TrailedStop, FALSE, "VERIFY_TRAIL")

TrailStop ==
  /\ pc = "TRAIL_STOP"
  /\ Modifies("TRAIL_STOP", seen, TrailedStop, seen.target, "VERIFY_TRAIL")

VerifyTrail ==
  /\ pc = "VERIFY_TRAIL"
  /\ LET after == Refresh(opened.ticket)
     IN  Concludes("VERIFY_TRAIL", after # NoPosition /\ after.stop > seen.stop, "FINISH")
  /\ UNCHANGED <<opened, seen, cleanupVerified, brokerVars>>

-----------------------------------------------------------------------------
(* _finish.                                                                *)

Returns ==
  /\ pc' = "RETURNED"
  /\ UNCHANGED handling

FinishNothing ==
  /\ pc = "FINISH"
  /\ opened = NoPosition
  /\ Returns
  /\ UNCHANGED <<opened, seen, steps, cleanupVerified, brokerVars>>

(* Mutant: _finish looks for the newest position again.                    *)
FinishLookAgain ==
  /\ pc = "FINISH"
  /\ opened # NoPosition
  /\ seen' = FindOpened
  /\ pc' = IF seen' = NoPosition THEN "VERIFY_CLOSED" ELSE "CLOSE_POSITION"
  /\ UNCHANGED <<handling, opened, steps, cleanupVerified, brokerVars>>

FinishLook ==
  /\ pc = "FINISH"
  /\ opened # NoPosition
  /\ seen' = Refresh(opened.ticket)
  /\ pc' = IF seen' = NoPosition THEN "VERIFY_CLOSED" ELSE "CLOSE_POSITION"
  /\ UNCHANGED <<handling, opened, steps, cleanupVerified, brokerVars>>

(* Mutant: a rejected close is tried again until it is accepted.           *)
FinishCloseRetries ==
  /\ pc = "CLOSE_POSITION"
  /\ \E outcome \in Outcomes :
       /\ Send([kind |-> "CLOSE", ticket |-> seen.ticket, stop |-> seen.stop,
                target |-> seen.target], outcome)
       /\ CASE outcome = "raised" -> Raises
            [] outcome = "rejected" -> pc' = "FINISH" /\ UNCHANGED <<steps, handling>>
            [] outcome \in Approved -> /\ Records("CLOSE_POSITION", TRUE)
                                       /\ pc' = "VERIFY_CLOSED"
                                       /\ UNCHANGED handling
  /\ UNCHANGED <<opened, seen, cleanupVerified>>

FinishClose ==
  /\ pc = "CLOSE_POSITION"
  /\ \E outcome \in Outcomes :
       /\ Send([kind |-> "CLOSE", ticket |-> seen.ticket, stop |-> seen.stop,
                target |-> seen.target], outcome)
       /\ IF outcome = "raised" THEN Raises
          ELSE /\ Records("CLOSE_POSITION", outcome \in Approved)
               /\ pc' = "VERIFY_CLOSED"
               /\ UNCHANGED handling
  /\ UNCHANGED <<opened, seen, cleanupVerified>>

(* Mutant: the cleanup is verified by the retcode of the close.            *)
FinishTrustsRetcode ==
  /\ pc = "VERIFY_CLOSED"
  /\ cleanupVerified' = Last(steps).ok
  /\ Records("VERIFY_CLOSED", Last(steps).ok)
  /\ Returns
  /\ UNCHANGED <<opened, seen, brokerVars>>

FinishVerify ==
  /\ pc = "VERIFY_CLOSED"
  /\ cleanupVerified' = ~Holds(opened.ticket)
  /\ Records("VERIFY_CLOSED", ~Holds(opened.ticket))
  /\ Returns
  /\ UNCHANGED <<opened, seen, brokerVars>>

-----------------------------------------------------------------------------
Runner ==
  \/ OpenPosition
  \/ VerifyOpen
  \/ SetProtectiveLevels
  \/ VerifyLevels
  \/ TrailStop
  \/ VerifyTrail
  \/ FinishNothing
  \/ FinishLook
  \/ FinishClose
  \/ FinishVerify
  \/ LookRaises

(* The broker may go on after the run has ended.                           *)
Next == Runner \/ (BrokerStep /\ UNCHANGED runVars)

Spec == Init /\ [][Next]_vars /\ WF_vars(Runner)

-----------------------------------------------------------------------------
(* Properties.                                                             *)

AllOk == \A i \in DOMAIN steps : steps[i].ok

(* PreflightReport.passed of a report that was returned.                   *)
Passed == pc = "RETURNED" /\ cleanupVerified /\ steps # <<>> /\ AllOk

WasClosed(ticket) == \E p \in closed : p.ticket = ticket

(* cleanup_verified, "the difference between a failed self-test and an     *)
(* orphaned live position": once the run has seen its position, a returned *)
(* report that verifies the cleanup is about a position that has closed,   *)
(* and stays closed whatever is still in flight.                           *)
VerifiedCleanupIsReal ==
  (pc = "RETURNED" /\ opened # NoPosition /\ cleanupVerified)
    => ~Holds(opened.ticket) /\ WasClosed(opened.ticket)

(* The EA had a position under this ticket before the run.                 *)
OwnBefore(ticket) == \E p \in Prior : p.own /\ p.ticket = ticket

(* A run that passed on the position it opened ended with that position    *)
(* fully protected: it closed carrying the trailed stop and still its      *)
(* target.  Moving the stop alone would have deleted the target, and no    *)
(* step looks at the target after the trail.  The one other way to pass is *)
(* on a position this EA had before, while the order to open is still on   *)
(* its way or lost.                                                        *)
PassedWithBothLevels ==
  Passed =>
    /\ opened # NoPosition
    /\ \/ OwnBefore(opened.ticket)
       \/ \E p \in closed :
            p.ticket = NewTicket /\ opened.ticket = NewTicket /\ p.stop = TrailedStop /\ p.target

(* preflight.py: "the runner always attempts to close what it opened".     *)
(* What the order of a run that passed has opened is open no more: not so  *)
(* where the run passed on a position this EA had before.                  *)
PassedClosedItsOwn == Passed => ~Holds(NewTicket)

(* No step of the preflight touches a position of the user's, and of this  *)
(* EA's at most one: the one its order opens, or the one _find_opened took *)
(* for it, even where an earlier run has left several behind.              *)
TouchesOnlyItsOwn ==
  [][Runner => \A p \in (book \ book') \cup (book' \ book) :
                 /\ p.own
                 /\ p.ticket = IF opened = NoPosition THEN NewTicket ELSE opened.ticket]_vars

(* A run always ends, whatever the broker answers: every failed step leads *)
(* to _finish once, and _finish never retries.                             *)
RunEnds == <>(pc \in {"RETURNED", "ESCAPED"})
=============================================================================
