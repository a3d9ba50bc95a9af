------------------------------ MODULE Closeout ------------------------------
(***************************************************************************)
(* The two batch jobs of vo.execution, run on the account a preflight has  *)
(* left behind: the breach closeout (compliance_closeout.py) closes every  *)
(* position and cancels every pending order, the restart reconciliation    *)
(* (reconciliation.py) closes every position this EA did not open.  Both   *)
(* are handed what the account showed once and then send one request after *)
(* another, while requests still in flight are carried out, positions      *)
(* close and pending orders become positions.                              *)
(*                                                                         *)
(* Nothing in vo.execution leaves an order pending (OPEN is a market       *)
(* deal), so the pending orders are the user's.                            *)
(***************************************************************************)
EXTENDS Preflight

CONSTANT Pending  \* the tickets of the orders that are pending at first

ASSUME PendingAssumption ==
  Pending \subseteq {t \in Nat \ {0} : t # NewTicket /\ \A p \in Prior : p.ticket # t}

VARIABLES
  orders,      \* the pending orders
  cancelling,  \* the orders whose cancel is accepted but not carried out
  job,         \* the job, a closeout for a breach being "CLOSEOUT"
  at,          \* how far the job is
  toClose,     \* what is left of positions_to_close, or of report.to_close
  toCancel,    \* what is left of orders_to_cancel
  results,     \* the OrderResult of every request answered, with what it was sent for
  opening      \* history: an OPEN was in flight when the job was planned

jobVars == <<job, at, toClose, toCancel, results, opening>>
orderVars == <<orders, cancelling>>
allVars == <<vars, orderVars, jobVars>>

Verdicts == {"SAFE", "WARNING", "CRITICAL", "NEWS_BLACKOUT", "BREACHED_DAILY", "BREACHED_TOTAL"}

CloseoutTypeOK ==
  /\ TypeOK
  /\ cancelling \subseteq orders /\ orders \subseteq Pending
  /\ job \in {"NONE", "CLOSEOUT", "RECONCILE"}
  /\ at \in {"IDLE", "SENDING", "RETURNED", "RAISED"}
  /\ toClose \subseteq Positions /\ toCancel \subseteq Pending
  /\ results \subseteq [ticket: Nat, retcode: Retcodes]
  /\ opening \in BOOLEAN

CloseoutInit ==
  /\ Init
  /\ orders = Pending
  /\ cancelling = {}
  /\ job = "NONE"
  /\ at = "IDLE"
  /\ toClose = {}
  /\ toCancel = {}
  /\ results = {}
  /\ opening = FALSE

-----------------------------------------------------------------------------
(* The orders at the broker: one is triggered, or its cancel arrives.      *)

Trigger(o) ==
  /\ o \in orders
  /\ orders' = orders \ {o}
  /\ cancelling' = cancelling \ {o}
  /\ book' = book \cup {[ticket |-> o, own |-> FALSE, stop |-> FirstStop, target |-> TRUE]}
  /\ UNCHANGED <<closed, flight>>

Removed(o) ==
  /\ o \in cancelling
  /\ orders' = orders \ {o}
  /\ cancelling' = cancelling \ {o}
  /\ UNCHANGED brokerVars

(* send_order of a CANCEL: retcode 10035 or None for an order that is gone. *)
SendCancel(o, outcome) ==
  \/ /\ o \in orders
     /\ \/ /\ outcome \in {"done", "raised"}
           /\ orders' = orders \ {o} /\ cancelling' = cancelling \ {o}
        \/ /\ outcome \in {"placed", "raised"}
           /\ cancelling' = cancelling \cup {o} /\ UNCHANGED orders
  \/ outcome \in {"rejected", "raised"} /\ UNCHANGED orderVars

-----------------------------------------------------------------------------
Breached == {"BREACHED_DAILY", "BREACHED_TOTAL"}

(* Mutant: only the breach of the account's total limit closes it out.     *)
TriggersOnTotal(status) == status = "BREACHED_TOTAL"

Triggers(status) == status \in Breached

(* Mutant: the plan forgets the pending orders.                            *)
PlanPositionsOnly(status) ==
  /\ job' = IF status \in Breached THEN "CLOSEOUT" ELSE "NONE"
  /\ toClose' = IF Triggers(status) THEN book ELSE {}
  /\ toCancel' = {}
  /\ at' = "SENDING"

(* An untriggered plan carries nothing, and executing it sends nothing.    *)
PlanBreachCloseout(status) ==
  /\ job' = IF status \in Breached THEN "CLOSEOUT" ELSE "NONE"
  /\ toClose' = IF Triggers(status) THEN book ELSE {}
  /\ toCancel' = IF Triggers(status) THEN orders ELSE {}
  /\ at' = IF Triggers(status) THEN "SENDING" ELSE "RETURNED"

(* Mutant: the magic number is compared the wrong way round.               *)
UnrecognizedInverted == {p \in book : p.own}

(* _default_policy: recognized by the magic number, and closed otherwise.  *)
Unrecognized == {p \in book : ~p.own}

Reconcile ==
  /\ job' = "RECONCILE"
  /\ toClose' = Unrecognized
  /\ toCancel' = {}
  /\ at' = "SENDING"

(* The commissioning has ended and its report is handed over: nothing of   *)
(* it is left but the account.                                             *)
Forgotten ==
  /\ pc' = "ESCAPED"
  /\ handling' = FALSE
  /\ opened' = NoPosition
  /\ seen' = NoPosition
  /\ steps' = <<>>
  /\ cleanupVerified' = TRUE
  /\ closed' = {}

(* One job is run on the account.                                          *)
StartJob ==
  /\ pc \in {"RETURNED", "ESCAPED"}
  /\ at = "IDLE"
  /\ \/ \E status \in Verdicts : PlanBreachCloseout(status)
     \/ Reconcile
  /\ opening' = \E r \in flight : r.kind = "OPEN"
  /\ Forgotten
  /\ UNCHANGED <<results, book, flight, orderVars>>

(* The results are in the order of the plan, so each has its position or   *)
(* order; the retcode is in it whether it counts as approved or not.       *)
Answer(ticket, outcome) ==
  IF outcome = "raised" THEN at' = "RAISED" /\ UNCHANGED results
  ELSE /\ results' = results \cup {[ticket |-> ticket, retcode |-> outcome]}
       /\ UNCHANGED at

CloseRequest(p) == [kind |-> "CLOSE", ticket |-> p.ticket, stop |-> p.stop, target |-> p.target]

(* The next position of the plan, in whatever order the plan lists them.   *)
ClosePosition(p) ==
  /\ at = "SENDING"
  /\ \E outcome \in Outcomes :
       /\ Send(CloseRequest(p), outcome)
       /\ Answer(p.ticket, outcome)
  /\ toClose' = toClose \ {p}
  /\ UNCHANGED <<job, toCancel, opening, orderVars, runVars>>

(* The positions first: an order that never fills is no risk.              *)
CancelOrder(o) ==
  /\ at = "SENDING"
  /\ toClose = {}
  /\ \E outcome \in Outcomes :
       /\ SendCancel(o, outcome)
       /\ Answer(o, outcome)
  /\ toCancel' = toCancel \ {o}
  /\ UNCHANGED <<job, toClose, opening, vars>>

JobReturns ==
  /\ at = "SENDING"
  /\ toClose = {}
  /\ toCancel = {}
  /\ at' = "RETURNED"
  /\ UNCHANGED <<job, toClose, toCancel, results, opening, vars, orderVars>>

Job ==
  \/ \E p \in toClose : ClosePosition(p)
  \/ \E o \in toCancel : CancelOrder(o)
  \/ JobReturns

(* Before the commissioning has ended an order that is triggered is one    *)
(* more of the user's positions.                                           *)
OrderStep ==
  /\ pc \in {"RETURNED", "ESCAPED"}
  /\ \E o \in orders : Trigger(o) \/ Removed(o)
  /\ UNCHANGED <<runVars, jobVars>>

CloseoutNext ==
  \/ Next /\ UNCHANGED <<orderVars, jobVars>>
  \/ StartJob
  \/ Job
  \/ OrderStep

(* A job that was started is a loop of calls that return or raise.         *)
CloseoutSpec ==
  /\ CloseoutInit
  /\ [][CloseoutNext]_allVars
  /\ WF_vars(Runner)
  /\ WF_allVars(Job)

-----------------------------------------------------------------------------
(* Properties.                                                             *)

Named(ticket) == \E r \in results : r.ticket = ticket /\ r.retcode # "done"

(* What execute_breach_closeout and execute_reconciliation_actions return  *)
(* is the account of the risk that is left.  When a closeout for a breach  *)
(* has returned, every open position is named by a result whose retcode is *)
(* not DONE (refused, filled in part or only placed; the last two count as *)
(* approved): also one whose pending order was triggered after the plan.   *)
(* The one exception is a position whose OPEN was still in flight when the *)
(* plan was made.  When a reconciliation has returned the same holds of    *)
(* the positions this EA did not open and that were open at its scan, and  *)
(* no result names a position of the EA's own.                             *)
ResultsNameTheRiskLeft ==
  at = "RETURNED" =>
    /\ job = "CLOSEOUT" =>
         \A p \in book : Named(p.ticket) \/ (opening /\ p.ticket = NewTicket)
    /\ job = "RECONCILE" =>
         /\ \A p \in book : p.own \/ p.ticket \in Pending \/ Named(p.ticket)
         /\ \A r \in results : r.ticket # NewTicket /\ ~OwnBefore(r.ticket)

(* The reports of the three programs are true: a preflight that passed on  *)
(* its position had both levels on it, and the results of a batch job name *)
(* what it has left open.                                                  *)
ReportsAreTrue == CloseoutTypeOK /\ PassedWithBothLevels /\ ResultsNameTheRiskLeft

(* The preflight ends, and so does every job that was started, whatever    *)
(* the broker answers: neither tries anything twice.                       *)
RunsEnd == RunEnds /\ (at = "SENDING" ~> at \in {"RETURNED", "RAISED"})
=============================================================================
