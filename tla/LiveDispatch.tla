---------------------------- MODULE LiveDispatch ----------------------------
(***************************************************************************)
(* One session of the live EA, from the poll that proposes a trade to the  *)
(* order: VOEaRuntime.poll_once, evaluate_trade_pipeline (allocate,        *)
(* evaluate_risk), LiveDispatcher.dispatch (commissioned, on_snapshot,     *)
(* headroom_rejection, approve_trade) and ExecutionRouter.place, over the  *)
(* broker and the compliance engine.  The runtime is one thread, but the   *)
(* market, the broker and a crash take their steps between its own.        *)
(*                                                                         *)
(* Here a position's stop is the money it loses when the stop is hit, at   *)
(* most Slippage more than was judged: the loss is judged from the         *)
(* signal's price, and the order is filled at the market's.                *)
(* What has closed is in the cash; nothing asks for the position itself,   *)
(* and closed stays empty.                                                 *)
(* Equity is the account's cash while nothing is open; while a position is *)
(* open a read may find it anywhere down to the stops and up to Gain.      *)
(***************************************************************************)
EXTENDS ComplianceEngine, Broker, FiniteSetsExt

CONSTANTS
  RiskFraction,      \* risk_per_trade_fraction, in Unit-ths
  MaxOpenPositions,  \* max_open_positions
  MinSteps,          \* min_volume, in volume steps
  MaxSteps,          \* max_volume, in volume steps
  StepLosses,        \* what one volume step may lose between entry and stop
  StartCash,         \* the cash the account starts with
  Gain,              \* what a position may gain
  Gap,               \* how far beyond its stop a position may close
  Slippage,          \* what the fill may add to the loss judged
  Deposit,           \* what the user may pay in at once
  MaxCash,           \* bound: the account never grows beyond this
  MaxTicket,         \* bound: tickets are 1..MaxTicket
  MaxDay             \* bound: trading days are 1..MaxDay

ASSUME SessionAssumption ==
  /\ RiskFraction \in 1..Unit
  /\ MaxOpenPositions \in Nat \ {0}
  /\ MinSteps \in Nat \ {0}
  /\ MaxSteps \in Nat \ {0}
  /\ StepLosses \subseteq Nat \ {0}
  /\ {StartCash, Gain, Gap, Slippage, Deposit, MaxCash, MaxTicket, MaxDay} \subseteq Nat
  /\ StartCash > 0 /\ MaxDay > 0

VARIABLES
  cash,          \* the account's balance
  today,         \* the trading day
  proc,          \* the process: down, starting or polling
  commissioned,  \* dispatcher.commissioned
  memory,        \* the compliance engine's fields
  stage,         \* where the current poll is: idle, sized or approved
  risked,        \* the projected loss of the trade being dispatched
  judgedEquity,  \* the account equity dispatch read
  lastTicket,    \* the latest ticket the broker has given
  breached,      \* the session that latched a total breach: none, this or an earlier one
  late           \* history: the tickets of orders answered before they were filled

sessionVars ==
  <<cash, today, proc, commissioned, memory, stage, risked, judgedEquity,
    lastTicket, breached, late>>

dispatchVars == <<sessionVars, brokerVars>>

DispatchTypeOK ==
  /\ BrokerTypeOK
  /\ cash \in Nat
  /\ today \in 1..MaxDay
  /\ proc \in {"down", "starting", "polling"}
  /\ commissioned \in BOOLEAN
  /\ memory \in Memory
  /\ stage \in {"idle", "sized", "approved"}
  /\ risked \in Nat
  /\ judgedEquity \in Nat
  /\ lastTicket \in 0..MaxTicket
  /\ breached \in {"never", "now", "before"}
  /\ late \subseteq 1..MaxTicket
  /\ stage # "idle" => proc = "polling"
  /\ stage = "approved" => commissioned

DispatchInit ==
  /\ book = {} /\ closed = {} /\ flight = {}
  /\ cash = StartCash
  /\ today = 1
  /\ proc = "down"
  /\ commissioned = FALSE
  /\ memory = FreshMemory
  /\ stage = "idle"
  /\ risked = 0
  /\ judgedEquity = 0
  /\ lastTicket = 0
  /\ breached = "never"
  /\ late = {}

RiskOf(positions) == MapThenSumSet(LAMBDA p : p.stop, positions)

(* What a read of account_info may find.                                   *)
Readings ==
  IF book = {} THEN {cash}
  ELSE {cash - RiskOf(book), cash, cash + Gain} \cap (1..(cash + Gain))

-----------------------------------------------------------------------------
(* Starting up: build_live_dispatcher, then the preflight.                 *)

(* Nothing in the runtime calls save_compliance_state, so the state file   *)
(* never exists and load_compliance_state returns None.                    *)
Start ==
  /\ proc = "down"
  /\ proc' = "starting"
  /\ commissioned' = FALSE
  /\ memory' = FreshMemory
  /\ breached' = IF breached = "never" THEN "never" ELSE "before"
  /\ UNCHANGED <<cash, today, stage, risked, judgedEquity, lastTicket, late, brokerVars>>

(* _find_opened takes the newest of this EA's positions for the one the    *)
(* preflight has opened.                                                   *)
Newest == CHOOSE p \in book : \A q \in book : q.ticket <= p.ticket

(* What the preflight may make of the position it takes: nothing, a        *)
(* tighter stop, or a close at any price down to the stop.                 *)
Tightened == {[book |-> (book \ {Newest}) \cup {[Newest EXCEPT !.stop = loss]}, cash |-> cash] :
                loss \in 1..Newest.stop}

ClosedByIt == {[book |-> book \ {Newest}, cash |-> cash + result] : result \in {Gain, -Newest.stop}}

(* commission.  A preflight that passes leaves nothing of its own open     *)
(* (Preflight's VerifiedCleanupIsReal), but may have passed on an earlier  *)
(* position while its own order was lost or still to be filled             *)
(* (PassedClosedItsOwn).  One that fails may leave its position behind.    *)
Passes ==
  {[book |-> book, cash |-> cash, orphan |-> "none"]} \cup
    (IF book = {} THEN {}
     ELSE {[book |-> after.book, cash |-> after.cash, orphan |-> orphan] :
             after \in ClosedByIt, orphan \in {"none", "late"}})

Fails ==
  {[book |-> after.book, cash |-> after.cash, orphan |-> orphan] :
     after \in {[book |-> book, cash |-> cash]} \cup
               (IF book = {} THEN {} ELSE Tightened \cup ClosedByIt),
     orphan \in {"none", "open", "late"}}

(* The preflight's position, of the smallest volume: its loss is not told  *)
(* from none.                                                              *)
OrphanOrder(ticket) == [kind |-> "OPEN", ticket |-> ticket, stop |-> 0, target |-> FALSE]

Commission(passed) ==
  /\ proc = "starting"
  /\ proc' = "polling"
  /\ commissioned' = passed
  /\ \E after \in IF passed THEN Passes ELSE Fails :
       /\ after.cash \in 1..MaxCash
       /\ cash' = after.cash
       /\ lastTicket' = IF after.orphan = "none" THEN lastTicket ELSE lastTicket + 1
       /\ lastTicket' <= MaxTicket
       /\ book' = IF after.orphan = "open"
                    THEN after.book \cup {[ticket |-> lastTicket', own |-> TRUE, stop |-> 0,
                                           target |-> FALSE]}
                    ELSE after.book
       /\ IF after.orphan = "late"
            THEN flight' = flight \cup {OrphanOrder(lastTicket')} /\ late' = late \cup {lastTicket'}
            ELSE UNCHANGED <<flight, late>>
  /\ UNCHANGED <<today, memory, stage, risked, judgedEquity, breached, closed>>

(* The process dies: a crash, or an exception nothing in run_forever       *)
(* catches.                                                                *)
Dies ==
  /\ proc' = "down"
  /\ stage' = "idle"
  /\ risked' = 0
  /\ judgedEquity' = 0
  /\ UNCHANGED <<cash, today, commissioned, memory, breached>>

Crash ==
  /\ proc # "down"
  /\ Dies
  /\ UNCHANGED <<lastTicket, late, brokerVars>>

-----------------------------------------------------------------------------
(* One poll with new data on the wire.                                     *)

(* _round_down_to_step of the risked equity over the loss of one lot.      *)
SizedSteps(equity, stepLoss) ==
  LET affordable == (equity * RiskFraction) \div (Unit * stepLoss)
  IN  IF affordable < MaxSteps THEN affordable ELSE MaxSteps

(* Mutant: evaluate_risk trades up to and including the maximum.           *)
ProposeOneTooMany(equity, stepLoss) ==
  /\ proc = "polling"
  /\ stage = "idle"
  /\ lastTicket < MaxTicket
  /\ Cardinality(book) <= MaxOpenPositions
  /\ SizedSteps(equity, stepLoss) >= MinSteps
  /\ stage' = "sized"
  /\ risked' = SizedSteps(equity, stepLoss) * stepLoss
  /\ UNCHANGED <<cash, today, proc, commissioned, memory, judgedEquity, lastTicket,
                 breached, late, brokerVars>>

(* The strategy proposes a trade, allocate and evaluate_risk approve it.   *)
(* A poll in which one of them declines changes nothing that lasts.        *)
Propose(equity, stepLoss) ==
  /\ proc = "polling"
  /\ stage = "idle"
  /\ lastTicket < MaxTicket
  /\ Cardinality(book) < MaxOpenPositions
  /\ SizedSteps(equity, stepLoss) >= MinSteps
  /\ stage' = "sized"
  /\ risked' = SizedSteps(equity, stepLoss) * stepLoss
  /\ UNCHANGED <<cash, today, proc, commissioned, memory, judgedEquity, lastTicket,
                 breached, late, brokerVars>>

NotCommissioned ==
  /\ stage = "sized"
  /\ ~commissioned
  /\ stage' = "idle"
  /\ risked' = 0
  /\ UNCHANGED <<cash, today, proc, commissioned, memory, judgedEquity, lastTicket, breached, late, brokerVars>>

(* dispatch reads the account, takes a snapshot of it and asks for the     *)
(* headroom; approve_trade follows when both agree.                        *)
Judge(equity, blackout) ==
  /\ stage = "sized"
  /\ commissioned
  /\ memory' = Observe(memory, today, equity)
  /\ breached' = IF memory'.totalBreached THEN "now" ELSE breached
  /\ IF /\ Allowed(StatusOf(memory', equity, blackout))
        /\ ~HeadroomRejects(memory', equity, risked)
       THEN stage' = "approved" /\ judgedEquity' = equity /\ UNCHANGED risked
       ELSE stage' = "idle" /\ judgedEquity' = 0 /\ risked' = 0
  /\ UNCHANGED <<cash, today, proc, commissioned, lastTicket, late, brokerVars>>

(* ExecutionRouter.place.  The order goes out at the tick's price with the *)
(* signal's stop, so the loss at the stop is whatever the fill makes it:   *)
(* less than was judged, where it is better or only in part, or more.  An  *)
(* MT5ExecutionError passes through dispatch and poll_once and ends        *)
(* run_forever.                                                            *)
Place(outcome, loss) ==
  LET order == [kind |-> "OPEN", ticket |-> lastTicket + 1, stop |-> loss, target |-> FALSE]
  IN
  /\ stage = "approved"
  /\ lastTicket' = lastTicket + 1
  /\ Send(order, outcome)
  /\ late' = IF order \in flight' THEN late \cup {order.ticket} ELSE late
  /\ IF outcome = "raised" THEN Dies
     ELSE /\ stage' = "idle" /\ risked' = 0 /\ judgedEquity' = 0
          /\ UNCHANGED <<cash, today, proc, commissioned, memory, breached>>

-----------------------------------------------------------------------------
(* The broker, the market and the calendar.                                *)

(* An order that was answered before is filled or given up.                *)
LateFill ==
  /\ \E r \in flight : Deliver(r) \/ Lose(r)
  /\ UNCHANGED sessionVars

(* What a position may bring when it closes: its gain, its stop, or worse. *)
Closes(p, result) ==
  /\ cash + result \in 1..MaxCash
  /\ book' = book \ {p}
  /\ cash' = cash + result
  /\ UNCHANGED <<today, proc, commissioned, memory, stage, risked, judgedEquity, lastTicket,
                 breached, late, closed, flight>>

(* The user pays money in, and the drawdown shrinks without a trade.       *)
PayIn ==
  /\ cash + Deposit <= MaxCash
  /\ cash' = cash + Deposit
  /\ UNCHANGED <<today, proc, commissioned, memory, stage, risked, judgedEquity, lastTicket,
                 breached, late, brokerVars>>

NewDay ==
  /\ today < MaxDay
  /\ today' = today + 1
  /\ UNCHANGED <<cash, proc, commissioned, memory, stage, risked, judgedEquity, lastTicket,
                 breached, late, brokerVars>>

DispatchNext ==
  \/ Start
  \/ \E passed \in BOOLEAN : Commission(passed)
  \/ Crash
  \/ \E equity \in Readings, stepLoss \in StepLosses : Propose(equity, stepLoss)
  \/ NotCommissioned
  \/ \E equity \in Readings, blackout \in BOOLEAN : Judge(equity, blackout)
  \/ \E outcome \in Outcomes, loss \in 1..(risked + Slippage) : Place(outcome, loss)
  \/ LateFill
  \/ \E p \in book : \E result \in {Gain, -p.stop, -(p.stop + Gap)} : Closes(p, result)
  \/ PayIn
  \/ NewDay

DispatchSpec == DispatchInit /\ [][DispatchNext]_dispatchVars

-----------------------------------------------------------------------------
(* Properties.                                                             *)

Trades == {p \in book : p.stop # 0}

(* compliance_live.yaml: "its only allowed to be in one trade at a time".  *)
(* A late fill refutes it: what does hold is NoSecondTradeInTime.          *)
OneTradeAtATime == Cardinality(Trades) <= MaxOpenPositions

(* Every trade beyond the one that is allowed is one whose order was       *)
(* answered, or ended the session, before it was filled.  The count        *)
(* evaluate_risk reads is taken before the order is sent, and a restart    *)
(* forgets every ticket this EA ever opened.                               *)
NoSecondTradeInTime == Cardinality({p \in Trades : p.ticket \notin late}) <= MaxOpenPositions

AtStake(allowance) ==
  (proc = "polling" /\ memory.peak # None /\ Trades # {} /\ late = {})
    => (cash - RiskOf(book) + allowance) * Unit * Unit >= HaltPoint(memory.peak)

(* headroom_rejection: "would THIS trade, if it loses in full, carry       *)
(* drawdown past" the halt point.  A fill off the price that was judged    *)
(* refutes it: what does hold is OpenRiskIsWithinSlippage.                 *)
OpenRiskStaysAboveHalt == AtStake(0)

(* Where every order was filled before it was answered, an open trade that *)
(* is stopped out carries the account past the halt point by no more than  *)
(* its fill was away from the price it was judged at, for as long as it is *)
(* open: the gate judges one trade alone, and is enough only because       *)
(* evaluate_risk counts the positions of another account reading before.   *)
OpenRiskIsWithinSlippage == AtStake(Slippage)

(* The session's state is of its types, and what it has at risk is bounded *)
(* (live_dispatch.py:199).                                                 *)
RiskIsBounded == DispatchTypeOK /\ OpenRiskIsWithinSlippage

(* engine.py: "Once True, stays True regardless of later equity recovery". *)
(* No later trade of the session that saw the total breach is approved.    *)
BreachEndsSession == breached = "now" => stage # "approved"

(* state_store.py: "Forgetting it on restart un-blocks an account the firm *)
(* considers dead".  Nor is one of any later session.                      *)
BreachEndsTrading == breached # "never" => stage # "approved"
=============================================================================
