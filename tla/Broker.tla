------------------------------- MODULE Broker -------------------------------
(***************************************************************************)
(* The terminal and the broker behind vo.core.mt5's send_order, as the     *)
(* execution code can see them: the open positions, the positions that     *)
(* have closed, and the requests the broker has accepted but not carried   *)
(* out yet.  Volumes are not told apart: a position that was closed in     *)
(* part is still open under its ticket, and an order to open that was      *)
(* filled in part is a position.                                           *)
(*                                                                         *)
(* A position closes without being asked to: its stop or target is hit, or *)
(* the user closes it.  A call that raises may still have been carried out *)
(* (order_send returning None covers a timeout between the Python process  *)
(* and the terminal).                                                      *)
(***************************************************************************)
EXTENDS Integers, FiniteSets

CONSTANT NoPosition  \* no position: Python's None

VARIABLES
  book,    \* the open positions
  closed,  \* the positions that have closed, as they last were
  flight   \* the requests accepted but not carried out

brokerVars == <<book, closed, flight>>

Positions == [ticket: Nat \ {0}, own: BOOLEAN, stop: Nat, target: BOOLEAN]

Requests == [kind: {"OPEN", "MODIFY", "CLOSE"}, ticket: Nat \ {0},
             stop: Nat, target: BOOLEAN]

BrokerTypeOK ==
  /\ book \subseteq Positions
  /\ closed \subseteq Positions
  /\ flight \subseteq Requests

Holds(ticket) == \E p \in book : p.ticket = ticket

(* _refresh: the position with this ticket, if the account still shows it. *)
Refresh(ticket) ==
  IF Holds(ticket) THEN CHOOSE p \in book : p.ticket = ticket ELSE NoPosition

(* An OPEN deal adds a position under a new ticket; SLTP writes both       *)
(* levels; a CLOSE deal takes the position away.                           *)
BookAfter(r) ==
  CASE r.kind = "OPEN" ->
         book \cup {[ticket |-> r.ticket, own |-> TRUE, stop |-> r.stop, target |-> r.target]}
    [] r.kind = "MODIFY" ->
         {IF p.ticket = r.ticket THEN [p EXCEPT !.stop = r.stop, !.target = r.target]
          ELSE p : p \in book}
    [] r.kind = "CLOSE" -> {p \in book : p.ticket # r.ticket}

CarryOut(r) ==
  /\ book' = BookAfter(r)
  /\ closed' = closed \cup {p \in book : r.kind = "CLOSE" /\ p.ticket = r.ticket}

Addressable(r) == r.kind = "OPEN" \/ Holds(r.ticket)

(* A deal is sent with ORDER_FILLING_IOC: what is not filled at once is    *)
(* cancelled, so one that is filled in part opens its position, or leaves  *)
(* the one it was to close.                                                *)
FillInPart(r) ==
  \/ r.kind = "OPEN" /\ CarryOut(r)
  \/ r.kind = "CLOSE" /\ UNCHANGED <<book, closed>>

(* The answers of send_order: an OrderResult with one of these retcodes,   *)
(* or MT5ExecutionError.                                                   *)
Retcodes == {"done", "partial", "placed", "rejected"}

Outcomes == Retcodes \cup {"raised"}

(* _SUCCESS_RETCODES: OrderResult.approved.                                *)
Approved == {"done", "partial", "placed"}

Accept(r) == flight' = flight \cup {r} /\ UNCHANGED <<book, closed>>

(* Closing a position that is gone always raises.                          *)
Send(r, outcome) ==
  \/ /\ Addressable(r)
     /\ \/ outcome \in {"done", "raised"} /\ CarryOut(r) /\ UNCHANGED flight
        \/ outcome \in {"partial", "raised"} /\ FillInPart(r) /\ UNCHANGED flight
        \/ outcome \in {"placed", "raised"} /\ Accept(r)
  \/ outcome = "rejected" /\ (r.kind = "CLOSE" => Holds(r.ticket)) /\ UNCHANGED brokerVars
  \/ outcome = "raised" /\ UNCHANGED brokerVars

-----------------------------------------------------------------------------
(* What happens at the broker between two calls.                           *)

Deliver(r) ==
  /\ r \in flight
  /\ flight' = flight \ {r}
  /\ CarryOut(r)

(* The broker gives it up, or closes only a part of what it was to close.  *)
Lose(r) ==
  /\ r \in flight
  /\ flight' = flight \ {r}
  /\ UNCHANGED <<book, closed>>

Vanish(p) ==
  /\ p \in book
  /\ book' = book \ {p}
  /\ closed' = closed \cup {p}
  /\ UNCHANGED flight

BrokerStep ==
  \/ \E r \in flight : Deliver(r) \/ Lose(r)
  \/ \E p \in book : Vanish(p)
=============================================================================
