--------------------------- MODULE StructureRange ---------------------------
(***************************************************************************)
(* StructureRangeEngine of structure_range.py: a range between a swing of   *)
(* the wide tier and one of the narrow tier, the leg that leaves it, and    *)
(* the gap that ends the leg.  The forecast of Regime.tla's condition.      *)
(*                                                                         *)
(* An engine is a record: the state, the two anchors (the confirmed events  *)
(* or None), whether the range was announced, and of the leg its direction, *)
(* the boundary it broke and its extreme.  While the state is CONSOLIDATION *)
(* these three are None.                                                   *)
(***************************************************************************)
EXTENDS Swings

NewRange ==
  [state |-> "CONSOLIDATION", swing |-> None, internal |-> None, announced |-> FALSE,
   direction |-> None, boundary |-> None, extreme |-> None, states |-> <<>>, transitions |-> <<>>]

Facing(type) == IF type = "HIGH" THEN "LOW" ELSE "HIGH"

\* A record with what it says of the range it is about.
Announced(e, state, at) ==
  [e EXCEPT !.states = Append(@, [state |-> state, at |-> at, direction |-> e.direction,
                                  swing |-> e.swing, internal |-> e.internal])]

Entered(e, state, at) ==
  Announced([e EXCEPT !.state = state,
                      !.transitions = Append(@, [from |-> e.state, to |-> state, at |-> at])],
            state, at)

-----------------------------------------------------------------------------
(* The range                                                               *)

\* A mutant: a swing of the other type keeps the anchor facing the old one.
AnchoredKeeping(e, swing) == [e EXCEPT !.swing = swing]

\* A swing of the other type needs a new internal side; one of the same type keeps it.
Anchored(e, swing) ==
  [e EXCEPT !.swing = swing,
            !.internal = IF e.swing # None /\ e.swing.type = swing.type THEN @ ELSE None]

\* An internal pivot counts from the swing pivot's bar on, and only facing it.
Faced(e, pivot) ==
  IF pivot.type = Facing(e.swing.type) /\ pivot.pivot >= e.swing.pivot
  THEN [e EXCEPT !.internal = pivot] ELSE e

\* What a tier confirmed, one after the other.
AnchoredBy(tier, e, events) ==
  LET After[i \in 0..Len(events)] ==
        IF i = 0 THEN e
        ELSE IF events[i].status # "CONFIRMED" THEN After[i - 1]
        ELSE IF tier = "swing" THEN Anchored(After[i - 1], events[i])
        ELSE Faced(After[i - 1], events[i])
  IN After[Len(events)]

UpdateAnchors(e, swings, internals) ==
  LET anchored == AnchoredBy("swing", e, swings)
  IN IF anchored.swing = None THEN anchored ELSE AnchoredBy("internal", anchored, internals)

Boundaries(e) ==
  IF e.swing.type = "LOW"
  THEN [lower |-> e.swing.body, upper |-> e.internal.body]
  ELSE [lower |-> e.internal.body, upper |-> e.swing.body]

LegFrom(e, direction, boundary, extreme, at) ==
  Entered([e EXCEPT !.direction = direction, !.boundary = boundary, !.extreme = extreme],
          "EXPANSION", at)

\* A body beyond either boundary starts a leg; above comes first.
Break(e, bar, at) ==
  LET range == Boundaries(e)
  IN IF BodyHigh(bar) > range.upper THEN LegFrom(e, "UP", range.upper, BodyHigh(bar), at)
     ELSE IF BodyLow(bar) < range.lower THEN LegFrom(e, "DOWN", range.lower, BodyLow(bar), at)
     ELSE e

Establish(e, bar, at) ==
  LET known == IF e.announced THEN e
               ELSE Announced([e EXCEPT !.announced = TRUE], "CONSOLIDATION", at)
  IN Break(known, bar, at)

-----------------------------------------------------------------------------
(* The leg                                                                 *)

Reclaimed(e, bar) ==
  IF e.direction = "UP" THEN BodyLow(bar) < e.boundary ELSE BodyHigh(bar) > e.boundary

\* Between the bar and the one two before it, against the leg (separation of relation.py).
InefficiencyConfirms(e, bars) ==
  LET at == Len(bars)
  IN /\ at >= 3
     /\ IF e.direction = "UP" THEN bars[at - 2].low > bars[at].high
                              ELSE bars[at].low > bars[at - 2].high

\* A mutant: the wick makes the extreme.
LegTipWick(direction, bar) == IF direction = "UP" THEN bar.high ELSE bar.low

LegTip(direction, bar) == IF direction = "UP" THEN BodyHigh(bar) ELSE BodyLow(bar)

Further(direction, p, q) == IF direction = "UP" THEN p > q ELSE p < q

EnterUnless(e, state, at) == IF e.state = state THEN e ELSE Entered(e, state, at)

\* A reversal forgets the range it ends.
EnterReversal(e, at) ==
  LET reversed == Entered(e, "REVERSAL", at)
  IN [NewRange EXCEPT !.states = reversed.states, !.transitions = reversed.transitions]

AdvanceLeg(e, bars) ==
  LET bar == Last(bars)
      at == Len(bars)
      tip == LegTip(e.direction, bar)
  IN CASE Reclaimed(e, bar) /\ InefficiencyConfirms(e, bars) -> EnterReversal(e, at)
       [] ~Reclaimed(e, bar) /\ Further(e.direction, tip, e.extreme) ->
            EnterUnless([e EXCEPT !.extreme = tip], "EXPANSION", at)
       [] OTHER -> EnterUnless(e, "RETRACEMENT", at)

\* on_bar: anchors move only while there is no leg.
Ranged(e, bars, swings, internals) ==
  IF e.state = "CONSOLIDATION"
  THEN LET anchored == UpdateAnchors(e, swings, internals)
       IN IF anchored.swing = None \/ anchored.internal = None THEN anchored
          ELSE Establish(anchored, Last(bars), Len(bars))
  ELSE AdvanceLeg(e, bars)

=============================================================================
