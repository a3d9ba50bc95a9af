----------------------------- MODULE CerrPhases -----------------------------
(***************************************************************************)
(* What the CERR cycle promises, with no bar and no detector: the diagram  *)
(* of vo.valco.lrx_cerr's docstring as a specification.  A cycle passes    *)
(* through its phases in order, points one way from its expansion on, and  *)
(* is a record once it has ended: the only step left is the next cycle's   *)
(* beginning.  LrxCycle is shown to implement it.                          *)
(***************************************************************************)
CONSTANTS None

VARIABLES phase, direction

phaseVars == <<phase, direction>>

Directions == {"UP", "DOWN"}
Terminal == {"REVERSAL_CONFIRMED", "INVALIDATED", "EXPIRED"}

PhaseInit == phase = "IDLE" /\ direction = None

Begin ==
  /\ phase \in Terminal \cup {"IDLE"}
  /\ phase' = "CONSOLIDATION" /\ direction' = None

Expand ==
  /\ phase = "CONSOLIDATION"
  /\ phase' = "EXPANSION" /\ direction' \in Directions

Retrace ==
  /\ phase = "EXPANSION"
  /\ phase' = "RETRACEMENT" /\ UNCHANGED direction

(* Only a retracement is reversed, and only an expansion can fail.         *)
Confirm ==
  /\ phase = "RETRACEMENT"
  /\ phase' = "REVERSAL_CONFIRMED" /\ UNCHANGED direction

Invalidate ==
  /\ phase \in {"EXPANSION", "RETRACEMENT"}
  /\ phase' = "INVALIDATED" /\ UNCHANGED direction

Expire ==
  /\ phase \in {"CONSOLIDATION", "EXPANSION", "RETRACEMENT"}
  /\ phase' = "EXPIRED" /\ UNCHANGED direction

PhaseNext == Begin \/ Expand \/ Retrace \/ Confirm \/ Invalidate \/ Expire

PhaseSpec == PhaseInit /\ [][PhaseNext]_phaseVars
=============================================================================
