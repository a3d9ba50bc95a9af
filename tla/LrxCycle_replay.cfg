SPECIFICATION Spec
CONSTANTS
  None = None
  MaxRange = 1
  MinLeg = 2
  MinRetracement = 1
  MaxBarsInPhase = 2
  Horizon = 2
  MaxPrice = 3
  LastBar = 5
INVARIANTS CycleIsInOrder ExpansionHasLength
PROPERTIES ImplementsPhases
CHECK_DEADLOCK FALSE
