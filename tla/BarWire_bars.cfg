SPECIFICATION Spec
CONSTANTS
  BackfillCount = 2
  MaxBar = 4
  MaxLines = 5
INVARIANTS WireIsRead OnlyMissedBarsMissing
CHECK_DEADLOCK FALSE
