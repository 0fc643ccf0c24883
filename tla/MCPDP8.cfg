SPECIFICATION Spec
CONSTANTS
  Units <- MCUnits
  Sources <- MCSources
INVARIANTS Reaches NoOverlay Backpatched OnlyExcused
CHECK_DEADLOCK FALSE
