SPECIFICATION Spec
CONSTANTS
  Units <- MCUnits
  Family = "all"
  WordBits = 12
INVARIANTS RightText CallersKept ScratchSuffices FrameTracked
CHECK_DEADLOCK FALSE
