SPECIFICATION Spec
CONSTANTS
  Units <- MCUnits
  Family = "x86 call"
  WordBits = 12
INVARIANT FrameFixed
CHECK_DEADLOCK FALSE
