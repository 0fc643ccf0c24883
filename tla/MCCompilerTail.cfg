SPECIFICATION MCSpec
CONSTANTS
  Programs <- MCPrograms
  Nodes <- MCNodes
  Shape = "constant tail"
  WordBits = 3
INVARIANT TailRight
CHECK_DEADLOCK FALSE
