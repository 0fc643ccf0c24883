SPECIFICATION MCSpec
CONSTANTS
  Programs <- MCPrograms
  Nodes <- MCNodes
  Shape = "all"
  WordBits = 3
INVARIANTS CompiledRight BackEndReady Settles
PROPERTIES UnusedKept ConstKept LiftKept VNKept PhiKept FoldKept
CHECK_DEADLOCK FALSE
