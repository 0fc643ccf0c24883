SPECIFICATION Spec
CONSTANTS
  small = small
  large = large
  Names = {small, large}
  ElemSize <- MCElemSize
  Block = 36
  Appended <- MCAppended
  Rewritten <- MCRewritten
  Values <- MCValues
  Garbage <- MCGarbage
  MaxLen <- MCMaxLen
  MaxHeld = 1
INVARIANTS InBlock Disjoint Aligned
PROPERTY ImplementsLists
CHECK_DEADLOCK FALSE
