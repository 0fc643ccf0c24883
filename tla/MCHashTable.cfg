SPECIFICATION Spec
CONSTANTS
  a = a
  b = b
  c = c
  Keys = {a, b, c}
  Empty = Empty
  None = None
  Values <- MCValues
  Hash <- MCHash
  Length = 2
  MaxSlots = 3
INVARIANT OneSlotPerKey
PROPERTY ImplementsMap
CHECK_DEADLOCK FALSE
