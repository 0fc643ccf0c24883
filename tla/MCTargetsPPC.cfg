SPECIFICATION Spec
CONSTANTS
  Units <- MCUnits
  Family = "ppc call"
  WordBits = 12
INVARIANT NonvolatileKept
CHECK_DEADLOCK FALSE
