SPECIFICATION ReadSpec
CONSTANTS
  Programs <- MCPrograms
  Nodes <- MCNodes
  Texts <- MCTexts
  Family = "all"
  WordBits = 3
INVARIANTS LinksRight ParsedRight GeneratedRight OnlyWrongRefused SetOnce SingleExitJump TypedByScope TypesSound
PROPERTIES BasesKept Terminates
CHECK_DEADLOCK FALSE
