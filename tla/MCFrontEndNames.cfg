SPECIFICATION ReadSpec
CONSTANTS
  Programs <- MCPrograms
  Nodes <- MCNodes
  Texts <- MCTexts
  Family = "shadowed parameter"
  WordBits = 3
INVARIANT NamesFound
