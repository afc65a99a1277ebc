SPECIFICATION Spec
CONSTANTS
  Files <- MCFiles
  Texts <- MCTexts
  Symbols <- MCSymbols
  Types <- MCTypes
  Methods <- MCMethods
  MaxSymbols = 5
  MaxLoads = 2
INVARIANTS TypeOK EqualsRebuild NoDanglingRow
PROPERTIES OnlyOwnersChange ReadersSeeLinkedGraphs
CHECK_DEADLOCK FALSE
