SPECIFICATION Spec
CONSTANTS
  Programs <- MCPrograms
INVARIANTS TypeOK ScopesNest OneOccurrencePerName NoFalseJoin Joins ResolvedInFile
CHECK_DEADLOCK FALSE
