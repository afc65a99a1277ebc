SPECIFICATION Spec
CONSTANTS
  Programs <- MCCollisions
INVARIANT NoFalseJoin
CHECK_DEADLOCK FALSE
