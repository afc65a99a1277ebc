SPECIFICATION Spec
CONSTANTS
  Batches = {b1, b2, b3}
  Files <- MCFiles
  Types <- MCTypes
  Methods <- MCMethods
  Plans <- MCPlans
INVARIANTS TypeOK DriftBetweenOverlapped
PROPERTIES RefusedBesideAnother
SYMMETRY Alike
CHECK_DEADLOCK FALSE
