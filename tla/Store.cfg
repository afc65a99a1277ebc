SPECIFICATION Spec
CONSTANTS
  MaxOffset = 4
  Loaders = {l1, l2}
  Offered <- MCOffered
  Starts <- MCStarts
  MaxLoads = 2
INVARIANTS TypeOK OneRowPerPath FileRowsAreOneLoad NoLoadRefused
PROPERTIES OthersUntouched
CHECK_DEADLOCK FALSE
