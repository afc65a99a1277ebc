SPECIFICATION ArtifactSpec
CONSTANTS
  Keys = {k1}
  Clients = {p1, p2}
  MaxWrites = 3
PROPERTIES ReadsWholeArtifacts
CHECK_DEADLOCK FALSE
