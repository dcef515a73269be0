CONSTANTS
  MaxLoad = 40
  MaxPe = 7
  Denom = 10
  MaxChare = 3
  Points <- FivePoints
  Meshes <- MeshFiles
SPECIFICATION FairSpec
INVARIANTS LoadDistributed CreatedAtHome EveryPeHasElement FacesFit ListsExact
PROPERTIES Converted
CHECK_DEADLOCK FALSE
