CONSTANTS
  NChare = 3
  NPoin = 6
  MaxSize = 13
  Reorder = TRUE
  Meshes <- Triples
SPECIFICATION FairSpec
INVARIANTS Inv CommunicationMap IdsAgree RequestsServed ContributesOnce
PROPERTIES Completes ImplementsRenumbering
