\* Two chares, four steps, a refinement in between.
SPECIFICATION FairSpec
CONSTANTS
  Kind <- ALECGKind
  Needs <- ALECGNeeds
  NChare = 2
  Late = {"rhs"}
  Nbr <- MCNbr
  NStep = 4
  Dtref = TRUE
  DtFreq = 2
  DiagFreq = 3
  FieldFreq = 3
  LbFreq = 1
  Nonblocking = TRUE
INVARIANTS FilesReadable SignalsOnce
PROPERTIES AddedComplete Completes
