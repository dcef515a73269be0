\* Three chares in a line.
SPECIFICATION FairSpec
CONSTANTS
  Kind <- DiagCGKind
  Needs <- DiagCGNeeds
  NChare = 3
  Late = {}
  Nbr <- MCNbr
  NStep = 2
  Dtref = TRUE
  DtFreq = 1
  DiagFreq = 2
  FieldFreq = 1
  LbFreq = 3
  Nonblocking = FALSE
INVARIANTS TypeOK SolutionComplete MeshesAgree SameReductions
PROPERTIES ImplementsBulkSteps Completes
