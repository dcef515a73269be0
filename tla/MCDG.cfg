\* Three chares in a line, one step on a new mesh.
SPECIFICATION FairSpec
CONSTANTS
  Kind <- DGKind
  Needs <- DGNeeds
  NChare = 3
  Late = {"recompghost"}
  Nbr <- MCNbr
  Fac <- MCNbr
  NCell <- MCNCell
  Ndof = 4
  NStep = 2
  Dtref = TRUE
  DtFreq = 1
  DiagFreq = 1
  FieldFreq = 2
  LbFreq = 2
  Nonblocking = TRUE
INVARIANTS GhostsCurrent SenderKnown
PROPERTIES StagesInOrder ImplementsBulkSteps Completes
