\* A chare shares nodes with its neighbour, but no face.
SPECIFICATION FairSpec
CONSTANTS
  Kind <- DGKind
  Needs <- DGNeeds
  NChare = 2
  Late = {"recompghost"}
  Nbr <- MCNbr
  Fac <- MCNoFac
  NCell <- MCNCell
  Ndof = 4
  NStep = 1
  Dtref = TRUE
  DtFreq = 1
  DiagFreq = 2
  FieldFreq = 2
  LbFreq = 1
  Nonblocking = TRUE
PROPERTIES Completes
CHECK_DEADLOCK FALSE
