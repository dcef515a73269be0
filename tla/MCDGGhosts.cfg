\* The debug build checks the ids of ghost cells.
SPECIFICATION Spec
CONSTANTS
  Kind <- DGKind
  Needs <- DGNeeds
  NChare = 2
  Late = {"recompghost"}
  Nbr <- MCNbr
  Fac <- MCNbr
  NCell <- MCNCell
  Ndof = 4
  NStep = 2
  Dtref = TRUE
  DtFreq = 1
  DiagFreq = 3
  FieldFreq = 2
  LbFreq = 3
  Nonblocking = TRUE
INVARIANTS ExpectedGhosts
