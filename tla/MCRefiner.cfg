SPECIFICATION FairSpec
CONSTANTS
  NNode = 5
  NChare = 2
  Mesh <- MCMesh
  InitRefs <- MCInitRefs
  MaxTagged <- MCMaxTagged
INVARIANTS EdgesAgree DecisionsFit Conforming
PROPERTIES Completes
