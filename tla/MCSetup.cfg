CONSTANTS
  NNode = 3
  NPe = 3
  Nodes <- Row
  Virt = 0
  Denom = 1
  MaxId = 4
  Partitions <- SomePartitions
SPECIFICATION FairSpec
INVARIANTS WholeMesh
PROPERTIES Completes
