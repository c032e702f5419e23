\* Bundling, and two to four clusters, with batches of three.
SPECIFICATION Spec
CONSTANTS
  NumBlocks = 3
  BlockSize = 2
  Dimensions = 5
  Inputs <- MCInputs
  Clusters = {0, 2, 3, 4}
  BatchSize = 3
  EtaFloor = 3
  MaxVectors = 5
INVARIANTS
  TypeOK
  CentroidsWithinData
  EveryVectorCounted
  StreamedBundle
  ModelComplete
