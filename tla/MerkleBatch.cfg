SPECIFICATION BatchSpec
CONSTANTS
  LeafValue = {1, 2, 3, 4, 5, 6}
  MaxBatch = 6
INVARIANTS
  RootMatchesReference
  EveryProofVerifies
  ProofBindsLeaf
  RootDeterminesBatch
CHECK_DEADLOCK FALSE
