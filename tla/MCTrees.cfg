SPECIFICATION Spec
CONSTANTS
  dense = dense
  sparse = sparse
  Pools = {dense, sparse}
  MaxHeight = 5
  PruningDepth = 2
  MaxBatch = 3
  Anchors = {2}
  Chains <- OneSparsePool
INVARIANTS
  WitnessesKept
  LeavesCheckpointed
  PoolsAligned
