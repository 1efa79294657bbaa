SPECIFICATION Spec
CONSTANTS
  Requests = {r1, r2}
  NBlocks = 3
  L2Size = 2
  NClusters = 7
  RefSize = 4
  CacheSize = 1
  ReadShapes = {{2}}
  WriteShapes = {{1}, {2}, {1, 2}}
  MaxOps = 3
  MaxCrashes = 1
  None = None
INVARIANTS NoCorruption FlushedSurvives ReadsLastWrite OwnCluster  NobodyStuck
SYMMETRY RequestSymmetry
CHECK_DEADLOCK FALSE
