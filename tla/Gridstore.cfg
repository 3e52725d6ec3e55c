SPECIFICATION Spec
CONSTANTS
  PageBlocks = 12
  RegionBlocks = 6
  ChunkBits = 3
  Point = {p1, p2}
  Envs <- MCEnvs
INVARIANTS
  
  StoredIntact
  
  FlushedStays
  NothingLeaks
  StoreInv
  
SYMMETRY Symmetry
CHECK_DEADLOCK FALSE
