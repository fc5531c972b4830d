SPECIFICATION Spec
CONSTANTS
  DATA_START = 3
  DISK_BLOCKS = 7
  FREE_INDEX_PER_BLOCK = 2
  ClientData <- MCForged
INVARIANTS
  TypeOK
  ListedOnce
  Partition
  CountExact
  DiskFullIsReal
PROPERTIES
  PoolSpec
  LifoSpec
