SPECIFICATION MountSpec
CONSTANTS
  DATA_START = 3
  DISK_BLOCKS = 6
  FREE_INDEX_PER_BLOCK = 2
  ClientData <- MCForged
  INODE_COUNT = 2
  MAX_COUNT = 6
CONSTRAINT MCBound
INVARIANTS
  MountTypeOK
  CountsHold
PROPERTIES
  RemountKeepsList
  TornIsRecounted
  RecountEnds
