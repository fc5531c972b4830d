SPECIFICATION HandlesSpec
CONSTANTS
  Names = {a, b}
  INODE_COUNT = 4
  BLOCK_COUNT = 2
  DIRECTORY_PER_BLOCK = 2
  MAX_DEPTH = 2
  MAX_HANDLES = 2
SYMMETRY MCSymmetry
CONSTRAINT MCUndamaged
INVARIANT HandlesTypeOK
PROPERTY HandleFollowsPath
