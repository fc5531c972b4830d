SPECIFICATION Spec
CONSTANTS
  Names = {a, b}
  INODE_COUNT = 3
  BLOCK_COUNT = 3
  DIRECTORY_PER_BLOCK = 2
  MAX_DEPTH = 2
INVARIANT
  DeletedWithLastLink
