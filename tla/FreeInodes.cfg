SPECIFICATION Spec
CONSTANTS
  INODE_COUNT = 6
  SUPERBLOCK_FREE_INODE = 3
  INODE_PER_BLOCK = 2
  MAX_USES = 2
INVARIANTS
  TypeOK
  ExactBeforeRefill
  UnusedIsBlank
  CountFollowsUses
