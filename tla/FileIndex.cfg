SPECIFICATION Spec
CONSTANTS
  f1 = f1
  f2 = f2
  Files = {f1, f2}
  None = None
  BLOCK_COUNT = 22
  INODE_SMALL_THRESHOLD = 1
  INODE_LARGE_THRESHOLD = 3
  INODE_HUGE_THRESHOLD = 5
  FILE_INDEX_PER_BLOCK = 2
CONSTRAINT MCBound
INVARIANTS
  TypeOK
  ListIsExact
  BlocksAccountedFor
  NoEmptyIndexBlock
PROPERTIES
  ListSpec
