SPECIFICATION Spec
CONSTANTS
  Names = {a, b, c}
  INODE_COUNT = 4
  BLOCK_COUNT = 3
  DIRECTORY_PER_BLOCK = 2
  MAX_DEPTH = 2
SYMMETRY MCSymmetry
CONSTRAINT MCUndamaged
INVARIANTS
  TypeOK
  NamesUnique
  SizeMatchesBlocks
  BlocksOwnedOnce
  NoOrphans
  NoDanglingEntry
PROPERTY
  TreeStep
