SPECIFICATION Spec
CONSTANTS
  BLOCK_BYTES = 2
  BLOCK_COUNT = 3
  Values = {v1, v2}
  MAX_WRITE = 3
  MAX_SIZE = 5
SYMMETRY MCSymmetry
PROPERTY GapIsFilled
