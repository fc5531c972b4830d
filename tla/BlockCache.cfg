SPECIFICATION Spec
CONSTANTS
  Blocks = {b1, b2, b3}
  Parts = {p1, p2}
  Bytes = {0, 1}
  LRU_CACHE_LENGTH = 2
SYMMETRY MCSymmetry
CONSTRAINT MCBound
INVARIANTS
  TypeOK
  PlacesAreAnOrder
  CleanMeansSaved
PROPERTIES
  StoreSpec
  CallsAreExact
