SPECIFICATION Spec
CONSTANTS
  c1 = c1
  c2 = c2
  b1 = b1
  b2 = b2
  b3 = b3
  Consumers = {c1, c2}
  Blocks = {b1, b2, b3}
  nullptr = nullptr
  BLOCK_SIZE = 2
  IMPLICIT_INITIAL_INDEX_SIZE = 2
  MaxPosts = 7
  MaxExcess = 0
  AllocFails = TRUE
SYMMETRY Symmetry
INVARIANTS EntryFound DestructorExact
PROPERTY ImplementsStream
CHECK_DEADLOCK FALSE
