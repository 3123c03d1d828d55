\* Three blocks of two chunks: the list runs empty and grows twice, a block
\* has a first and a last chunk, and one block may be lost.
SPECIFICATION Spec
CONSTANTS
  Blocks = {b1, b2, b3}
  BLOCK_SIZE = 2
  NULL = NULL
  Junk = Junk
  MaxDepth = 2
SYMMETRY Symmetry
INVARIANTS
  FreeListExact
  CountExact
  Footprint
PROPERTIES
  ImplementsAllocator
\* Every constructor may throw until no memory is left: the client can do
\* nothing more.
CHECK_DEADLOCK FALSE
