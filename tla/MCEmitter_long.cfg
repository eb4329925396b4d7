SPECIFICATION Spec
CONSTANTS
  Byte <- Bits
  Chunks <- LongChunks
  PageSize = 3
  MaxSize = 10
INVARIANTS
  NoOverrun
CHECK_DEADLOCK FALSE
