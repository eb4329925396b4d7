SPECIFICATION FairSpec
CONSTANTS
  Byte <- Bits
  Chunks <- ShortChunks
  PageSize = 3
  MaxSize = 10
INVARIANTS
  TypeOK NoOverrun EveryPageFreed
PROPERTIES
  StreamImplemented ReadBackEnds
CHECK_DEADLOCK FALSE
