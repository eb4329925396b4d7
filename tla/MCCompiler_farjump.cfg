SPECIFICATION Spec
CONSTANTS
  Idents <- TwoIdents
  StatExprs <- LongSum
  TopExprs <- None
  RootExprs <- None
  CondExprs <- ACond
  FuncDecls <- OneFunc
  ByteRange = 64
  RootVarsCap = 64
  FuncVarsCap = 128
  WithWhile = TRUE
  MaxStats = 4
  MaxNesting = 4
INVARIANTS
  JumpsLand
CHECK_DEADLOCK FALSE
