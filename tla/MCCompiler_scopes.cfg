SPECIFICATION Spec
CONSTANTS
  Idents <- FourIdents
  StatExprs <- Definitions
  TopExprs <- None
  RootExprs <- None
  CondExprs <- DefiningCond
  FuncDecls <- OneFunc
  ByteRange = 3
  RootVarsCap = 2
  FuncVarsCap = 3
  WithWhile = TRUE
  MaxStats = 5
  MaxNesting = 5
INVARIANTS
  TypeOK SlotsInFrame SlotsDistinct
CHECK_DEADLOCK FALSE
