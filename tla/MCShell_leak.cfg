SPECIFICATION ShellSpec
CONSTANTS
  Idents <- TwoIdents
  StatExprs <- LeakInLoop
  TopExprs <- CallZero
  RootExprs <- None
  CondExprs <- LoopCond
  FuncDecls <- OneFunc
  ByteRange = 256
  RootVarsCap = 64
  FuncVarsCap = 128
  WithWhile = TRUE
  MaxStats = 5
  MaxNesting = 4
  IntRange = 16
  RootStack = 64
  RootLocals = 4
  CallStackMax = 3
INVARIANTS
  StackInFrame
CHECK_DEADLOCK FALSE
