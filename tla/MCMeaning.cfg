SPECIFICATION MeaningSpec
CONSTANTS
  Idents <- ThreeIdents
  StatExprs <- MixedStats
  TopExprs <- None
  RootExprs <- GroupedCall
  CondExprs <- ValueConds
  FuncDecls <- OneFunc
  ByteRange = 256
  RootVarsCap = 64
  FuncVarsCap = 128
  WithWhile = TRUE
  MaxStats = 5
  MaxNesting = 4
  IntRange = 8
  RootStack = 64
  RootLocals = 4
  CallStackMax = 2
  Fuel = 20
INVARIANTS
  MeaningPreserved  StackInFrame LocalsInFrame  ControlInCode BookedCoversDepth JumpsLand FunctionsVerify
CHECK_DEADLOCK FALSE
