SPECIFICATION FairShell
CONSTANTS
  Idents <- TwoIdents
  StatExprs <- Assignments
  TopExprs <- Leaks
  RootExprs <- None
  CondExprs <- ACond
  FuncDecls <- OneFunc
  ByteRange = 256
  RootVarsCap = 64
  FuncVarsCap = 128
  WithWhile = FALSE
  MaxStats = 6
  MaxNesting = 4
  IntRange = 8
  RootStack = 64
  RootLocals = 4
  CallStackMax = 3
INVARIANTS
  ShellTypeOK StackInFrame LocalsInFrame  ControlInCode BookedCoversDepth JumpsLand FunctionsVerify
PROPERTIES
  PromptReturns
CHECK_DEADLOCK FALSE
