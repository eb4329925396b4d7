SPECIFICATION Spec
CONSTANTS
  Tokens <- ElifTokens
  MaxTokens = 9
  MaxOpen = 4
INVARIANTS
  EveryStatementCompiled
CHECK_DEADLOCK FALSE
