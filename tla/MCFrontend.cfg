SPECIFICATION Spec
CONSTANTS
  Tokens <- AllTokens
  MaxTokens = 9
  MaxOpen = 4
INVARIANTS
  TypeOK CountersMatch RootInOrder TidyNeverCrashes NothingTwice
CHECK_DEADLOCK FALSE
