SPECIFICATION SafetySpec
CONSTANTS
  Programs <- ShortPrograms
  IntRange = 4
  RootStack = 12
  RootLocals = 1
  CallStackMax = 3
INVARIANTS
  MachineTypeOK VerifiedIsSafe DepthsAgree
CHECK_DEADLOCK FALSE
