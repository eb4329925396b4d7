SPECIFICATION FairTable
CONSTANTS
  f = f
  g = g
  h = h
  k = k
  Texts <- Four
  Hash <- Homes
  InitialCap = 4
  MaxProbe = 2
INVARIANTS
  TableTypeOK CountersAgree CallReachesLast
PROPERTIES
  FuncsByName ConstsByValue PutsEnd
CHECK_DEADLOCK FALSE
