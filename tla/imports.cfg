SPECIFICATION FairSpec
CONSTANTS
  f = f
  g = g
  Files <- TwoFiles
  FaultSets <- EveryFault
  MaxVersion = 2
  Programs <- UpToTwo
  MaxPending = 2
  MaxDepth = 3
INVARIANTS
  TypeOK
  NoCircularImport
  PendingIsStack
PROPERTIES
  CacheIsWhole
  LineTerminates
