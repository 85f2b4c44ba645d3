SPECIFICATION FairSpec
CONSTANTS
  T         = 4
  RcvMax    = 2
  Strays    = 2
  Dups      = 1
  NetKinds  <- MCAllNets
  Pids      <- MCPids
INVARIANTS
  TypeOK
  Conserved
  ReportComplete
PROPERTIES
  Reports
