SPECIFICATION FairSpec
CONSTANTS
  T         = 2
  RcvMax    = 2
  Strays    = 0
  Dups      = 1
  NetKinds  <- MCLoopback
  Pids      <- MCSmallPid
PROPERTIES
  AlwaysReports
