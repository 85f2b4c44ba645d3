SPECIFICATION FairSpec
CONSTANTS
  Total    = 4
  self     = 0
  ethA = ethA  ethB = ethB  ethAB = ethAB  none = none
  Bonds     <- MCBonds
  NoActive  <- none
  PrefixOf  <- MCPrefixOf
  HostUp    <- MCHosts
  Works     <- MCOneWorks
  FaultSets <- MCFaultSets
INVARIANTS
  TypeOK
  MutualExclusion
  CountExact
  FailoverJustified
  EndsOnWorkingPath
PROPERTIES
  StaleJoinNeedsFailure
  NextRoundOtherPath
  Finishes
