SPECIFICATION FairSpec
CONSTANTS
  Hosts    <- MCHosts
  Own      <- MCOwn
  Deleted  <- MCDeleted
  Asked    = 2
  Bcast    <- MCBcast
  Pid      <- MCSmallPid
  NetKinds <- MCAllNets
INVARIANTS
  TypeOK
  OkMeansAnswered
  AnsweredMeansOk
  ReportTruthful
PROPERTIES
  Finishes
