SPECIFICATION Spec
CONSTANTS
  Hosts    <- MCHosts
  Own      <- MCOwn
  Deleted  <- MCDeleted
  Asked    = 2
  Bcast    <- MCBcast
  Pid      <- MCLargePid
  NetKinds <- MCQuiet
INVARIANTS
  AnsweredMeansOk
