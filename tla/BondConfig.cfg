SPECIFICATION Spec
CONSTANTS
  bond0 = bond0  eth0 = eth0  eth1 = eth1  eth2 = eth2  none = none
  Bond     <- bond0
  None     <- none
  Ifs      <- MCIfs
  Programs <- MCAllPrograms
  Commands <- MCCommands
  Bonds    <- MCAllBonds
  Missing  <- MCMissing
  Faulty   <- MCMaybe
  Meddling = 1
INVARIANTS
  TypeOK
  ConfiguredAsAsked
  MissIsReported
  RerunKeepsBondUp
