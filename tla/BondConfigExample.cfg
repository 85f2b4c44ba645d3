SPECIFICATION Spec
CONSTANTS
  bond0 = bond0  eth0 = eth0  eth1 = eth1  eth2 = eth2  none = none
  Bond     <- bond0
  None     <- none
  Ifs      <- MCIfs
  Programs <- MCBonding0
  Commands <- MCExample1
  Bonds    <- MCFresh
  Missing  <- MCMissing
  Faulty   <- MCSound
  Meddling = 1
INVARIANTS
  Example1Works
