SPECIFICATION FairSpec
CONSTANTS
  Hosts     <- MCHosts
  Own       <- MCOwn
  Strangers <- MCStrangers
  Targets   <- MCTargets
  Num       = 5
  Pid       = 4242
  MaxStrays = 1
  MaxDups   = 1
INVARIANTS
  TypeOK
  LastPacketDecides
  CountsAddUp
  OutsideOnlyByStranger
  QuietAnswer
PROPERTIES
  Finishes
