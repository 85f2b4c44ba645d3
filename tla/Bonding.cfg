SPECIFICATION BondingSpec
CONSTANTS
  unset    = unset
  Unset    <- unset
  Progs    <- MCProgs
  Args     <- MCArgs
  MaxArgs  = 4
  Slotids  <- MCSlotids
  Existing <- MCExisting
  Default  = "bond0"
  Bond     = "bond0"
  None     = ""
  Ifs      <- MCIfs
INVARIANTS
  ChoiceAsAsked
  NamesFreedOnce
  CommandTakesEffect
