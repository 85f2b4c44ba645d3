SPECIFICATION Spec
CONSTANTS
  unset    = unset
  Unset    <- unset
  Progs    <- MCProgs
  Args     <- MCFewArgs
  MaxArgs  = 4
  Slotids  <- MCOneSlot
  Existing <- MCExisting
  Default  = "bond0"
INVARIANTS
  AddOptionAdds
