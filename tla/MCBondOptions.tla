---------------------------- MODULE MCBondOptions ----------------------------
(* Command lines of bonding1 with up to four of -b, -a, -r and -m.         *)
EXTENDS BondOptions

CONSTANT unset

Option(o, a) == [opt |-> o, arg |-> a, word |-> a]

MCProgs    == {"bonding1"}
MCFewArgs  ==
  {Option("b", "bond1"), Option("a", "eth0"), Option("r", "eth1"), Option("m", 1)}
MCOneSlot  == {5}
MCExisting == {"bond0"}
=============================================================================
