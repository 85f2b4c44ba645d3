------------------------------ MODULE MCBonding ------------------------------
(* Command lines of up to four options out of eighteen, on a machine with  *)
(* two interfaces and a bond.                                              *)
EXTENDS Bonding

CONSTANT unset

MCProgs    == {"bonding0", "bonding1"}
MCIfs      == {"eth0", "eth1"}
MCExisting == {"eth0", "eth1", "bond0"}
MCSlotids  == {0, 5, unset}

(* An option whose argument stands apart, or that has none, and the        *)
(* options with their argument attached.                                   *)
Option(o, a) == [opt |-> o, arg |-> a, word |-> a]

Flags      == {Option(o, "") : o \in {"no_bonding", "switch", "no_ping", "no_switch", "unknown"}}
Names      ==
  {Option("b", "bond0"), Option("b", "bond1"), Option("b", "eth0"), Option("a", "eth0"),
   Option("a", "eth1"), Option("r", "eth1"), Option("p", "eth1")}
Attached   ==
  {[opt |-> "b", arg |-> "bond0", word |-> "-bbond0"], [opt |-> "p", arg |-> "eth1", word |-> "-peth1"]}
Numbers    == {Option("m", 1), Option("m", 4), Option("i", 100), Option("u", 250)}

MCArgs     == Flags \cup Names \cup Attached \cup Numbers
=============================================================================
