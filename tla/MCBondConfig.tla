---------------------------- MODULE MCBondConfig ----------------------------
(* A machine with three interfaces, and the commands made of three modes   *)
(* (one of them with a primary), the delays with and without an interval,  *)
(* and one or two slaves to add or to remove.                              *)
EXTENDS BondConfig

CONSTANTS bond0, eth0, eth1, eth2, none

MCIfs         == {eth0, eth1, eth2}
MCMissing     == {eth0, eth1}
MCAllPrograms == {"bonding0", "bonding1"}
MCAllBonds    == {"fresh", "running"}
MCMaybe       == BOOLEAN

MCCommands ==
  [ifn : {bond0}, mode : {0, 1, 4}, miimon : {-1, 100}, updelay : {-1, 250}, downdelay : {-1, 200},
   use_carrier : {0}, primary : {none, eth1}, slaves : {<<eth0, eth1>>}, add : {TRUE}]
  \cup
  [ifn : {bond0}, mode : {0}, miimon : {-5, 0, 100}, updelay : {-5, 250}, downdelay : {-1},
   use_carrier : {2}, primary : {none}, slaves : {<<eth0, eth0>>}, add : {TRUE}]
  \cup
  [ifn : {bond0, eth2}, mode : {-1, 1}, miimon : {100}, updelay : {-1, 250}, downdelay : {-1},
   use_carrier : {-1}, primary : {none}, slaves : {<<eth1>>, <<eth0, eth1>>}, add : {FALSE}]

MCBonding0  == {"bonding0"}
MCFresh     == {"fresh"}
MCSound     == {FALSE}
MCExample1  ==
  {[ifn |-> bond0, mode |-> 1, miimon |-> 100, updelay |-> -1, downdelay |-> -1, use_carrier |-> -1,
    primary |-> none, slaves |-> <<eth0, eth1>>, add |-> TRUE]}
=============================================================================
