----------------------------- MODULE MCPingSweep -----------------------------
(* A network of three neighbours and this machine; the first neighbour is  *)
(* deleted between the rounds.                                             *)
EXTENDS PingSweep

MCHosts    == 1 .. 4
MCOwn      == 4
MCDeleted  == {1, 4}
MCBcast    == 99
MCSmallPid == 4242
MCLargePid == 2^16 + 4242

MCQuiet    == {[strays |-> 0, dups |-> 0, late |-> FALSE]}
MCAllNets  ==
  {[strays |-> 0, dups |-> 1, late |-> FALSE], [strays |-> 1, dups |-> 0, late |-> TRUE]}
=============================================================================
