----------------------------- MODULE MCBondPing -----------------------------
(* Four slots, one of them this board's own, and a bond of two or three    *)
(* slaves; the name of ethA is a prefix of ethAB.                          *)
EXTENDS BondPing

CONSTANTS ethA, ethB, ethAB, none

MCBonds     == {<<ethA, ethB>>, <<ethA, ethAB, ethB>>}
MCPrefixOf  == {<<ethA, ethAB>>}
MCOneWorks  == {ethB}
MCHosts     == {0, 1, 2}
MCFaultSets == {{}, {"loss", "create"}, FaultKinds}
=============================================================================
