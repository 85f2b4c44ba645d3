----------------------------- MODULE MCPingProbe -----------------------------
(* Three neighbours around this machine's address, and foreign hosts with  *)
(* an address below and above all of them.                                 *)
EXTENDS PingProbe

MCHosts     == 2 .. 5
MCOwn       == 3
MCStrangers == {1, 9}
MCTargets   == {2, 3}
=============================================================================
