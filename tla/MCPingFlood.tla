----------------------------- MODULE MCPingFlood -----------------------------
(* A few requests and a receive buffer of two packets, so that it          *)
(* overflows; every kind of network.                                       *)
EXTENDS PingFlood

MCAllNets  == NetKind
MCLoopback == {[near |-> TRUE, late |-> FALSE]}

(* A process id that fits the 16 bits of the header's field, and one that  *)
(* does not.                                                               *)
MCSmallPid == {4242}
MCPids     == {4242, 2^16 + 4242}
=============================================================================
