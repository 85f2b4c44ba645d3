------------------------------- MODULE MCTools -------------------------------
(* The small programs and functions, one of them in each behaviour.         *)
EXTENDS IcmpChecksum, PingSetup, CheckArp, SysCheck

CONSTANTS noByte, noFilter

VARIABLE tool

tools == {"checksum", "setup", "arp", "sys"}

ToolsInit == tool \in tools /\ ChecksumInit /\ SetupInit /\ ArpInit /\ SysInit

ToolsNext ==
  /\ UNCHANGED tool
  /\ \/ tool = "checksum" /\ ChecksumNext /\ UNCHANGED <<suvars, arpvars, syvars>>
     \/ tool = "setup"    /\ SetupNext    /\ UNCHANGED <<ckvars, arpvars, syvars>>
     \/ tool = "arp"      /\ ArpNext      /\ UNCHANGED <<ckvars, suvars, syvars>>
     \/ tool = "sys"      /\ SysNext      /\ UNCHANGED <<ckvars, suvars, arpvars>>

ToolsSpec == ToolsInit /\ [][ToolsNext]_<<tool, ckvars, suvars, arpvars, syvars>>

-----------------------------------------------------------------------------
(* Words of four bits: the shortest packets are the header alone, the       *)
(* longest ones carry as much as the length field can say.                  *)
Edges     == {0, 1, 8, 15}
MCPackets ==
  [1 .. 2 -> Edges] \cup [1 .. 3 -> Edges] \cup {[n \in 1 .. 7 |-> w] : w \in {8, 15}}
  \cup {[n \in 1 .. 7 |-> IF n < m THEN 15 ELSE 1] : m \in 2 .. 6}
MCOddBytes == {0, 1, 3, noByte}
MCDamages  == {0, 1, 14, 15}

MCPingProgs == {"ping2", "ping3", "ping_client", "ping_main"}

(* An interface is listed for each of its families; lo is shorter than the  *)
(* filter eth1.                                                             *)
MCLists   == {<<>>, <<"lo", "eth0", "eth1">>, <<"eth0", "eth1", "eth0", "eth1">>}
MCFilters == {noFilter, "eth1"}
MCShort   == {<<"eth1", "lo">>}
MCBegins  == {<<"eth1", "eth1">>}

MCPciSlots   == {"s1", "s2"}
MCCards      == [vendor : {1, 2}, device : {1, 2}]
MCKnownPciId == {<<1, 1>>}
MCcpu_list   == <<"2650", "2678", "2620">>
MCBrands     ==
  {[models |-> ms, version |-> v, spaced |-> s] :
     ms \in {{}, {"2678"}, {"2678", "2620"}, {"2650", "2620"}}, v \in BOOLEAN, s \in BOOLEAN}
=============================================================================
