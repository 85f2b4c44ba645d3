------------------------------- MODULE CheckArp -------------------------------
(***************************************************************************)
(* check_arp_by_ip of arp/check_arp.c: the list of interfaces is taken     *)
(* once, and the kernel's ARP table is asked for the address on one        *)
(* interface after the other, until one has a complete entry.  The kernel  *)
(* resolves the address and lets entries expire in the meantime.           *)
(***************************************************************************)
EXTENDS Integers, Sequences, SequencesExt

CONSTANTS
  Lists,    \* lists getifaddrs may return; an interface is in it once per family
  Filters,  \* ifn_cmp, NoFilter for the empty string
  NoFilter,
  Short,    \* pairs <<filter, interface>>: the name is shorter than the filter
  Begins    \* pairs <<filter, interface>>: the name begins with the filter

VARIABLES
  arppc,            \* "idle", "look", "done"
  list, filter, at, \* the list, ifn_cmp and the position of the loop
  arp,              \* the kernel's entry for the address, by interface
  arp_ret,          \* what check_arp_by_ip returned
  was               \* history: how each interface looked since the list was taken

arpvars == <<arppc, list, filter, at, arp, arp_ret, was>>

Ifns    == UNION {ToSet(l) : l \in Lists}
Entries == {"none", "incomplete", "complete"}

ASSUME ArpAssumption ==
  Lists \subseteq Seq(Ifns) /\ Short \cap Begins = {} /\ NoFilter \in Filters

-----------------------------------------------------------------------------
Selected(n) == filter = NoFilter \/ <<filter, n>> \in Short \cup Begins

(* getarp: without a socket or an entry the answer is -1.                  *)
getarp(n) ==
  CASE arp[n] = "complete" -> 1 [] arp[n] = "incomplete" -> 0 [] OTHER -> -1

GetIfAddrs ==
  /\ arppc = "idle"
  /\ arp' \in [Ifns -> Entries] /\ was' = [n \in Ifns |-> {arp'[n]}]
  /\ list' \in Lists /\ filter' \in Filters /\ at' = 1
  /\ arppc' = "look"
  /\ UNCHANGED arp_ret

GetIfAddrsFails ==
  /\ arppc = "idle"
  /\ arp_ret' = -1 /\ arppc' = "done"
  /\ UNCHANGED <<list, filter, at, arp, was>>

Looking == arppc = "look" /\ at <= Len(list)

Skip ==
  /\ Looking /\ ~Selected(list[at])
  /\ at' = at + 1
  /\ UNCHANGED <<arppc, list, filter, arp, arp_ret, was>>

AnyAnswer(ret)  == ret # 0   \* fault: if (getarp())
Confirmed(ret)  == ret > 0

Ask ==
  /\ Looking /\ Selected(list[at])
  /\ IF Confirmed(getarp(list[at]))
     THEN arp_ret' = 1 /\ arppc' = "done" /\ UNCHANGED at
     ELSE at' = at + 1 /\ UNCHANGED <<arp_ret, arppc>>
  /\ UNCHANGED <<list, filter, arp, was>>

GetArpFails ==
  /\ Looking /\ Selected(list[at])
  /\ at' = at + 1
  /\ was' = [was EXCEPT ![list[at]] = @ \cup {"unasked"}]
  /\ UNCHANGED <<arppc, list, filter, arp, arp_ret>>

ListEnds ==
  /\ arppc = "look" /\ at > Len(list)
  /\ arp_ret' = 0 /\ arppc' = "done"
  /\ UNCHANGED <<list, filter, at, arp, was>>

(* The kernel.                                                             *)
EntryChanges ==
  /\ arppc = "look"
  /\ \E n \in Ifns, e \in Entries :
       arp' = [arp EXCEPT ![n] = e] /\ was' = [was EXCEPT ![n] = @ \cup {e}]
  /\ UNCHANGED <<arppc, list, filter, at, arp_ret>>

ArpInit ==
  /\ arppc = "idle" /\ list = <<>> /\ filter = NoFilter /\ at = 1 /\ arp_ret = 0
  /\ arp = [n \in Ifns |-> "none"] /\ was = [n \in Ifns |-> {}]

ArpEnds == arppc = "done" /\ UNCHANGED arpvars

ArpNext ==
  \/ GetIfAddrs \/ GetIfAddrsFails \/ Skip \/ Ask \/ GetArpFails \/ ListEnds
  \/ EntryChanges \/ ArpEnds

ArpSpec == ArpInit /\ [][ArpNext]_arpvars

-----------------------------------------------------------------------------
(* Although the table changes while it is read, the verdict was true of    *)
(* each interface at some moment of the call: "known" means that a         *)
(* selected interface had a complete entry, "unknown" that none kept one   *)
(* from beginning to end without the question having failed.  A name that  *)
(* is shorter than the filter counts as selected.                          *)
ArpVerdictHeld ==
  arppc = "done" =>
    /\ arp_ret = 1 => \E n \in ToSet(list) : Selected(n) /\ "complete" \in was[n]
    /\ arp_ret = 0 => \A n \in ToSet(list) : Selected(n) => was[n] # {"complete"}
=============================================================================
