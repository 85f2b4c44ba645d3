------------------------------- MODULE SysCheck -------------------------------
(***************************************************************************)
(* sys_info_str of sys_check.c: the capacity of the known network cards,   *)
(* the number of memory nodes and the processor's name make one string,    *)
(* which is empty when a part cannot be had.  A card may be pulled or      *)
(* exchanged between the reading of the directory and of its two files.    *)
(***************************************************************************)
EXTENDS Integers, Sequences, FiniteSets, SequencesExt

CONSTANTS
  PciSlots,   \* the entries of the directory of devices
  Cards,      \* what may be in them: records [vendor, device]
  KnownPciId, \* the pairs <<vendor, device>> of the table
  cpu_list,   \* the models that are looked for, in this order
  Brands,     \* what cpuid may say: see Brand
  Nodes,      \* the number of memory nodes
  Pulls       \* bound: how often a card is pulled or exchanged

NoCard  == [vendor |-> 0, device |-> 0]
Type    == 10   \* of every entry of KnownPciId
Unknown == "unkown"

(* The models that occur in the name, whether a v or V follows the first   *)
(* one of them, and whether a space follows that.                          *)
Brand == [models : SUBSET ToSet(cpu_list), version : BOOLEAN, spaced : BOOLEAN]

ASSUME SysAssumption ==
  /\ Brands \subseteq Brand /\ Nodes \in Nat /\ Pulls \in Nat
  /\ Cards \subseteq [vendor : Nat \ {0}, device : Nat \ {0}]
  /\ \A k \in KnownPciId : k[1] \in Nat \ {0} /\ k[2] \in Nat \ {0}
  /\ IsFiniteSet(PciSlots) /\ cpu_list \in Seq(STRING)

VARIABLES
  sypc,          \* "idle", "device", "vendor", "nodes", "brand", "extract", "done"
  cards,         \* the machine: the card in each slot
  pci_dir_list,  \* slots still to be read
  device_id, cap,
  nodes, brand,  \* what was read; nodes is -1 when the directory is not there
  report,        \* the string: [model, version, nodes, cap]
  pulled         \* how often a card was pulled or exchanged

syvars == <<sypc, cards, pci_dir_list, device_id, cap, nodes, brand, report, pulled>>

KnownIn(c) == <<c.vendor, c.device>> \in KnownPciId

-----------------------------------------------------------------------------
(* read_eth_device                                                         *)

ReadDir ==
  /\ sypc = "idle"
  /\ cards' \in [PciSlots -> Cards \cup {NoCard}]
  /\ pci_dir_list' = SetToSeq({s \in PciSlots : cards'[s] # NoCard})
  /\ sypc' = "device"
  /\ UNCHANGED <<device_id, cap, nodes, brand, report, pulled>>

OpenDirFails ==
  /\ sypc = "idle"
  /\ cap' = -1 /\ sypc' = "nodes"
  /\ UNCHANGED <<cards, pci_dir_list, device_id, nodes, brand, report, pulled>>

(* read_hex: 0 when the file is not there.  When the card goes after the   *)
(* file was opened, nothing is read into the variable, and its value is    *)
(* what was in that place of memory.                                       *)
read_hex(slot, file) ==
  IF cards[slot] # NoCard THEN {cards[slot][file]}
  ELSE {0} \cup {c[file] : c \in Cards}

ReadDevice ==
  /\ sypc = "device" /\ pci_dir_list # <<>>
  /\ device_id' \in read_hex(Head(pci_dir_list), "device")
  /\ sypc' = "vendor"
  /\ UNCHANGED <<cards, pci_dir_list, cap, nodes, brand, report, pulled>>

DeviceOnly(vendor, device) == \E k \in KnownPciId : k[2] = device  \* fault: any vendor
Listed(vendor, device)     == <<vendor, device>> \in KnownPciId

ReadVendor ==
  /\ sypc = "vendor"
  /\ \E vendor \in read_hex(Head(pci_dir_list), "vendor") :
       cap' = IF Listed(vendor, device_id) THEN cap + Type ELSE cap
  /\ pci_dir_list' = Tail(pci_dir_list)
  /\ sypc' = "device"
  /\ UNCHANGED <<cards, device_id, nodes, brand, report, pulled>>

ListDone ==
  /\ sypc = "device" /\ pci_dir_list = <<>>
  /\ sypc' = "nodes"
  /\ UNCHANGED <<cards, pci_dir_list, device_id, cap, nodes, brand, report, pulled>>

read_nodes ==
  /\ sypc = "nodes"
  /\ nodes' \in {-1, Nodes}
  /\ sypc' = "brand"
  /\ UNCHANGED <<cards, pci_dir_list, device_id, cap, brand, report, pulled>>

get_cpu_brand ==
  /\ sypc = "brand"
  /\ brand' \in Brands
  /\ sypc' = "extract"
  /\ UNCHANGED <<cards, pci_dir_list, device_id, cap, nodes, report, pulled>>

-----------------------------------------------------------------------------
(* The first model of the list that occurs, and from the v behind it up to *)
(* the next space; without a space nothing is appended.                    *)
extract_cpu_brand ==
  IF brand.models = {} THEN [model |-> Unknown, version |-> FALSE]
  ELSE [model   |-> cpu_list[CHOOSE n \in DOMAIN cpu_list :
                      cpu_list[n] \in brand.models /\ \A m \in 1 .. n - 1 : cpu_list[m] \notin brand.models],
        version |-> brand.version /\ brand.spaced]

(* The string that is empty.                                               *)
Nothing == [model |-> "", version |-> FALSE, nodes |-> 0, cap |-> 0]

Report ==
  /\ sypc = "extract"
  /\ LET name == extract_cpu_brand IN
       report' = IF cap < 0 \/ nodes < 0 \/ name.model = Unknown THEN Nothing
                 ELSE [model |-> name.model, version |-> name.version, nodes |-> nodes, cap |-> cap]
  /\ sypc' = "done"
  /\ UNCHANGED <<cards, pci_dir_list, device_id, cap, nodes, brand, pulled>>

(* malloc fails in extract_cpu_brand or in sys_info_str.                   *)
NoMemory ==
  /\ sypc = "extract"
  /\ report' = Nothing /\ sypc' = "done"
  /\ UNCHANGED <<cards, pci_dir_list, device_id, cap, nodes, brand, pulled>>

Pull ==
  /\ sypc \in {"device", "vendor"} /\ pulled < Pulls
  /\ \E s \in PciSlots, c \in Cards \cup {NoCard} : cards[s] # NoCard /\ cards' = [cards EXCEPT ![s] = c]
  /\ pulled' = pulled + 1
  /\ UNCHANGED <<sypc, pci_dir_list, device_id, cap, nodes, brand, report>>

SysInit ==
  /\ sypc = "idle" /\ cards = [s \in PciSlots |-> NoCard] /\ pci_dir_list = <<>>
  /\ device_id = 0 /\ cap = 0 /\ nodes = 0 /\ report = Nothing /\ pulled = 0
  /\ brand = [models |-> {}, version |-> FALSE, spaced |-> FALSE]

SysEnds == sypc = "done" /\ UNCHANGED syvars

SysNext ==
  \/ ReadDir \/ OpenDirFails \/ ReadDevice \/ ReadVendor \/ ListDone \/ read_nodes
  \/ get_cpu_brand \/ Report \/ NoMemory \/ Pull \/ SysEnds

SysSpec == SysInit /\ [][SysNext]_syvars

-----------------------------------------------------------------------------
Installed == {s \in PciSlots : KnownIn(cards[s])}

(* A report that is not empty names a model that is in the processor's     *)
(* name and no other, and counts the known cards: all of them when the     *)
(* machine was left alone, and when cards were pulled or exchanged, at     *)
(* most as many more or fewer as there were such events.                   *)
ReportExact ==
  sypc = "done" /\ report # Nothing =>
    /\ report.model \in brand.models /\ report.nodes = Nodes
    /\ report.version => brand.version
    /\ report.cap \in {Type * (Cardinality(Installed) + k) : k \in -pulled .. pulled}
=============================================================================
