----------------------------- MODULE Tools_proofs -----------------------------
(***************************************************************************)
(* The set-up of the ping programs, the ARP check and the system report,   *)
(* for any programs, interfaces, cards and processor names: the machine    *)
(* may change or refuse at every step, and what is said at the end is true *)
(* nevertheless.  The checksum of the ICMP header, for any messages and    *)
(* words of any of the widths.                                             *)
(***************************************************************************)
EXTENDS PingSetup, CheckArp, SysCheck, IcmpChecksum, FiniteSetTheorems, WellFoundedInduction, TLAPS

-----------------------------------------------------------------------------
(* PingSetup                                                               *)

(* What a program holds at each step: a step is reached only with what the *)
(* steps before it in the program's order left.                            *)
Held ==
  CASE supc \in {"idle", "alloc"} -> {}
    [] supc = "socket" -> {"ptr"}
    [] supc = "table"  -> {"ptr"}
    [] supc = "bind" /\ suprog = "ping2" -> {"ptr"}
    [] OTHER -> {"ptr", "table"}

BindPassed ==
  \/ supc = "address"
  \/ supc \in {"table", "ready"} /\ suprog = "ping2"
  \/ supc = "ready" /\ suprog = "ping_main"

SetupInv ==
  /\ suprog \in {"ping2", "ping3", "ping_client", "ping_main"}
  /\ supc \in {"idle", "alloc", "socket", "table", "ready", "freed", "exit"}
       \cup (IF suprog \in {"ping2", "ping_main"} THEN Asking ELSE {})
  /\ supc = "exit" => printed = TRUE /\ "temp" \notin fds
  /\ supc = "freed" => fds = {} /\ blocks = {}
  /\ supc \notin {"exit", "freed"} => blocks = Held
  /\ supc \in {"idle", "alloc", "socket"} => fds = {}
  /\ supc \in {"table", "ready"} => fds = {"raw"}
  /\ supc \in Asking => fds \in {{"raw"}, {"raw", "temp"}}
  /\ BindPassed => printed = TRUE \/ "bound" \in has
  /\ supc = "ready" /\ suprog = "ping2" => "ip" \in has
  /\ supc = "ready" /\ suprog = "ping_main" => printed = TRUE \/ "ip" \in has
  /\ printed \in BOOLEAN

(* The order of the steps, one after the other.                            *)
LEMMA SetupOrder ==
  /\ suprog = "ping2" =>
       /\ Following("alloc") = "socket" /\ Following("socket") = "bind"
       /\ Following("bind") = "table"   /\ Following("table") = "address"
       /\ Following("address") = "ready"
  /\ suprog \in {"ping3", "ping_client"} =>
       /\ Following("alloc") = "socket" /\ Following("socket") = "table"
       /\ Following("table") = "ready"
  /\ suprog = "ping_main" =>
       /\ Following("alloc") = "socket" /\ Following("socket") = "table"
       /\ Following("table") = "bind"   /\ Following("bind") = "address"
       /\ Following("address") = "ready"
<1> DEFINE s == Steps[suprog]
           At(step) == CHOOSE n \in DOMAIN s : s[n] = step
<1>1. \A step : Following(step) = s[1 + At(step)]
  BY DEF Following
<1>2. CASE suprog = "ping2"
  <2>1. s = <<"alloc", "socket", "bind", "table", "address", "ready">>
    BY <1>2 DEF Steps
  <2>2. At("alloc") = 1 /\ At("socket") = 2 /\ At("bind") = 3 /\ At("table") = 4 /\ At("address") = 5
    BY <2>1
  <2>3. QED
    BY <1>1, <1>2, <2>1, <2>2
<1>3. CASE suprog \in {"ping3", "ping_client"}
  <2>1. s = <<"alloc", "socket", "table", "ready">>
    BY <1>3 DEF Steps
  <2>2. At("alloc") = 1 /\ At("socket") = 2 /\ At("table") = 3
    BY <2>1
  <2>3. QED
    BY <1>1, <1>3, <2>1, <2>2
<1>4. CASE suprog = "ping_main"
  <2>1. s = <<"alloc", "socket", "table", "bind", "address", "ready">>
    BY <1>4 DEF Steps
  <2>2. At("alloc") = 1 /\ At("socket") = 2 /\ At("table") = 3 /\ At("bind") = 4 /\ At("address") = 5
    BY <2>1
  <2>3. QED
    BY <1>1, <1>4, <2>1, <2>2
<1>5. QED
  BY <1>2, <1>3, <1>4

(* One case per call of the set-up.                                        *)
LEMMA SetupStep == SetupInv /\ [SetupNext]_suvars => SetupInv'
<1> SUFFICES ASSUME SetupInv, [SetupNext]_suvars PROVE SetupInv'
  OBVIOUS
<1> USE DEF SetupInv, Held, BindPassed, Asking
<1>1. CASE Start
  BY <1>1, SetupAssumption DEF Start, SetupAssumption
<1>2. CASE AllocPtr
  BY <1>2, SetupOrder DEF AllocPtr, Proceed, Exit
<1>3. CASE OpenSocket
  BY <1>3, SetupOrder DEF OpenSocket, Proceed
<1>4. CASE SocketFails
  BY <1>4 DEF SocketFails, Exit
<1>5. CASE AllocTable
  BY <1>5, SetupOrder DEF AllocTable, Proceed, Exit
<1>6. CASE OpenTemp
  BY <1>6, SetupOrder DEF OpenTemp, GoOnOrExit, Proceed, Exit
<1>7. CASE AskFails
  BY <1>7, SetupOrder DEF AskFails, GoOnOrExit, Proceed, Exit, Closed
<1>8. CASE Bind
  BY <1>8, SetupOrder DEF Bind, Proceed
<1>9. CASE GetAddress
  BY <1>9, SetupOrder DEF GetAddress, Proceed
<1>10. CASE ping_addr_free
  BY <1>10 DEF ping_addr_free
<1>11. CASE UNCHANGED suvars
  BY <1>11 DEF suvars
<1>12. QED
  BY <1>1, <1>2, <1>3, <1>4, <1>5, <1>6, <1>7, <1>8, <1>9, <1>10, <1>11 DEF SetupNext, SetupEnds

(* A program that gets through its set-up has the memory, the socket and   *)
(* the binding it needs; one that gives up has said so and left no         *)
(* descriptor of an ioctl open; after ping_addr_free nothing is held.      *)
THEOREM SetupReady == SetupSpec => []SetupSound
<1>1. SetupInit => SetupInv
  BY DEF SetupInit, SetupInv, Held, BindPassed, Asking
<1>2. SetupInv => SetupSound
  BY DEF SetupInv, SetupSound, Held, BindPassed, Does, Steps, Asking
<1>3. QED
  BY <1>1, <1>2, SetupStep, PTL DEF SetupSpec

-----------------------------------------------------------------------------
(* CheckArp                                                                *)

(* Each entry is among what it has been, and no selected interface that    *)
(* was passed has had a complete entry all the time.                       *)
ArpTypes ==
  /\ arppc \in {"idle", "look", "done"} /\ at \in Nat \ {0}
  /\ arp \in [Ifns -> Entries] /\ was \in [Ifns -> SUBSET (Entries \cup {"unasked"})]
  /\ list \in Seq(Ifns)

ArpSoFar ==
  arppc = "look" =>
    /\ \A n \in Ifns : arp[n] \in was[n]
    /\ \A k \in 1 .. Len(list) : k < at /\ Selected(list[k]) => was[list[k]] # {"complete"}

ArpInv == ArpTypes /\ ArpSoFar /\ ArpVerdictHeld

(* An interface that has once not had a complete entry, or could not be    *)
(* asked for one, never comes to have had one all the time.                *)
LEMMA HistoryGrows ==
  ASSUME ArpTypes, arppc = "look", ArpSoFar,
         NEW n \in Ifns, NEW e \in Entries \cup {"unasked"},
         was' = [was EXCEPT ![n] = @ \cup {e}]
  PROVE  /\ was' \in [Ifns -> SUBSET (Entries \cup {"unasked"})]
         /\ e \in was'[n] /\ \A m \in Ifns : was[m] \subseteq was'[m]
         /\ \A m \in Ifns : was[m] # {"complete"} => was'[m] # {"complete"}
<1>1. was \in [Ifns -> SUBSET (Entries \cup {"unasked"})] /\ \A m \in Ifns : was[m] # {}
  BY DEF ArpTypes, ArpSoFar
<1>2. \A m \in Ifns : was'[m] = IF m = n THEN was[m] \cup {e} ELSE was[m]
  BY <1>1
<1>3. was' \in [Ifns -> SUBSET (Entries \cup {"unasked"})]
  BY <1>1
<1>4. \A m \in Ifns : was[m] # {"complete"} => was'[m] # {"complete"}
  BY <1>1, <1>2
<1>5. QED
  BY <1>2, <1>3, <1>4

(* One case per step of check_arp_by_ip and of the kernel.                 *)
LEMMA ArpStep == ArpInv /\ [ArpNext]_arpvars => ArpInv'
<1> SUFFICES ASSUME ArpInv, [ArpNext]_arpvars PROVE ArpInv'
  OBVIOUS
<1>1. /\ list \in Seq(Ifns) /\ Len(list) \in Nat /\ at \in Nat \ {0} /\ at + 1 \in Nat \ {0}
      /\ \A k \in 1 .. Len(list) : list[k] \in Ifns
      /\ arp \in [Ifns -> Entries] /\ was \in [Ifns -> SUBSET (Entries \cup {"unasked"})]
  <2>1. /\ list \in Seq(Ifns) /\ at \in Nat \ {0} /\ arp \in [Ifns -> Entries]
        /\ was \in [Ifns -> SUBSET (Entries \cup {"unasked"})]
    BY Zenon DEF ArpInv, ArpTypes
  <2>2. Len(list) \in Nat /\ \A k \in 1 .. Len(list) : list[k] \in Ifns
    BY <2>1
  <2>3. at + 1 \in Nat \ {0}
    BY <2>1
  <2>4. QED
    BY <2>1, <2>2, <2>3
<1>2. CASE GetIfAddrs
  <2>1. /\ arppc' = "look" /\ at' = 1 /\ list' \in Seq(Ifns) /\ arp' \in [Ifns -> Entries]
        /\ was' = [n \in Ifns |-> {arp'[n]}]
    BY <1>2, ArpAssumption DEF GetIfAddrs, ArpAssumption
  <2>2. was' \in [Ifns -> SUBSET (Entries \cup {"unasked"})] /\ \A n \in Ifns : arp'[n] \in was'[n]
    BY <2>1
  <2>3. ArpTypes' /\ ArpVerdictHeld'
    BY <2>1, <2>2 DEF ArpTypes, ArpVerdictHeld
  <2>4. ArpSoFar'
    BY <2>1, <2>2 DEF ArpSoFar
  <2>5. QED
    BY <2>3, <2>4 DEF ArpInv
<1>3. CASE GetIfAddrsFails
  <2>1. ArpTypes' /\ ArpSoFar'
    BY <1>3 DEF GetIfAddrsFails, ArpInv, ArpTypes, ArpSoFar
  <2>2. ArpVerdictHeld'
    BY <1>3 DEF GetIfAddrsFails, ArpVerdictHeld
  <2>3. QED
    BY <2>1, <2>2 DEF ArpInv
<1>4. CASE Skip
  <2>1. /\ arppc = "look" /\ at' = at + 1 /\ ~Selected(list[at])
        /\ UNCHANGED <<arppc, list, filter, arp, arp_ret, was>>
    BY <1>4 DEF Skip, Looking
  <2>2. ArpTypes' /\ ArpVerdictHeld'
    BY <1>1, <2>1 DEF ArpInv, ArpTypes, ArpVerdictHeld
  <2>3. ArpSoFar'
    <3>1. \A k \in 1 .. Len(list) : k < at' /\ Selected(list[k]) => was[list[k]] # {"complete"}
      BY <1>1, <2>1 DEF ArpInv, ArpSoFar
    <3>2. QED
      BY <2>1, <3>1 DEF ArpInv, ArpSoFar, Selected
  <2>4. QED
    BY <2>2, <2>3 DEF ArpInv
<1>5. CASE Ask
  <2>1. /\ arppc = "look" /\ at \in 1 .. Len(list) /\ Selected(list[at]) /\ list[at] \in Ifns
        /\ UNCHANGED <<list, filter, arp, was>>
    BY <1>1, <1>5 DEF Ask, Looking
  <2>2. CASE Confirmed(getarp(list[at]))
    <3>1. arp_ret' = 1 /\ arppc' = "done" /\ at' = at
      BY <1>5, <2>2 DEF Ask
    <3>2. arp[list[at]] = "complete"
      BY <2>2 DEF Confirmed, getarp
    <3>3. list[at] \in ToSet(list) /\ "complete" \in was[list[at]]
      BY <1>1, <2>1, <3>2 DEF ToSet, ArpInv, ArpSoFar
    <3>4. ArpVerdictHeld'
      BY <2>1, <3>1, <3>3 DEF ArpVerdictHeld, Selected
    <3>5. ArpTypes' /\ ArpSoFar'
      BY <2>1, <3>1 DEF ArpInv, ArpTypes, ArpSoFar
    <3>6. QED
      BY <3>4, <3>5 DEF ArpInv
  <2>3. CASE ~Confirmed(getarp(list[at]))
    <3>1. at' = at + 1 /\ UNCHANGED <<arp_ret, arppc>>
      BY <1>5, <2>3 DEF Ask
    <3>2. arp[list[at]] # "complete" /\ arp[list[at]] \in was[list[at]]
      BY <2>1, <2>3 DEF Confirmed, getarp, ArpInv, ArpSoFar
    <3>3. \A k \in 1 .. Len(list) : k < at' /\ Selected(list[k]) => was[list[k]] # {"complete"}
      BY <1>1, <2>1, <3>1, <3>2 DEF ArpInv, ArpSoFar
    <3>4. ArpTypes' /\ ArpVerdictHeld'
      BY <1>1, <2>1, <3>1 DEF ArpInv, ArpTypes, ArpVerdictHeld
    <3>5. ArpSoFar'
      BY <2>1, <3>1, <3>3 DEF ArpInv, ArpSoFar, Selected
    <3>6. QED
      BY <3>4, <3>5 DEF ArpInv
  <2>4. QED
    BY <2>2, <2>3
<1>6. CASE GetArpFails
  <2>1. /\ arppc = "look" /\ at \in 1 .. Len(list) /\ list[at] \in Ifns /\ at' = at + 1
        /\ was' = [was EXCEPT ![list[at]] = @ \cup {"unasked"}]
        /\ UNCHANGED <<arppc, list, filter, arp, arp_ret>>
    BY <1>1, <1>6 DEF GetArpFails, Looking
  <2>2. /\ was' \in [Ifns -> SUBSET (Entries \cup {"unasked"})]
        /\ \A n \in Ifns : was[n] \subseteq was'[n]
        /\ was'[list[at]] # {"complete"}
        /\ \A n \in Ifns : was[n] # {"complete"} => was'[n] # {"complete"}
    BY <2>1, HistoryGrows DEF ArpInv
  <2>3. ASSUME NEW k \in 1 .. Len(list), k < at', Selected(list[k])
        PROVE  was'[list[k]] # {"complete"}
    <3>1. CASE k = at
      BY <2>2, <3>1
    <3>2. CASE k < at
      BY <1>1, <2>1, <2>2, <2>3, <3>2 DEF ArpInv, ArpSoFar
    <3>3. k < at + 1 /\ k \in Int /\ at \in Int
      BY <1>1, <2>1, <2>3
    <3>4. QED
      BY <3>1, <3>2, <3>3
  <2>4. ArpTypes' /\ ArpVerdictHeld'
    BY <1>1, <2>1, <2>2 DEF ArpTypes, ArpVerdictHeld
  <2>5. ArpSoFar'
    <3>1. \A n \in Ifns : arp[n] \in was'[n]
      BY <2>1, <2>2 DEF ArpInv, ArpSoFar
    <3>2. QED
      BY <2>1, <2>3, <3>1 DEF ArpSoFar, Selected
  <2>6. QED
    BY <2>4, <2>5 DEF ArpInv
<1>7. CASE ListEnds
  <2>1. /\ arppc = "look" /\ at > Len(list) /\ arp_ret' = 0
        /\ arppc' = "done" /\ UNCHANGED <<list, filter, at, arp, was>>
    BY <1>7 DEF ListEnds
  <2>2. \A n \in ToSet(list) : Selected(n) => was[n] # {"complete"}
    BY <1>1, <2>1 DEF ToSet, ArpInv, ArpSoFar
  <2>3. ArpVerdictHeld'
    BY <2>1, <2>2 DEF ArpVerdictHeld, Selected
  <2>4. ArpTypes' /\ ArpSoFar'
    BY <2>1 DEF ArpInv, ArpTypes, ArpSoFar
  <2>5. QED
    BY <2>3, <2>4 DEF ArpInv
<1>8. CASE EntryChanges
  <2>1. PICK n \in Ifns, e \in Entries :
          arp' = [arp EXCEPT ![n] = e] /\ was' = [was EXCEPT ![n] = @ \cup {e}]
    BY <1>8 DEF EntryChanges
  <2>2. arppc = "look" /\ UNCHANGED <<arppc, list, filter, at, arp_ret>>
    BY <1>8 DEF EntryChanges
  <2>3. /\ was' \in [Ifns -> SUBSET (Entries \cup {"unasked"})]
        /\ e \in was'[n] /\ \A m \in Ifns : was[m] \subseteq was'[m]
        /\ \A m \in Ifns : was[m] # {"complete"} => was'[m] # {"complete"}
    BY <2>1, <2>2, HistoryGrows DEF ArpInv
  <2>4. ArpTypes' /\ ArpVerdictHeld'
    BY <1>1, <2>1, <2>2, <2>3 DEF ArpTypes, ArpVerdictHeld
  <2>5. ArpSoFar'
    <3>1. \A m \in Ifns : arp'[m] \in was'[m]
      BY <1>1, <2>1, <2>2, <2>3 DEF ArpInv, ArpSoFar
    <3>2. \A k \in 1 .. Len(list) : k < at /\ Selected(list[k]) => was'[list[k]] # {"complete"}
      BY <1>1, <2>2, <2>3 DEF ArpInv, ArpSoFar
    <3>3. QED
      BY <2>2, <3>1, <3>2 DEF ArpSoFar, Selected
  <2>6. QED
    BY <2>4, <2>5 DEF ArpInv
<1>9. CASE UNCHANGED arpvars
  BY <1>9 DEF arpvars, ArpInv, ArpTypes, ArpSoFar, ArpVerdictHeld, Selected
<1>10. QED
  BY <1>2, <1>3, <1>4, <1>5, <1>6, <1>7, <1>8, <1>9 DEF ArpNext, ArpEnds

(* The verdict of check_arp_by_ip was true of the table at some moment of  *)
(* the call, though the table changes while it is read.                    *)
THEOREM ArpVerdictTrue == ArpSpec => []ArpVerdictHeld
<1>1. ArpInit => ArpInv
  BY DEF ArpInit, ArpInv, ArpTypes, ArpSoFar, ArpVerdictHeld, Entries
<1>2. ArpInv => ArpVerdictHeld
  BY DEF ArpInv
<1>3. QED
  BY <1>1, <1>2, ArpStep, PTL DEF ArpSpec

-----------------------------------------------------------------------------
(* SysCheck                                                                *)

(* The capacity counts a set of slots that differs from the known cards    *)
(* read so far only in slots that were disturbed, each by an event of its  *)
(* own.                                                                    *)
Unread == ToSet(pci_dir_list)

CountsUpTo(Disturbed, InCap) ==
  /\ Cardinality(Disturbed) <= pulled
  /\ cap = Type * Cardinality(InCap) /\ InCap \cap Unread = {}
  /\ \A s \in PciSlots \ Disturbed :
       /\ s \in Unread => cards[s] # NoCard
       /\ s \notin Unread => (s \in InCap <=> KnownIn(cards[s]))
  /\ sypc = "vendor" /\ Head(pci_dir_list) \notin Disturbed =>
       device_id = cards[Head(pci_dir_list)].device

SysTypes ==
  /\ sypc \in {"idle", "device", "vendor", "nodes", "brand", "extract", "done"}
  /\ cards \in [PciSlots -> Cards \cup {NoCard}] /\ pulled \in Nat /\ cap \in Int
  /\ pci_dir_list \in Seq(PciSlots) /\ IsInjective(pci_dir_list)

SysPlace ==
  /\ sypc = "idle" => cap = 0 /\ pulled = 0
  /\ sypc = "vendor" => pci_dir_list # <<>>
  /\ sypc \notin {"device", "vendor"} => pci_dir_list = <<>>
  /\ sypc \in {"device", "vendor"} => cap # -1
  /\ sypc \in {"brand", "extract", "done"} => nodes \in {-1, Nodes}
  /\ sypc \in {"extract", "done"} => brand \in Brands
  /\ sypc # "done" => report = Nothing

Counted ==
  sypc # "idle" /\ cap # -1 =>
    \E D, K \in SUBSET PciSlots : CountsUpTo(D, K)

MadeOfParts ==
  sypc = "done" /\ report # Nothing =>
    /\ cap >= 0 /\ report.nodes = Nodes /\ report.cap = cap
    /\ report.model \in brand.models /\ (report.version => brand.version)

SysInv == SysTypes /\ SysPlace /\ Counted /\ MadeOfParts

(* Every set of naturals that is not empty has a least element.            *)
LEMMA LeastNatural ==
  ASSUME NEW T \in SUBSET Nat, T # {}
  PROVE  \E n \in T : \A m \in T : n <= m
<1> DEFINE R == OpToRel(<, Nat)
<1>1. IsWellFoundedOn(R, Nat)
  BY NatLessThanWellFounded
<1>2. \A x, y \in Nat : <<x, y>> \in R <=> x < y
  BY DEF OpToRel
<1> HIDE DEF R
<1>3. PICK x \in T : \A y \in T : <<y, x>> \notin R
  BY <1>1, WFMin
<1>4. \A y \in T : x \in Nat /\ y \in Nat /\ ~(y < x)
  BY <1>2, <1>3
<1>5. \A y \in T : x <= y
  BY <1>4
<1>6. QED
  BY <1>3, <1>5

(* The list made of a finite set has each of its elements once.            *)
LEMMA SetToSeqOnce ==
  ASSUME NEW S, IsFiniteSet(S)
  PROVE  /\ SetToSeq(S) \in Seq(S) /\ IsInjective(SetToSeq(S))
         /\ ToSet(SetToSeq(S)) = S
<1> DEFINE n == Cardinality(S)
           f == SetToSeq(S)
<1>1. n \in Nat /\ ExistsBijection(1 .. n, S)
  BY FS_CardinalityType
<1>2. \E g \in [1 .. n -> S] : IsInjective(g)
  BY <1>1 DEF ExistsBijection, Bijection, Injection
<1>3. f \in [1 .. n -> S] /\ IsInjective(f)
  BY <1>2 DEF SetToSeq
<1> HIDE DEF f
<1>4. f \in Injection(1 .. n, S)
  BY <1>3 DEF Injection
<1>5. Cardinality(1 .. n) = n
  BY <1>1, FS_Interval
<1>6. f \in Surjection(1 .. n, S)
  BY <1>4, <1>5, FS_Injection
<1>7. \A x \in S : \E k \in 1 .. n : f[k] = x
  BY <1>6 DEF Surjection
<1>8. ToSet(f) = S
  BY <1>3, <1>7 DEF ToSet
<1>9. f \in Seq(S)
  BY <1>1, <1>3
<1>10. QED
  BY <1>3, <1>8, <1>9 DEF f

(* Taking the head off such a list takes that element out of its set.      *)
LEMMA HeadTaken ==
  ASSUME NEW S, NEW s \in Seq(S), s # <<>>, IsInjective(s)
  PROVE  /\ Head(s) \in ToSet(s) /\ Head(s) \in S
         /\ Tail(s) \in Seq(S) /\ IsInjective(Tail(s))
         /\ ToSet(Tail(s)) = ToSet(s) \ {Head(s)}
<1>1. /\ Len(s) \in Nat \ {0} /\ DOMAIN s = 1 .. Len(s) /\ Head(s) = s[1]
      /\ Tail(s) \in Seq(S) /\ Len(Tail(s)) = Len(s) - 1 /\ DOMAIN Tail(s) = 1 .. Len(s) - 1
      /\ \A k \in 1 .. Len(s) - 1 : Tail(s)[k] = s[k + 1]
  OBVIOUS
<1>2. \A a, b \in 1 .. Len(s) : s[a] = s[b] => a = b
  BY <1>1 DEF IsInjective
<1>3. Head(s) \in ToSet(s) /\ Head(s) \in S
  BY <1>1 DEF ToSet
<1>4. IsInjective(Tail(s))
  BY <1>1, <1>2 DEF IsInjective
<1>5. ToSet(Tail(s)) \subseteq ToSet(s) \ {Head(s)}
  BY <1>1, <1>2 DEF ToSet
<1>6. ASSUME NEW x \in ToSet(s) \ {Head(s)} PROVE x \in ToSet(Tail(s))
  <2>1. PICK k \in 1 .. Len(s) : s[k] = x
    BY <1>1 DEF ToSet
  <2>2. k - 1 \in 1 .. Len(s) - 1 /\ Tail(s)[k - 1] = x
    BY <1>1, <1>6, <2>1
  <2>3. QED
    BY <1>1, <2>2 DEF ToSet
<1>7. QED
  BY <1>1, <1>3, <1>4, <1>5, <1>6

(* Two sets that differ only within a third.                               *)
LEMMA CountsClose ==
  ASSUME NEW K, NEW I, NEW D, IsFiniteSet(K), IsFiniteSet(I), IsFiniteSet(D), K \ D = I \ D
  PROVE  Cardinality(K) - Cardinality(I) \in -Cardinality(D) .. Cardinality(D)
<1>1. ASSUME NEW A, NEW B, IsFiniteSet(A), IsFiniteSet(B), A \ D = B \ D
      PROVE  Cardinality(A) <= Cardinality(B) + Cardinality(D)
  <2>1. IsFiniteSet(B \cup D) /\ A \in SUBSET (B \cup D) /\ IsFiniteSet(B \cap D)
        /\ Cardinality(B \cup D) = Cardinality(B) + Cardinality(D) - Cardinality(B \cap D)
    BY <1>1, FS_Union, FS_Intersection
  <2>2. Cardinality(A) <= Cardinality(B \cup D)
    BY <2>1, FS_Subset
  <2>3. Cardinality(B \cap D) \in Nat /\ Cardinality(A) \in Nat /\ Cardinality(B) \in Nat
        /\ Cardinality(D) \in Nat
    BY <1>1, <2>1, FS_CardinalityType
  <2>4. QED
    BY <2>1, <2>2, <2>3
<1>2. Cardinality(K) \in Nat /\ Cardinality(I) \in Nat /\ Cardinality(D) \in Nat
  BY FS_CardinalityType
<1>3. Cardinality(K) <= Cardinality(I) + Cardinality(D) /\ Cardinality(I) <= Cardinality(K) + Cardinality(D)
  BY <1>1
<1>4. QED
  BY <1>2, <1>3

(* The model that is named is one of the processor's name.                 *)
LEMMA ModelFound ==
  ASSUME brand \in Brands, extract_cpu_brand.model # Unknown
  PROVE  /\ extract_cpu_brand.model \in brand.models
         /\ extract_cpu_brand.version => brand.version
<1>1. brand.models \subseteq ToSet(cpu_list) /\ cpu_list \in Seq(STRING) /\ brand.version \in BOOLEAN
  BY SysAssumption DEF SysAssumption, Brand
<1>2. brand.models # {}
  BY DEF extract_cpu_brand
<1> DEFINE T == {n \in DOMAIN cpu_list : cpu_list[n] \in brand.models}
           First(n) == cpu_list[n] \in brand.models /\ \A m \in 1 .. n - 1 : cpu_list[m] \notin brand.models
<1>3. DOMAIN cpu_list = 1 .. Len(cpu_list) /\ Len(cpu_list) \in Nat
  BY <1>1
<1>4. T \in SUBSET Nat /\ T # {}
  BY <1>1, <1>2, <1>3 DEF ToSet
<1>5. PICK n \in T : \A m \in T : n <= m
  BY <1>4, LeastNatural
<1>6. \E k \in DOMAIN cpu_list : First(k)
  <2>1. \A m \in 1 .. n - 1 : m \notin T
    BY <1>3, <1>5
  <2>2. First(n)
    BY <1>3, <1>5, <2>1
  <2>3. QED
    BY <1>5, <2>2
<1>7. First(CHOOSE k \in DOMAIN cpu_list : First(k))
  BY <1>6
<1>8. extract_cpu_brand =
        [model |-> cpu_list[CHOOSE k \in DOMAIN cpu_list : First(k)],
         version |-> brand.version /\ brand.spaced]
  BY <1>2 DEF extract_cpu_brand
<1>9. QED
  BY <1>7, <1>8

(* The parts of SysInv that no step but a few can disturb.                 *)
LEMMA SysPartsStep ==
  ASSUME SysInv, [SysNext]_syvars
  PROVE  SysTypes' /\ SysPlace' /\ MadeOfParts'
<1>1. /\ sypc \in {"idle", "device", "vendor", "nodes", "brand", "extract", "done"}
      /\ cards \in [PciSlots -> Cards \cup {NoCard}] /\ pulled \in Nat /\ cap \in Int
      /\ pci_dir_list \in Seq(PciSlots) /\ IsInjective(pci_dir_list)
  BY DEF SysInv, SysTypes
<1>2. CASE ReadDir
  <2> DEFINE S == {s \in PciSlots : cards'[s] # NoCard}
  <2>1. IsFiniteSet(S)
    BY SysAssumption, FS_Subset DEF SysAssumption
  <2>2. pci_dir_list' \in Seq(S) /\ IsInjective(pci_dir_list')
    BY <1>2, <2>1, SetToSeqOnce DEF ReadDir
  <2>3. pci_dir_list' \in Seq(PciSlots)
    BY <2>2
  <2>4. SysTypes'
    BY <1>1, <1>2, <2>2, <2>3 DEF ReadDir, SysTypes
  <2>5. SysPlace' /\ MadeOfParts'
    BY <1>2 DEF ReadDir, SysInv, SysPlace, MadeOfParts
  <2>6. QED
    BY <2>4, <2>5
<1>3. CASE OpenDirFails
  BY <1>1, <1>3 DEF OpenDirFails, SysInv, SysTypes, SysPlace, MadeOfParts
<1>4. CASE ReadDevice
  BY <1>1, <1>4 DEF ReadDevice, SysInv, SysTypes, SysPlace, MadeOfParts
<1>5. CASE ReadVendor
  <2>1. /\ sypc = "vendor" /\ sypc' = "device" /\ pci_dir_list' = Tail(pci_dir_list)
        /\ cap' \in {cap, cap + Type}
        /\ UNCHANGED <<cards, device_id, nodes, brand, report, pulled>>
    BY <1>5 DEF ReadVendor
  <2>2. pci_dir_list # <<>>
    BY <2>1 DEF SysInv, SysPlace
  <2>3. pci_dir_list' \in Seq(PciSlots) /\ IsInjective(pci_dir_list')
    BY <1>1, <2>1, <2>2, HeadTaken
  <2>4. cap \in Nat
    <3>1. PICK D, K \in SUBSET PciSlots : CountsUpTo(D, K)
      BY <2>1 DEF SysInv, Counted, SysPlace
    <3>2. IsFiniteSet(K)
      BY SysAssumption, FS_Subset DEF SysAssumption
    <3>3. Cardinality(K) \in Nat /\ cap = Type * Cardinality(K)
      BY <3>1, <3>2, FS_CardinalityType DEF CountsUpTo
    <3>4. QED
      BY <3>3 DEF Type
  <2>5. SysTypes'
    BY <1>1, <2>1, <2>3, <2>4 DEF SysTypes, Type
  <2>6. SysPlace' /\ MadeOfParts'
    BY <2>1, <2>4 DEF SysInv, SysPlace, MadeOfParts, Type
  <2>7. QED
    BY <2>5, <2>6
<1>6. CASE ListDone
  BY <1>1, <1>6 DEF ListDone, SysInv, SysTypes, SysPlace, MadeOfParts
<1>7. CASE read_nodes
  BY <1>1, <1>7 DEF read_nodes, SysInv, SysTypes, SysPlace, MadeOfParts
<1>8. CASE get_cpu_brand
  <2>1. SysTypes' /\ MadeOfParts'
    BY <1>1, <1>8 DEF get_cpu_brand, SysInv, SysTypes, SysPlace, MadeOfParts
  <2>2. nodes \in {-1, Nodes}
    BY <1>8 DEF get_cpu_brand, SysInv, SysPlace
  <2>3. SysPlace'
    BY <1>8, <2>2 DEF get_cpu_brand, SysInv, SysPlace
  <2>4. QED
    BY <2>1, <2>3
<1>9. CASE Report
  <2>1. SysTypes' /\ SysPlace'
    BY <1>1, <1>9 DEF Report, SysInv, SysTypes, SysPlace
  <2>2. brand \in Brands /\ nodes \in {-1, Nodes} /\ UNCHANGED <<cap, nodes, brand>>
    BY <1>9 DEF Report, SysInv, SysPlace
  <2>3. CASE cap < 0 \/ nodes < 0 \/ extract_cpu_brand.model = Unknown
    BY <1>9, <2>1, <2>3 DEF Report, MadeOfParts
  <2>4. CASE cap >= 0 /\ nodes >= 0 /\ extract_cpu_brand.model # Unknown
    <3>1. report' = [model |-> extract_cpu_brand.model, version |-> extract_cpu_brand.version,
                     nodes |-> nodes, cap |-> cap]
      BY <1>1, <1>9, <2>2, <2>4, SysAssumption DEF Report, SysAssumption
    <3>2. extract_cpu_brand.model \in brand.models /\ (extract_cpu_brand.version => brand.version)
      BY <2>2, <2>4, ModelFound
    <3>3. nodes = Nodes
      BY <2>2, <2>4
    <3>4. MadeOfParts'
      BY <2>2, <2>4, <3>1, <3>2, <3>3 DEF MadeOfParts
    <3>5. QED
      BY <2>1, <3>4
  <2>5. QED
    BY <1>1, <2>1, <2>2, <2>3, <2>4, SysAssumption DEF SysAssumption
<1>10. CASE NoMemory
  BY <1>1, <1>10 DEF NoMemory, SysInv, SysTypes, SysPlace, MadeOfParts
<1>11. CASE Pull
  BY <1>1, <1>11 DEF Pull, SysInv, SysTypes, SysPlace, MadeOfParts
<1>12. CASE UNCHANGED syvars
  BY <1>1, <1>12 DEF syvars, SysInv, SysTypes, SysPlace, MadeOfParts
<1>13. QED
  BY <1>2, <1>3, <1>4, <1>5, <1>6, <1>7, <1>8, <1>9, <1>10, <1>11, <1>12 DEF SysNext, SysEnds

(* A card is counted when its vendor is read, and an event disturbs at     *)
(* most one slot.                                                          *)
LEMMA CountedStep ==
  ASSUME SysInv, [SysNext]_syvars
  PROVE  Counted'
<1>1. /\ cards \in [PciSlots -> Cards \cup {NoCard}] /\ pulled \in Nat /\ cap \in Int
      /\ pci_dir_list \in Seq(PciSlots) /\ IsInjective(pci_dir_list) /\ IsFiniteSet(PciSlots)
  BY SysAssumption DEF SysInv, SysTypes, SysAssumption
<1>2. CASE ReadDir
  <2> DEFINE S == {s \in PciSlots : cards'[s] # NoCard}
  <2>1. IsFiniteSet(S)
    BY <1>1, FS_Subset
  <2>2. Unread' = S
    BY <1>2, <2>1, SetToSeqOnce DEF ReadDir, Unread
  <2>3. \A s \in PciSlots \ S : ~KnownIn(cards[s])'
    BY SysAssumption DEF KnownIn, NoCard, SysAssumption
  <2>4. cap' = 0 /\ pulled' = 0 /\ sypc' = "device"
    BY <1>2 DEF ReadDir, SysInv, SysPlace
  <2>5. CountsUpTo({}, {})'
    BY <2>2, <2>3, <2>4, FS_EmptySet DEF CountsUpTo, Type
  <2>6. QED
    BY <2>5 DEF Counted
<1>3. CASE OpenDirFails
  BY <1>3 DEF OpenDirFails, Counted
<1>4. CASE ReadDevice
  <2>1. PICK D, K \in SUBSET PciSlots : CountsUpTo(D, K)
    BY <1>4 DEF ReadDevice, SysInv, Counted, SysPlace
  <2>2. /\ Head(pci_dir_list) \in Unread /\ Head(pci_dir_list) \in PciSlots
    BY <1>1, <1>4, HeadTaken DEF ReadDevice, Unread
  <2>3. Head(pci_dir_list) \notin D => device_id' = cards[Head(pci_dir_list)].device
    BY <1>4, <2>1, <2>2 DEF ReadDevice, read_hex, CountsUpTo
  <2>4. CountsUpTo(D, K)'
    BY <1>4, <2>1, <2>3 DEF ReadDevice, CountsUpTo, Unread, KnownIn
  <2>5. QED
    BY <2>4 DEF Counted
<1>5. CASE ReadVendor
  <2>1. PICK D, K \in SUBSET PciSlots : CountsUpTo(D, K)
    BY <1>5 DEF ReadVendor, SysInv, Counted, SysPlace
  <2> Head(pci_dir_list) \in Unread /\ Head(pci_dir_list) \in PciSlots
        /\ Unread' = Unread \ {Head(pci_dir_list)}
    BY <1>1, <1>5, HeadTaken DEF ReadVendor, Unread, SysInv, SysPlace
  <2>2. PICK h \in PciSlots :
          h = Head(pci_dir_list) /\ h \in Unread /\ Unread' = Unread \ {h}
    OBVIOUS
  <2>3. PICK vendor \in read_hex(h, "vendor") :
          cap' = IF Listed(vendor, device_id) THEN cap + Type ELSE cap
    BY <1>5, <2>2 DEF ReadVendor
  <2>4. h \notin D => (Listed(vendor, device_id) <=> KnownIn(cards[h]))
    BY <1>5, <2>1, <2>2, <2>3 DEF ReadVendor, read_hex, CountsUpTo, Listed, KnownIn
  <2>5. h \notin K /\ IsFiniteSet(K) /\ Cardinality(K) \in Nat
    BY <1>1, <2>1, <2>2, FS_Subset, FS_CardinalityType DEF CountsUpTo
  <2>6. sypc' = "device" /\ UNCHANGED <<cards, pulled>>
    BY <1>5 DEF ReadVendor
  <2>7. CASE Listed(vendor, device_id)
    <3>1. Cardinality(K \cup {h}) = Cardinality(K) + 1
      BY <2>5, FS_AddElement
    <3>2. cap' = Type * Cardinality(K \cup {h})
      BY <2>1, <2>3, <2>5, <2>7, <3>1 DEF CountsUpTo, Type
    <3>3. /\ \A s \in PciSlots \ D : s \in Unread' => cards'[s] # NoCard
          /\ (K \cup {h}) \cap Unread' = {}
      BY <2>1, <2>2, <2>6 DEF CountsUpTo
    <3>4. \A s \in PciSlots \ D : s \notin Unread' => (s \in K \cup {h} <=> KnownIn(cards[s]))
      BY <2>1, <2>2, <2>4, <2>7 DEF CountsUpTo
    <3>5. \A s \in PciSlots \ D : s \notin Unread' => (s \in K \cup {h} <=> KnownIn(cards[s])')
      BY <2>6, <3>4 DEF KnownIn
    <3>6. CountsUpTo(D, K \cup {h})'
      BY <2>1, <2>6, <3>2, <3>3, <3>5 DEF CountsUpTo
    <3>7. K \cup {h} \in SUBSET PciSlots
      BY <2>2
    <3>8. QED
      BY <3>6, <3>7 DEF Counted
  <2>8. CASE ~Listed(vendor, device_id)
    <3>1. CountsUpTo(D, K)'
      BY <2>1, <2>2, <2>3, <2>4, <2>5, <2>6, <2>8 DEF CountsUpTo, KnownIn
    <3>2. QED
      BY <3>1 DEF Counted
  <2>9. QED
    BY <2>7, <2>8
<1>6. CASE Pull
  <2>1. PICK D, K \in SUBSET PciSlots : CountsUpTo(D, K)
    BY <1>6 DEF Pull, SysInv, Counted, SysPlace
  <2>2. PICK s \in PciSlots, c \in Cards \cup {NoCard} : cards' = [cards EXCEPT ![s] = c]
    BY <1>6 DEF Pull
  <2>3. pulled' = pulled + 1 /\ UNCHANGED <<sypc, pci_dir_list, device_id, cap>>
    BY <1>6 DEF Pull
  <2>4. IsFiniteSet(D) /\ Cardinality(D \cup {s}) <= Cardinality(D) + 1 /\ Cardinality(D) \in Nat
        /\ Cardinality(D \cup {s}) \in Nat
    <3>1. IsFiniteSet(D)
      BY <1>1, FS_Subset
    <3>2. Cardinality(D) \in Nat
      BY <3>1, FS_CardinalityType
    <3>3. Cardinality(D \cup {s}) = IF s \in D THEN Cardinality(D) ELSE Cardinality(D) + 1
      BY <3>1, FS_AddElement
    <3>4. QED
      BY <3>1, <3>2, <3>3
  <2>5. \A t \in PciSlots \ (D \cup {s}) : cards'[t] = cards[t]
    BY <1>1, <2>2
  <2>6. Cardinality(D \cup {s}) <= pulled'
    BY <1>1, <2>1, <2>3, <2>4 DEF CountsUpTo
  <2>7. sypc = "vendor" => Head(pci_dir_list) \in PciSlots
    BY <1>1, HeadTaken DEF SysInv, SysPlace
  <2>8. CountsUpTo(D \cup {s}, K)'
    BY <2>1, <2>3, <2>5, <2>6, <2>7 DEF CountsUpTo, KnownIn, Unread
  <2>9. QED
    BY <2>2, <2>8 DEF Counted
<1>7. CASE ListDone \/ read_nodes \/ get_cpu_brand \/ Report \/ NoMemory \/ UNCHANGED syvars
  <2>1. /\ UNCHANGED <<cards, pci_dir_list, cap, pulled, device_id>>
        /\ (sypc' = "vendor" => sypc = "vendor") /\ (sypc' # "idle" => sypc # "idle")
    BY <1>7 DEF ListDone, read_nodes, get_cpu_brand, Report, NoMemory, syvars
  <2>2. ASSUME NEW D \in SUBSET PciSlots, NEW K \in SUBSET PciSlots, CountsUpTo(D, K)
        PROVE  CountsUpTo(D, K)'
    BY <2>1, <2>2 DEF CountsUpTo, KnownIn, Unread
  <2>3. sypc' # "idle" /\ cap' # -1 => \E D, K \in SUBSET PciSlots : CountsUpTo(D, K)
    BY <2>1 DEF SysInv, Counted
  <2>4. QED
    BY <2>2, <2>3 DEF Counted
<1>8. QED
  BY <1>2, <1>3, <1>4, <1>5, <1>6, <1>7 DEF SysNext, SysEnds

(* At the end nothing is unread, so the slots counted and the known cards  *)
(* differ only where a card was disturbed.                                 *)
LEMMA SysInvGivesReport == SysInv => ReportExact
<1> SUFFICES ASSUME SysInv, sypc = "done", report # Nothing
             PROVE  /\ report.model \in brand.models /\ report.nodes = Nodes
                    /\ report.version => brand.version
                    /\ report.cap \in {Type * (Cardinality(Installed) + k) : k \in -pulled .. pulled}
  BY DEF ReportExact
<1>1. /\ cap >= 0 /\ report.nodes = Nodes /\ report.cap = cap
      /\ report.model \in brand.models /\ (report.version => brand.version)
  BY DEF SysInv, MadeOfParts
<1>2. PICK D, K \in SUBSET PciSlots : CountsUpTo(D, K)
  BY <1>1 DEF SysInv, Counted
<1>3. Unread = {}
  BY DEF SysInv, SysPlace, Unread, ToSet
<1>4. K \ D = Installed \ D
  BY <1>2, <1>3 DEF CountsUpTo, Installed
<1>5. IsFiniteSet(K) /\ IsFiniteSet(D) /\ IsFiniteSet(Installed)
  BY SysAssumption, FS_Subset DEF SysAssumption, Installed
<1> DEFINE k == Cardinality(K) - Cardinality(Installed)
<1>6. k \in -Cardinality(D) .. Cardinality(D) /\ Cardinality(D) \in Nat
      /\ Cardinality(K) \in Nat /\ Cardinality(Installed) \in Nat
  BY <1>4, <1>5, CountsClose, FS_CardinalityType
<1>7. pulled \in Nat /\ Cardinality(D) <= pulled /\ cap = Type * Cardinality(K)
  BY <1>2 DEF CountsUpTo, SysInv, SysTypes
<1>8. k \in -pulled .. pulled /\ cap = Type * (Cardinality(Installed) + k)
  BY <1>6, <1>7 DEF Type
<1>9. QED
  BY <1>1, <1>8

(* The report that is printed names a model that was found, the number of  *)
(* memory nodes and, up to one card for each that was pulled or exchanged  *)
(* meanwhile, the capacity of the known cards (sys_info_str).              *)
THEOREM ReportIsExact == SysSpec => []ReportExact
<1>1. SysInit => SysInv
  <2>1. SysInit => SysTypes
    BY DEF SysInit, SysTypes, NoCard, IsInjective
  <2>2. SysInit => SysPlace /\ Counted /\ MadeOfParts
    BY DEF SysInit, SysPlace, Counted, MadeOfParts
  <2>3. QED
    BY <2>1, <2>2 DEF SysInv
<1>2. SysInv /\ [SysNext]_syvars => SysInv'
  BY SysPartsStep, CountedStep DEF SysInv
<1>3. QED
  BY <1>1, <1>2, SysInvGivesReport, PTL DEF SysSpec
-----------------------------------------------------------------------------
(* IcmpChecksum                                                            *)

(* f is what has been added up after each word.                            *)
Adds(f, words) ==
  /\ f[0] = 0
  /\ \A n \in 1 .. Len(words) : f[n] = f[n - 1] + words[n]

(* The recursive function of SumOf exists: were there a first word it      *)
(* could not reach, it could be extended to it.                            *)
LEMMA SumExists ==
  ASSUME NEW words \in Seq(Int)
  PROVE  \E f : f = [n \in 0 .. Len(words) |-> IF n = 0 THEN 0 ELSE f[n - 1] + words[n]]
<1> DEFINE L == Len(words)
           UpTo(f, n) == /\ f \in [0 .. L -> Int]
                         /\ f[0] = 0
                         /\ \A k \in 1 .. n : f[k] = f[k - 1] + words[k]
           Bad == {n \in 0 .. L : ~ \E f : UpTo(f, n)}
<1>1. L \in Nat /\ \A n \in 1 .. L : words[n] \in Int
  OBVIOUS
<1> HIDE DEF L
<1>2. 0 \notin Bad
  <2>1. UpTo([k \in 0 .. L |-> 0], 0)
    BY <1>1
  <2>2. QED
    BY <2>1
<1>3. ASSUME NEW n \in 0 .. L - 1, n + 1 \in Bad PROVE n \in Bad
  <2> SUFFICES ASSUME NEW f, UpTo(f, n) PROVE FALSE
    BY <1>1, <1>3
  <2> DEFINE g == [k \in 0 .. L |-> IF k = n + 1 THEN f[n] + words[n + 1] ELSE f[k]]
  <2>1. g[0] = 0 /\ g \in [0 .. L -> Int]
    <3>1. f[n] + words[n + 1] \in Int
      BY <1>1
    <3>2. QED
      BY <1>1, <3>1
  <2>2. ASSUME NEW k \in 1 .. n + 1 PROVE g[k] = g[k - 1] + words[k]
    <3>1. k \in 0 .. L /\ k - 1 \in 0 .. L /\ k - 1 # n + 1
      BY <1>1
    <3>2. g[k] = (IF k = n + 1 THEN f[n] + words[n + 1] ELSE f[k]) /\ g[k - 1] = f[k - 1]
      BY <3>1
    <3>3. f[n] \in Int /\ words[n + 1] \in Int /\ g[k - 1] \in Int
      BY <1>1, <2>1, <3>1
    <3> HIDE DEF g
    <3>4. CASE k = n + 1
      <4>1. k - 1 = n
        BY <3>4
      <4>2. g[n + 1] = f[n] + words[n + 1] /\ g[k - 1] = f[n]
        BY <3>2, <3>4, <4>1
      <4>3. QED
        BY <3>3, <3>4, <4>2
    <3>5. CASE k \in 1 .. n
      <4>1. k # n + 1 /\ f[k] = f[k - 1] + words[k]
        BY <3>5
      <4>2. QED
        BY <3>2, <4>1
    <3>6. QED
      BY <3>4, <3>5
  <2>3. UpTo(g, n + 1)
    BY <2>1, <2>2
  <2>4. QED
    BY <1>3, <2>3
<1>4. Bad = {}
  <2> SUFFICES ASSUME Bad # {} PROVE FALSE
    OBVIOUS
  <2> HIDE DEF UpTo
  <2>1. Bad \subseteq Nat
    BY <1>1
  <2>2. PICK n \in Bad : \A m \in Bad : n <= m
    BY <2>1, LeastNatural
  <2>3. n \in 1 .. L
    BY <1>1, <1>2
  <2>4. n - 1 \in 0 .. L - 1 /\ (n - 1) + 1 = n
    BY <1>1, <2>3
  <2>5. n - 1 \in Bad
    BY <1>3, <2>4
  <2>6. QED
    BY <2>1, <2>2, <2>4, <2>5
<1>5. PICK f : UpTo(f, L)
  <2>1. L \in 0 .. L
    BY <1>1
  <2>2. L \notin Bad
    BY <1>4
  <2> HIDE DEF UpTo
  <2>3. QED
    BY <2>1, <2>2
<1>6. f = [n \in 0 .. L |-> IF n = 0 THEN 0 ELSE f[n - 1] + words[n]]
  <2>1. \A n \in 0 .. L : f[n] = IF n = 0 THEN 0 ELSE f[n - 1] + words[n]
    BY <1>1, <1>5
  <2>2. QED
    BY <1>5, <2>1
<1>7. QED
  BY <1>6 DEF L

(* What SumOf returns is the last of those sums.                           *)
LEMMA SumAdds ==
  ASSUME NEW words \in Seq(Int)
  PROVE  \E f : Adds(f, words) /\ SumOf(words) = f[Len(words)]
<1> DEFINE f == CHOOSE upTo : upTo = [n \in 0 .. Len(words) |->
                                       IF n = 0 THEN 0 ELSE upTo[n - 1] + words[n]]
<1>1. f = [n \in 0 .. Len(words) |-> IF n = 0 THEN 0 ELSE f[n - 1] + words[n]]
  BY SumExists
<1>2. SumOf(words) = f[Len(words)]
  BY DEF SumOf
<1>3. Len(words) \in Nat
  OBVIOUS
<1> HIDE DEF f
<1>4. Adds(f, words)
  BY <1>1, <1>3 DEF Adds
<1>5. QED
  BY <1>2, <1>4

(* A sum of n words is at most n times the largest word.                   *)
LEMMA SumBounded ==
  ASSUME NEW M \in Nat, NEW words \in Seq(0 .. M)
  PROVE  SumOf(words) \in 0 .. Len(words) * M
<1>1. words \in Seq(Int) /\ Len(words) \in Nat /\ \A n \in 1 .. Len(words) : words[n] \in 0 .. M
  <2>1. Len(words) \in Nat /\ DOMAIN words = 1 .. Len(words) /\ \A n \in 1 .. Len(words) : words[n] \in 0 .. M
    OBVIOUS
  <2>2. words \in Seq(Int)
    OBVIOUS
  <2>3. QED
    BY <2>1, <2>2
<1>2. PICK f : Adds(f, words) /\ SumOf(words) = f[Len(words)]
  BY <1>1, SumAdds
<1> DEFINE Bad == {n \in 0 .. Len(words) : f[n] \notin 0 .. n * M}
<1>3. 0 \notin Bad
  BY <1>2 DEF Adds
<1>4. ASSUME NEW n \in 1 .. Len(words), n - 1 \notin Bad PROVE n \notin Bad
  <2>1. f[n - 1] \in 0 .. (n - 1) * M
    BY <1>1, <1>4
  <2>2. f[n] = f[n - 1] + words[n] /\ words[n] \in 0 .. M
    BY <1>1, <1>2 DEF Adds
  <2>3. (n - 1) * M + M = n * M
    OBVIOUS
  <2>4. (n - 1) * M \in Int /\ n * M \in Int
    OBVIOUS
  <2>5. f[n] \in 0 .. n * M
    BY <2>1, <2>2, <2>3, <2>4
  <2>6. QED
    BY <2>5
<1>5. Bad = {}
  <2> SUFFICES ASSUME Bad # {} PROVE FALSE
    OBVIOUS
  <2>1. Bad \subseteq Nat
    BY <1>1
  <2>2. PICK n \in Bad : \A m \in Bad : n <= m
    BY <2>1, LeastNatural
  <2>3. n \in 1 .. Len(words)
    BY <1>1, <1>3
  <2> HIDE DEF Bad
  <2>4. n - 1 \in Bad
    BY <1>4, <2>2, <2>3
  <2>5. QED
    BY <1>1, <2>2, <2>3, <2>4
<1>6. QED
  BY <1>1, <1>2, <1>5

(* Another word in one place changes the sum by the difference.            *)
LEMMA SumChanged ==
  ASSUME NEW words \in Seq(Int), NEW i \in 1 .. Len(words), NEW w \in Int
  PROVE  /\ [words EXCEPT ![i] = w] \in Seq(Int)
         /\ SumOf([words EXCEPT ![i] = w]) = SumOf(words) - words[i] + w
         /\ SumOf(words) \in Int
<1> DEFINE new == [words EXCEPT ![i] = w]
<1>1. /\ new \in Seq(Int) /\ Len(new) = Len(words) /\ Len(words) \in Nat
      /\ \A n \in 1 .. Len(words) : new[n] = (IF n = i THEN w ELSE words[n]) /\ words[n] \in Int
  OBVIOUS
<1> HIDE DEF new
<1>2. PICK f : Adds(f, words) /\ SumOf(words) = f[Len(words)]
  BY SumAdds
<1>3. PICK g : Adds(g, new) /\ SumOf(new) = g[Len(new)]
  BY <1>1, SumAdds
<1> DEFINE Good(n) == f[n] \in Int /\ g[n] = f[n] + (IF i <= n THEN w - words[i] ELSE 0)
           Bad == {n \in 0 .. Len(words) : ~ Good(n)}
<1>4. Good(0)
  BY <1>2, <1>3 DEF Adds
<1>5. ASSUME NEW n \in 1 .. Len(words), Good(n - 1) PROVE Good(n)
  <2>1. f[n] = f[n - 1] + words[n] /\ words[n] \in Int /\ words[i] \in Int
    BY <1>1, <1>2 DEF Adds
  <2>2. g[n] = g[n - 1] + new[n] /\ new[n] = (IF n = i THEN w ELSE words[n])
    BY <1>1, <1>3 DEF Adds
  <2>3. QED
    BY <1>5, <2>1, <2>2
<1> HIDE DEF Good
<1>6. Bad = {}
  <2> SUFFICES ASSUME Bad # {} PROVE FALSE
    OBVIOUS
  <2>1. Bad \subseteq Nat
    BY <1>1
  <2>2. PICK n \in Bad : \A m \in Bad : n <= m
    BY <2>1, LeastNatural
  <2>3. n \in 1 .. Len(words) /\ ~ Good(n)
    BY <1>1, <1>4
  <2>4. n - 1 \in Bad
    BY <1>1, <1>5, <2>3
  <2>5. QED
    BY <1>1, <2>2, <2>3, <2>4
<1>7. Good(Len(words))
  BY <1>1, <1>6
<1>8. QED
  BY <1>1, <1>2, <1>3, <1>7 DEF Good, new

(* The bases of the words and of their halves, for each number of bits.    *)
LEMMA Bases ==
  /\ Base \in Nat /\ ByteBase \in Nat /\ Base >= 4 /\ ByteBase >= 2
  /\ ByteBase * ByteBase = Base
  /\ \E half \in Nat : Base = 2 * half /\ half >= 2 /\ IntMax = half * Base - 1
  /\ Base^2 = Base * Base
<1>1. WordBits \in {2, 4, 6, 8, 10, 12, 14, 16}
  BY ChecksumAssumption
<1>2. CASE WordBits = 2
  BY <1>2 DEF Base, ByteBase, IntMax
<1>3. CASE WordBits = 4
  BY <1>3 DEF Base, ByteBase, IntMax
<1>4. CASE WordBits = 6
  BY <1>4 DEF Base, ByteBase, IntMax
<1>5. CASE WordBits = 8
  BY <1>5 DEF Base, ByteBase, IntMax
<1>6. CASE WordBits = 10
  BY <1>6 DEF Base, ByteBase, IntMax
<1>7. CASE WordBits = 12
  BY <1>7 DEF Base, ByteBase, IntMax
<1>8. CASE WordBits = 14
  BY <1>8 DEF Base, ByteBase, IntMax
<1>9. CASE WordBits = 16
  BY <1>9 DEF Base, ByteBase, IntMax
<1>10. QED
  BY <1>1, <1>2, <1>3, <1>4, <1>5, <1>6, <1>7, <1>8, <1>9

(* The word an odd byte makes is a word.                                   *)
LEMMA OddFits ==
  ASSUME NEW byte \in OddBytes \cup {NoByte}, NEW bigEndian \in BOOLEAN
  PROVE  OddWord(byte, bigEndian) \in Words
<1>1. byte = NoByte \/ (byte \in 0 .. ByteBase - 1 /\ byte # NoByte)
  BY ChecksumAssumption DEF ChecksumAssumption
<1>2. CASE byte = NoByte
  BY <1>2, Bases DEF OddWord, Words
<1>3. CASE byte \in 0 .. ByteBase - 1 /\ byte # NoByte
  <2>1. PICK b \in Nat : b = ByteBase /\ b >= 2 /\ b * b = Base
    BY Bases
  <2>2. byte * b \in 0 .. (b - 1) * b
    BY <1>3, <2>1
  <2>3. (b - 1) * b = b * b - b
    BY <2>1
  <2>4. byte * b \in 0 .. Base - 1 /\ byte \in 0 .. Base - 1
    BY <1>3, <2>1, <2>2, <2>3
  <2>5. OddWord(byte, bigEndian) = byte * b \/ OddWord(byte, bigEndian) = byte
    BY <1>3, <2>1 DEF OddWord, ShiftedOnce
  <2>6. QED
    BY <2>4, <2>5 DEF Words
<1>4. QED
  BY <1>1, <1>2, <1>3

(* A message that the length field can describe.                           *)
Messages == {p \in Seq(Words) : Len(p) >= Field /\ 2 * Len(p) + 1 < Base}

(* Its sum stays in the range of an int.                                   *)
LEMMA AddedFits ==
  ASSUME NEW p \in Messages, NEW byte \in OddBytes \cup {NoByte}, NEW bigEndian \in BOOLEAN
  PROVE  Added(p, byte, bigEndian) \in 0 .. IntMax
<1>1. PICK half \in Nat : Base = 2 * half /\ half >= 2 /\ IntMax = half * Base - 1
  BY Bases
<1> DEFINE M == Base - 1
<1>2. M \in Nat /\ Base \in Nat /\ Words = 0 .. M
  BY <1>1 DEF Words
<1>3. p \in Seq(0 .. M) /\ Len(p) \in Nat /\ 2 * Len(p) + 1 < Base
  BY <1>2 DEF Messages
<1> HIDE DEF M
<1>4. SumOf(p) \in 0 .. Len(p) * M
  BY <1>2, <1>3, SumBounded
<1>5. PICK s \in Nat, n \in Nat, w \in Nat :
        s = SumOf(p) /\ n = Len(p) /\ w = OddWord(byte, bigEndian) /\ s <= n * M /\ w <= M
  <2>1. OddWord(byte, bigEndian) \in 0 .. M
    BY <1>2, OddFits
  <2>2. Len(p) * M \in Int
    BY <1>2, <1>3
  <2>3. QED
    BY <1>2, <1>3, <1>4, <2>1, <2>2
<1>6. n <= half - 1
  BY <1>1, <1>3, <1>5
<1>7. n * M <= (half - 1) * M
  BY <1>1, <1>2, <1>6
<1>8. (half - 1) * M + M = half * M /\ half * M = half * Base - half
  BY <1>1, <1>2 DEF M
<1>9. PICK x \in Int, y \in Int, z \in Int, u \in Int :
        x = n * M /\ y = (half - 1) * M /\ z = half * M /\ u = half * Base
  BY <1>1, <1>2
<1>10. s + w \in 0 .. u - 1
  <2>1. s <= x /\ x <= y /\ y + M = z /\ z = u - half /\ w <= M
    BY <1>5, <1>7, <1>8, <1>9
  <2>2. QED
    BY <1>1, <1>2, <1>5, <2>1
<1>11. QED
  BY <1>1, <1>5, <1>9, <1>10 DEF Added

(* Integers that are the same in ones' complement.                         *)
Congruent(a, b) == \E k \in Int : a - b = k * (Base - 1)

(* What the folding of a sum amounts to: quotient and rest added up, the   *)
(* carry added once more, and the complement taken.                        *)
LEMMA FoldedIs ==
  ASSUME NEW s \in 0 .. IntMax
  PROVE  \E q \in Nat, h \in 0 .. 2 * (Base - 1) :
           /\ s = q * (Base - 1) + h /\ (h = 0 <=> s = 0)
           /\ Folded(s) = IF h <= Base - 1 THEN Base - 1 - h ELSE 2 * (Base - 1) - h
<1>1. PICK B \in Nat : B = Base /\ B >= 4 /\ s < B * B
  <2>1. PICK half \in Nat : Base = 2 * half /\ half >= 2 /\ IntMax = half * Base - 1
    BY Bases
  <2>2. half * Base <= Base * Base /\ half * Base \in Nat /\ Base * Base \in Nat
    BY <2>1
  <2>3. QED
    BY <2>1, <2>2
<1>2. PICK q \in Int, r \in 0 .. B - 1 : q = s \div B /\ r = s % B /\ s = B * q + r
  BY <1>1
<1>3. q \in 0 .. B - 1
  <2>1. ~ (q < 0)
    BY <1>1, <1>2
  <2>2. ASSUME q >= B PROVE FALSE
    <3>1. B * q >= B * B /\ B * q \in Int /\ B * B \in Int
      BY <1>1, <1>2, <2>2
    <3>2. QED
      BY <1>1, <1>2, <3>1
  <2>3. QED
    BY <1>1, <1>2, <2>1, <2>2
<1>4. PICK h \in Nat : h = q + r /\ h <= 2 * (B - 1)
  BY <1>1, <1>2, <1>3
<1>5. s = q * (B - 1) + h
  <2>1. PICK x \in Int : x = B * q
    BY <1>1, <1>2
  <2>2. q * (B - 1) = x - q
    BY <1>1, <1>2, <2>1
  <2>3. s = x + r
    BY <1>2, <2>1
  <2>4. QED
    BY <1>2, <1>4, <2>1, <2>2, <2>3
<1>6. h = 0 <=> s = 0
  <2>1. h = 0 <=> q = 0 /\ r = 0
    BY <1>1, <1>2, <1>3, <1>4
  <2>2. s = 0 <=> q = 0 /\ r = 0
    <3>1. q >= 1 => B * q >= B
      BY <1>1, <1>3
    <3>2. B * q \in Int /\ (q = 0 => B * q = 0)
      BY <1>1, <1>2
    <3>3. QED
      BY <1>1, <1>2, <1>3, <3>1, <3>2
  <2>3. QED
    BY <2>1, <2>2
<1>7. q \in Nat /\ h \in 0 .. 2 * (Base - 1) /\ s = q * (Base - 1) + h /\ (h = 0 <=> s = 0)
  BY <1>1, <1>3, <1>4, <1>5, <1>6
<1>8. HighToLow(s) = h
  BY <1>1, <1>2, <1>4 DEF HighToLow
<1>9. CASE h <= B - 1
  <2>1. h \div B = 0 /\ h % B = h
    BY <1>1, <1>4, <1>9
  <2>2. WithCarry(h) = h
    BY <1>1, <2>1 DEF WithCarry
  <2>3. Folded(s) = B - 1 - h
    BY <1>1, <1>8, <2>1, <2>2 DEF Folded, Complement
  <2>4. Folded(s) = IF h <= Base - 1 THEN Base - 1 - h ELSE 2 * (Base - 1) - h
    BY <1>1, <1>9, <2>3
  <2>5. QED
    BY <1>7, <2>4
<1>10. CASE h > B - 1
  <2>1. PICK r1 \in 0 .. B - 1 : h = B * 1 + r1 /\ r1 <= B - 2
    BY <1>1, <1>4, <1>10
  <2>2. h \div B = 1
    BY <1>1, <2>1
  <2>3. WithCarry(h) = B * 1 + (r1 + 1)
    BY <1>1, <2>1, <2>2 DEF WithCarry
  <2>4. (B * 1 + (r1 + 1)) % B = r1 + 1
    BY <1>1, <2>1
  <2>5. Folded(s) = B - 1 - (r1 + 1)
    BY <1>1, <1>8, <2>3, <2>4 DEF Folded, Complement
  <2>6. Folded(s) = 2 * (B - 1) - h
    BY <1>1, <2>1, <2>5
  <2>7. Folded(s) = IF h <= Base - 1 THEN Base - 1 - h ELSE 2 * (Base - 1) - h
    BY <1>1, <1>4, <1>10, <2>6
  <2>8. QED
    BY <1>7, <2>7
<1>11. QED
  BY <1>1, <1>4, <1>9, <1>10

(* The answer is a word, completes the sum to a multiple of the largest    *)
(* word, and is zero when the sum is one already, but not zero itself.     *)
LEMMA FoldedCompletes ==
  ASSUME NEW s \in 0 .. IntMax
  PROVE  /\ Folded(s) \in Words
         /\ Congruent(s + Folded(s), 0)
         /\ Folded(s) = 0 <=> s > 0 /\ Congruent(s, 0)
<1>1. PICK q \in Nat, h \in 0 .. 2 * (Base - 1) :
        /\ s = q * (Base - 1) + h /\ (h = 0 <=> s = 0)
        /\ Folded(s) = IF h <= Base - 1 THEN Base - 1 - h ELSE 2 * (Base - 1) - h
  BY FoldedIs
<1>2. PICK M \in Nat : M = Base - 1 /\ M >= 3
  BY Bases
<1>3. PICK a \in Int : a = Folded(s) /\ a \in 0 .. M /\ (a = M - h \/ a = 2 * M - h)
                       /\ (a = 0 <=> h = M \/ h = 2 * M)
  <2>1. h \in 0 .. 2 * M /\ Folded(s) = IF h <= M THEN M - h ELSE 2 * M - h
    BY <1>1, <1>2
  <2>2. CASE h <= M
    BY <1>2, <2>1, <2>2
  <2>3. CASE h > M
    BY <1>2, <2>1, <2>3
  <2>4. QED
    BY <1>2, <2>1, <2>2, <2>3
<1>4. a \in Words
  BY <1>2, <1>3 DEF Words
<1>5. Congruent(s + a, 0)
  <2>1. s + a = (q + 1) * M \/ s + a = (q + 2) * M
    <3>1. (q + 1) * M = q * M + M /\ (q + 2) * M = q * M + 2 * M /\ q * M \in Int
      BY <1>1, <1>2
    <3>2. QED
      BY <1>1, <1>2, <1>3, <3>1
  <2>2. q + 1 \in Int /\ q + 2 \in Int /\ (s + a) - 0 = s + a
    BY <1>1, <1>3, Bases DEF IntMax
  <2>3. QED
    BY <1>2, <2>1, <2>2 DEF Congruent
<1>6. ASSUME s > 0, Congruent(s, 0) PROVE h = M \/ h = 2 * M
  <2>1. PICK k \in Int : s = k * M
    BY <1>1, <1>2, <1>6 DEF Congruent
  <2>2. PICK j \in Int : h = j * M
    <3>1. (k - q) * M = k * M - q * M /\ k * M \in Int /\ q * M \in Int
      BY <1>1, <1>2, <2>1
    <3>2. h = (k - q) * M
      BY <1>1, <1>2, <2>1, <3>1
    <3>3. QED
      BY <1>1, <2>1, <3>2
  <2>3. h > 0 /\ h <= 2 * M
    BY <1>1, <1>2, <1>6
  <2>4. ~ (j <= 0)
    BY <1>2, <2>2, <2>3
  <2>5. ~ (j >= 3)
    <3>1. j >= 3 => j * M >= 3 * M
      BY <1>2, <2>2
    <3>2. QED
      BY <1>2, <2>2, <2>3, <3>1
  <2>6. j = 1 \/ j = 2
    BY <2>2, <2>4, <2>5
  <2>7. QED
    BY <1>2, <2>2, <2>6
<1>7. ASSUME h = M \/ h = 2 * M PROVE s > 0 /\ Congruent(s, 0)
  <2>1. s = (q + 1) * M \/ s = (q + 2) * M
    <3>1. (q + 1) * M = q * M + M /\ (q + 2) * M = q * M + 2 * M /\ q * M \in Int
      BY <1>1, <1>2
    <3>2. QED
      BY <1>1, <1>2, <1>7, <3>1
  <2>2. s > 0
    <3>1. PICK x \in Nat : x = q * M
      BY <1>1, <1>2
    <3>2. h \in Nat /\ h > 0
      BY <1>2, <1>7
    <3>3. s = x + h
      BY <1>1, <1>2, <3>1
    <3>4. QED
      BY <3>1, <3>2, <3>3
  <2>3. s - 0 = s
    BY <1>1, <1>2, <2>1
  <2>4. QED
    BY <1>1, <1>2, <2>1, <2>2, <2>3 DEF Congruent
<1>8. QED
  BY <1>3, <1>4, <1>5, <1>6, <1>7

(* On the way: what the sender stores completes the message to zero, what  *)
(* is damaged changes it by the difference, and the receiver's answer is   *)
(* that of the message as it arrived, if it read it whole.                 *)
ChecksumInv ==
  /\ ckpc \in {"idle", "sent", "received", "verified"}
  /\ big \in BOOLEAN /\ odd \in OddBytes \cup {NoByte}
  /\ sum \in 0 .. IntMax
  /\ ckpc # "idle" => packet \in Messages
  /\ ckpc = "sent" => Congruent(Added(packet, odd, big), 0)
  /\ ckpc \in {"received", "verified"} =>
       /\ damage.was \in Words /\ damage.is \in Words
       /\ Congruent(Added(packet, odd, big), damage.is - damage.was)
  /\ ckpc = "verified" /\ Whole => sum = Added(packet, odd, big) /\ answer = Folded(sum)

(* Nothing is lost in the accumulator, whatever its type.                  *)
LEMMA KeptWhole ==
  ASSUME NEW f, NEW s \in 0 .. IntMax
  PROVE  Kept(f, s) = s
<1>1. PICK half \in Nat : Base = 2 * half /\ half >= 2 /\ IntMax = half * Base - 1
  BY Bases
<1>2. PICK b \in Nat : b = Base^2 /\ half * Base <= b
  <2>1. Base^2 = Base * Base /\ Base \in Nat
    BY Bases
  <2>2. half * Base <= Base * Base /\ half * Base \in Nat /\ Base * Base \in Nat
    BY <1>1, <2>1
  <2>3. QED
    BY <2>1, <2>2
<1>3. s \in Nat /\ s < b
  BY <1>1, <1>2
<1>4. s % b = s
  BY <1>2, <1>3
<1>5. QED
  BY <1>2, <1>4 DEF Kept

(* One word of a message replaced by another.                              *)
LEMMA MessageChanged ==
  ASSUME NEW p \in Messages, NEW i \in DOMAIN p, NEW w \in Words
  PROVE  /\ p[i] \in Words
         /\ [p EXCEPT ![i] = w] \in Messages
         /\ SumOf(p) \in Nat
         /\ SumOf([p EXCEPT ![i] = w]) = SumOf(p) - p[i] + w
<1>1. p \in Seq(Words) /\ Len(p) \in Nat /\ i \in 1 .. Len(p) /\ DOMAIN p = 1 .. Len(p)
  BY DEF Messages
<1>2. PICK M \in Nat : M = Base - 1 /\ Words = 0 .. M
  BY Bases DEF Words
<1>3. p \in Seq(Int) /\ w \in Int /\ p[i] \in Words
  <2>1. p \in Seq(0 .. M)
    BY <1>1, <1>2
  <2>2. p \in Seq(Int)
    BY <2>1
  <2>3. w \in Int /\ p[i] \in Words
    BY <1>1, <1>2
  <2>4. QED
    BY <2>2, <2>3
<1>4. [p EXCEPT ![i] = w] \in Messages
  <2>1. [p EXCEPT ![i] = w] \in Seq(Words) /\ Len([p EXCEPT ![i] = w]) = Len(p)
    BY <1>1
  <2>2. QED
    BY <2>1 DEF Messages
<1>5. SumOf(p) \in 0 .. Len(p) * M
  BY <1>1, <1>2, SumBounded
<1>6. SumOf(p) \in Nat
  <2>1. Len(p) * M \in Int
    BY <1>1, <1>2
  <2>2. QED
    BY <1>5, <2>1
<1>7. QED
  BY <1>1, <1>3, <1>4, <1>6, SumChanged

(* What the receiver reads is a message, and the one that arrived if all   *)
(* of it was read.                                                         *)
LEMMA BufferHolds ==
  ASSUME packet \in Messages
  PROVE  InBuffer(packet) \in Messages /\ (Whole => InBuffer(packet) = packet)
<1>1. packet \in Seq(Words) /\ Len(packet) \in Nat /\ DOMAIN packet = 1 .. Len(packet)
  BY DEF Messages
<1>2. 0 \in Words
  BY Bases DEF Words
<1>3. InBuffer(packet) \in [1 .. Len(packet) -> Words]
  BY <1>1, <1>2 DEF InBuffer
<1>4. InBuffer(packet) \in Seq(Words) /\ Len(InBuffer(packet)) = Len(packet)
  BY <1>1, <1>3
<1>5. InBuffer(packet) \in Messages
  BY <1>4 DEF Messages
<1>6. ASSUME Whole PROVE InBuffer(packet) = packet
  <2>1. \A n \in 1 .. Len(packet) : n <= ReadWords
    BY <1>1, <1>6, ChecksumAssumption DEF Whole, ChecksumAssumption
  <2>2. QED
    BY <1>1, <2>1 DEF InBuffer
<1>7. QED
  BY <1>5, <1>6

(* One case per step: the sender, the way and the receiver.                *)
LEMMA ChecksumStep == ChecksumInv /\ [ChecksumNext]_ckvars => ChecksumInv'
<1> SUFFICES ASSUME ChecksumInv, [ChecksumNext]_ckvars PROVE ChecksumInv'
  OBVIOUS
<1>1. CASE icmp_pack
  <2>1. big' \in BOOLEAN /\ odd' \in OddBytes \cup {NoByte} /\ ckpc' = "sent"
    BY <1>1 DEF icmp_pack
  <2>2. PICK p \in Packets : /\ Cksum(func', [p EXCEPT ![Field] = 0], odd')
                            /\ packet' = [p EXCEPT ![Field] = answer']
    BY <1>1 DEF icmp_pack
  <2>3. p \in Messages /\ Field \in DOMAIN p /\ 0 \in Words
    <3>1. p \in Messages
      BY ChecksumAssumption DEF ChecksumAssumption, Messages
    <3>2. QED
      BY <3>1, Bases DEF Messages, Field, Words
  <2> DEFINE blank == [p EXCEPT ![Field] = 0]
             s     == Added(blank, odd', big')
  <2>4. blank \in Messages /\ SumOf(p) \in Nat /\ SumOf(blank) = SumOf(p) - p[Field] + 0 /\ p[Field] \in Words
    BY <2>3, MessageChanged
  <2>5. s \in 0 .. IntMax
    BY <2>1, <2>4, AddedFits
  <2>6. sum' = s /\ answer' = Folded(s)
    <3>1. Kept(func', s) = s
      BY <2>5, KeptWhole
    <3>2. QED
      BY <2>2, <3>1 DEF Cksum
  <2>7. Folded(s) \in Words /\ Congruent(s + Folded(s), 0)
    BY <2>5, FoldedCompletes
  <2>8. packet' \in Messages /\ SumOf(packet') = SumOf(p) - p[Field] + Folded(s)
    BY <2>2, <2>3, <2>6, <2>7, MessageChanged
  <2>9. Added(packet', odd', big') = s + Folded(s)
    <3>1. PICK o \in Int : o = OddWord(odd', big')
      BY <2>1, OddFits DEF Words
    <3>2. PICK a \in Int, c \in Int, n \in Int : a = SumOf(p) /\ c = p[Field] /\ n = Folded(s)
      BY <2>4, <2>7 DEF Words
    <3>3. s = a - c + 0 + o /\ Added(packet', odd', big') = a - c + n + o
      BY <2>4, <2>8, <3>1, <3>2 DEF Added
    <3>4. QED
      BY <3>1, <3>2, <3>3
  <2> HIDE DEF s
  <2>10. QED
    BY <2>1, <2>5, <2>6, <2>7, <2>8, <2>9 DEF ChecksumInv
<1>2. CASE Travel
  <2>1. ckpc = "sent" /\ ckpc' = "received" /\ UNCHANGED <<big, odd, sum>>
    BY <1>2 DEF Travel
  <2>2. packet \in Messages /\ Congruent(Added(packet, odd, big), 0)
        /\ big \in BOOLEAN /\ odd \in OddBytes \cup {NoByte} /\ sum \in 0 .. IntMax
    BY <2>1 DEF ChecksumInv
  <2>3. PICK n \in DOMAIN packet : \E w \in Damages \cup {packet[n]} :
          packet' = [packet EXCEPT ![n] = w] /\ damage' = [was |-> packet[n], is |-> w]
    BY <1>2 DEF Travel
  <2>4. PICK w \in Damages \cup {packet[n]} :
          packet' = [packet EXCEPT ![n] = w] /\ damage' = [was |-> packet[n], is |-> w]
    BY <2>3
  <2>5. packet[n] \in Words /\ w \in Words /\ 0 \in Words
    <3>1. 0 \in Words
      BY Bases DEF Words
    <3>2. packet[n] \in Words
      BY <2>2, <3>1, MessageChanged
    <3>3. QED
      BY <2>4, <3>1, <3>2, ChecksumAssumption DEF ChecksumAssumption
  <2>6. packet' \in Messages /\ SumOf(packet) \in Nat /\ SumOf(packet') = SumOf(packet) - packet[n] + w
    BY <2>2, <2>4, <2>5, MessageChanged
  <2>7. Congruent(Added(packet', odd, big), damage'.is - damage'.was)
    <3>1. PICK o \in Int, a \in Int, x \in Int, y \in Int :
            o = OddWord(odd, big) /\ a = SumOf(packet) /\ x = packet[n] /\ y = w
      BY <2>2, <2>5, <2>6, OddFits DEF Words
    <3>2. PICK k \in Int : (a + o) - 0 = k * (Base - 1)
      BY <2>2, <3>1 DEF Congruent, Added
    <3>3. Added(packet', odd, big) = a - x + y + o /\ damage'.is = y /\ damage'.was = x
      BY <2>4, <2>6, <3>1 DEF Added
    <3>4. (a - x + y + o) - (y - x) = (a + o) - 0
      OBVIOUS
    <3>5. QED
      BY <3>2, <3>3, <3>4 DEF Congruent
  <2>8. damage'.is \in Words /\ damage'.was \in Words
    BY <2>4, <2>5
  <2>9. QED
    BY <2>1, <2>2, <2>6, <2>7, <2>8 DEF ChecksumInv
<1>3. CASE Verify
  <2>1. ckpc = "received" /\ ckpc' = "verified" /\ UNCHANGED <<big, packet, odd, damage>>
        /\ Cksum("in_cksum", InBuffer(packet), IF Whole THEN odd ELSE NoByte)
    BY <1>3 DEF Verify
  <2>2. packet \in Messages /\ big \in BOOLEAN /\ odd \in OddBytes \cup {NoByte}
    BY <2>1 DEF ChecksumInv
  <2> DEFINE byte == IF Whole THEN odd ELSE NoByte
             s    == Added(InBuffer(packet), byte, big)
  <2>3. InBuffer(packet) \in Messages /\ (Whole => InBuffer(packet) = packet)
    BY <2>2, BufferHolds
  <2>4. s \in 0 .. IntMax
    BY <2>2, <2>3, AddedFits
  <2>5. sum' = s /\ answer' = Folded(sum')
    BY <2>1, <2>4, KeptWhole DEF Cksum
  <2>6. Whole' <=> Whole
    BY <2>1 DEF Whole
  <2>7. Whole => s = Added(packet, odd, big)
    BY <2>3
  <2> HIDE DEF s, byte
  <2>8. /\ damage'.was \in Words /\ damage'.is \in Words
        /\ Congruent(Added(packet', odd', big'), damage'.is - damage'.was)
    BY <2>1 DEF ChecksumInv
  <2>9. Whole' => sum' = Added(packet', odd', big') /\ answer' = Folded(sum')
    BY <2>1, <2>5, <2>6, <2>7
  <2>10. ckpc' = "verified" /\ sum' \in 0 .. IntMax /\ packet' \in Messages
    BY <2>1, <2>2, <2>4, <2>5
  <2>11. big' \in BOOLEAN /\ odd' \in OddBytes \cup {NoByte}
    BY <2>1, <2>2
  <2>12. QED
    BY <2>8, <2>9, <2>10, <2>11 DEF ChecksumInv
<1>4. CASE UNCHANGED ckvars
  BY <1>4 DEF ChecksumInv, ckvars, Whole
<1>5. QED
  BY <1>1, <1>2, <1>3, <1>4 DEF ChecksumNext, ChecksumEnds

LEMMA ChecksumStart == ChecksumInit => ChecksumInv
<1>1. PICK half \in Nat : Base = 2 * half /\ half >= 2 /\ IntMax = half * Base - 1
  BY Bases
<1>2. half * Base \in Nat /\ half * Base >= 1
  BY <1>1
<1>3. 0 \in 0 .. IntMax
  BY <1>1, <1>2
<1>4. QED
  BY <1>3 DEF ChecksumInit, ChecksumInv

LEMMA ChecksumSafe == ChecksumSpec => []ChecksumInv
  BY ChecksumStart, ChecksumStep, PTL DEF ChecksumSpec

(* SumFits is an invariant: for words of any of the widths, messages of    *)
(* any contents and length that ip_len can describe, an odd byte or not,   *)
(* the sum of every call stays in the range of an int, so that the three   *)
(* accumulators hold the same.                                             *)
THEOREM SumInRange == ChecksumSpec => []SumFits
<1>1. ChecksumInv => SumFits
  <2>1. PICK half \in Nat : Base = 2 * half /\ half >= 2 /\ IntMax = half * Base - 1
    BY Bases
  <2>2. IntMax \in Int
    BY <2>1
  <2>3. QED
    BY <2>2 DEF ChecksumInv, SumFits
<1>2. QED
  BY <1>1, ChecksumSafe, PTL

(* Two words are the same in ones' complement.                             *)
LEMMA SameWord ==
  ASSUME NEW a \in Words, NEW b \in Words
  PROVE  Congruent(b - a, 0) <=> a % (Base - 1) = b % (Base - 1)
<1>1. PICK M \in Nat : M = Base - 1 /\ M >= 3 /\ Words = 0 .. M
  BY Bases DEF Words
<1>2. a \in 0 .. M /\ b \in 0 .. M
  BY <1>1
<1>3. a % M = (IF a = M THEN 0 ELSE a) /\ b % M = (IF b = M THEN 0 ELSE b)
  BY <1>1, <1>2
<1>4. ASSUME NEW k \in Int, b - a = k * M PROVE b - a = 0 \/ b - a = M \/ b - a = -M
  <2>1. b - a <= M /\ b - a >= -M
    BY <1>1, <1>2
  <2>2. ~ (k >= 2)
    <3>1. k >= 2 => k * M >= 2 * M
      BY <1>1
    <3>2. QED
      BY <1>1, <1>2, <1>4, <2>1, <3>1
  <2>3. ~ (k <= -2)
    <3>1. k <= -2 => k * M <= -2 * M
      BY <1>1
    <3>2. QED
      BY <1>1, <1>2, <1>4, <2>1, <3>1
  <2>4. k = -1 \/ k = 0 \/ k = 1
    BY <2>2, <2>3
  <2>5. QED
    BY <1>1, <1>4, <2>4
<1>5. ASSUME b - a = 0 \/ b - a = M \/ b - a = -M PROVE \E k \in Int : b - a = k * M
  <2>1. b - a = 0 * M \/ b - a = 1 * M \/ b - a = (-1) * M
    BY <1>1, <1>5
  <2>2. QED
    BY <2>1
<1>6. (b - a = 0 \/ b - a = M \/ b - a = -M) <=> a % M = b % M
  BY <1>1, <1>2, <1>3
<1>7. (b - a) - 0 = b - a
  BY <1>1, <1>2
<1>8. QED
  BY <1>1, <1>4, <1>5, <1>6, <1>7 DEF Congruent

(* ChecksumDecides is an invariant: for words of any of the widths, the    *)
(* test of the receiver accepts, of the messages it reads whole, exactly   *)
(* those whose one word that may have been damaged is the same in ones'    *)
(* complement.                                                             *)
THEOREM ChecksumExact == ChecksumSpec => []ChecksumDecides
<1>1. ASSUME ChecksumInv PROVE ChecksumDecides
  <2> SUFFICES ASSUME ckpc = "verified", Whole, NEW n \in DOMAIN packet, packet[n] # 0
               PROVE  answer = 0 <=> damage.was % (Base - 1) = damage.is % (Base - 1)
    BY DEF ChecksumDecides
  <2>1. /\ packet \in Messages /\ big \in BOOLEAN /\ odd \in OddBytes \cup {NoByte}
        /\ damage.was \in Words /\ damage.is \in Words
        /\ Congruent(Added(packet, odd, big), damage.is - damage.was)
        /\ sum = Added(packet, odd, big) /\ answer = Folded(sum) /\ sum \in 0 .. IntMax
    BY <1>1 DEF ChecksumInv
  <2>2. sum \in Nat /\ sum > 0
    <3>1. 0 \in Words
      BY Bases DEF Words
    <3>2. [packet EXCEPT ![n] = 0] \in Messages /\ packet[n] \in Words /\ SumOf(packet) \in Nat
          /\ SumOf([packet EXCEPT ![n] = 0]) = SumOf(packet) - packet[n] + 0
      BY <2>1, <3>1, MessageChanged
    <3>3. SumOf([packet EXCEPT ![n] = 0]) \in Nat
      BY <3>1, <3>2, MessageChanged
    <3>4. OddWord(odd, big) \in Nat /\ packet[n] \in Nat \ {0}
      BY <2>1, <3>2, OddFits, Bases DEF Words
    <3>5. PICK a \in Nat, b \in Nat, c \in Nat, o \in Nat :
            /\ a = SumOf(packet) /\ b = SumOf([packet EXCEPT ![n] = 0])
            /\ c = packet[n] /\ o = OddWord(odd, big)
      BY <3>2, <3>3, <3>4
    <3>6. b = a - c + 0 /\ c > 0 /\ sum = a + o
      BY <2>1, <3>2, <3>4, <3>5 DEF Added
    <3>7. QED
      BY <3>5, <3>6
  <2>3. answer = 0 <=> Congruent(sum, 0)
    BY <2>1, <2>2, FoldedCompletes
  <2>4. Congruent(sum, 0) <=> Congruent(damage.is - damage.was, 0)
    <3>1. PICK M \in Nat : M = Base - 1
      BY Bases
    <3>2. PICK d \in Int : d = damage.is - damage.was
      BY <2>1, Bases DEF Words
    <3>3. PICK k \in Int : sum - d = k * M
      BY <2>1, <3>1, <3>2 DEF Congruent
    <3>4. ASSUME NEW j \in Int, sum = j * M PROVE d = (j - k) * M
      <4>1. (j - k) * M = j * M - k * M
        BY <3>1, <3>3
      <4>2. PICK x \in Int, y \in Int : x = j * M /\ y = k * M
        BY <3>1, <3>3
      <4>3. QED
        BY <2>2, <3>2, <3>3, <3>4, <4>1, <4>2
    <3>5. ASSUME NEW j \in Int, d = j * M PROVE sum = (j + k) * M
      <4>1. (j + k) * M = j * M + k * M
        BY <3>1, <3>3
      <4>2. PICK x \in Int, y \in Int : x = j * M /\ y = k * M
        BY <3>1, <3>3
      <4>3. QED
        BY <2>2, <3>2, <3>3, <3>5, <4>1, <4>2
    <3>6. Congruent(sum, 0) <=> \E j \in Int : sum = j * M
      BY <2>2, <3>1 DEF Congruent
    <3>7. Congruent(d, 0) <=> \E j \in Int : d = j * M
      BY <3>1, <3>2 DEF Congruent
    <3>8. QED
      <4>1. \A j \in Int : j - k \in Int /\ j + k \in Int
        BY <3>3
      <4>2. QED
        BY <3>2, <3>4, <3>5, <3>6, <3>7, <4>1
  <2>5. QED
    BY <2>1, <2>3, <2>4, SameWord
<1>2. QED
  BY <1>1, ChecksumSafe, PTL
=============================================================================
