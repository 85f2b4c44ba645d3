------------------------------ MODULE PingProbe ------------------------------
(***************************************************************************)
(* The two programs that probe once: test() of ping_main.c fills a table   *)
(* with every neighbour, probes them, reads packets until the socket is    *)
(* silent for a second, marks who was not heard and shows the results;     *)
(* test() of ping3.c probes one address, reads one packet, however long it *)
(* takes to come, shows the result and frees everything.                   *)
(*                                                                         *)
(* The array is the C one, entry -1 being the memory in front of it:       *)
(* ping_main.c stores a result at whatever index the search returns.       *)
(***************************************************************************)
EXTENDS Integers, Sequences, FiniteSets

CONSTANTS
  Hosts,      \* the addresses of the network, this machine's included
  Own,        \* this machine's address
  Strangers,  \* addresses outside the network that ICMP packets come from
  Targets,    \* the addresses ping3 may be asked to probe
  Num,        \* entries of the array: enough for all that is added
  Pid,        \* getpid()
  MaxStrays,  \* packets that are no reply to this process
  MaxDups     \* replies the network repeats

ASSUME ProbeAssumption ==
  /\ Hosts \cup Strangers \subseteq Nat \ {0} /\ IsFiniteSet(Hosts)
  /\ Own \in Hosts /\ Targets \subseteq Hosts
  /\ Num \in Nat /\ Num >= Cardinality(Hosts)
  /\ Pid \in Nat \ {0} /\ MaxStrays \in Nat /\ MaxDups \in Nat

VARIABLES
  prog,               \* the program that runs (constant)
  pc,                 \* "init", "add", "send", "recv", "set", "show", "free", "done", "exit"
  todo,               \* addresses still to be added
  ping_addr, offset,  \* the array and how many of its entries are in use
  shown,              \* what ping_show_res printed
  queue,              \* the socket's receive buffer
  net,                \* requests out, and how many strays and repeated replies there were
  log                 \* history: the packets ping_recv read

vars == <<prog, pc, todo, ping_addr, offset, shown, queue, net, log>>
network == <<queue, net, log>>
table   == <<ping_addr, offset>>

PING_OK          == 1
PING_SEND_FAIL   == 2
PING_ERROR_OCCUR == 3
PING_NOT_RECEIVE == 4

-----------------------------------------------------------------------------
(* The table                                                               *)

Array  == -1 .. Num - 1
InUse  == 0 .. offset - 1
Heap   == [ia |-> 0, res |-> -1]   \* in front of the array: malloc's, no entry of it
Zero   == [ia |-> 0, res |-> 0]    \* as calloc leaves an entry
Tracked == {ping_addr[i].ia : i \in InUse}
res(a) == ping_addr[CHOOSE i \in InUse : ping_addr[i].ia = a].res

LastButOne == offset - 2           \* fault: the last entry is not searched
Last       == offset - 1

Windows   == (0 .. Num) \X Array   \* <<left, right>>
mid(l, r) == l + (r - l) \div 2

ping_addr_binary_search(target) ==
  LET find[w \in Windows] ==
        LET m == mid(w[1], w[2]) IN
          IF w[1] > w[2] THEN -1
          ELSE IF ping_addr[m].ia = target THEN m
          ELSE IF ping_addr[m].ia > target THEN find[<<w[1], m - 1>>]
          ELSE find[<<m + 1, w[2]>>]
  IN find[<<0, Last>>]

(* The first n entries in ascending order, addresses being distinct.       *)
ping_addr_sort(t, n) ==
  LET entries == {t[i] : i \in 0 .. n - 1}
      rank(e) == Cardinality({f \in entries : f.ia < e.ia})
  IN [i \in Array |-> IF i \in 0 .. n - 1 THEN CHOOSE e \in entries : rank(e) = i ELSE t[i]]

ping_addr_add(a) ==
  /\ offset < Num
  /\ ping_addr' = ping_addr_sort([ping_addr EXCEPT ![offset].ia = a], offset + 1)
  /\ offset' = offset + 1

-----------------------------------------------------------------------------
(* The ICMP header                                                         *)

icmp_id == Pid % 2^16

NoByteSwap(p) == p.kind = "reply" /\ p.id = Pid * 2^8   \* fault: ntohs is forgotten
IsReply(p)    == p.kind = "reply" /\ p.id = Pid

Verdict(p) == IF IsReply(p) THEN PING_OK ELSE PING_ERROR_OCCUR

Packet(a, k) == [from |-> a, kind |-> k, id |-> icmp_id]

-----------------------------------------------------------------------------
(* The programs                                                            *)

SkipNone == {}     \* fault: this machine is tracked as well
Skipped  == {Own}  \* if (i == d) continue

(* No memory, or no socket.                                                *)
SetupFails ==
  /\ pc = "init" /\ pc' = "exit"
  /\ UNCHANGED <<prog, todo, table, shown, network>>

Setup ==
  /\ pc = "init" /\ pc' = IF todo = {} THEN "send" ELSE "add"
  /\ UNCHANGED <<prog, todo, table, shown, network>>

(* The addresses come in ascending order.                                  *)
Add ==
  /\ pc = "add"
  /\ \E a \in todo : /\ \A b \in todo : a <= b
                     /\ ping_addr_add(a)
                     /\ todo' = todo \ {a}
  /\ pc' = IF todo' = {} THEN "send" ELSE "add"
  /\ UNCHANGED <<prog, shown, network>>

(* A raw socket of this machine also sees a request to this machine.       *)
ping_send ==
  /\ pc = "send" /\ pc' = "recv"
  /\ \E failed \in SUBSET Tracked :
       /\ ping_addr' = [i \in Array |->
            IF i \in InUse /\ ping_addr[i].ia \in failed
              THEN [ping_addr[i] EXCEPT !.res = PING_SEND_FAIL] ELSE ping_addr[i]]
       /\ net' = [net EXCEPT !.out = Tracked \ failed]
       /\ queue' = IF Own \in Tracked \ failed THEN <<Packet(Own, "request")>> ELSE <<>>
  /\ UNCHANGED <<prog, todo, offset, shown, log>>

AnyIndex(i) == TRUE                              \* fault: ping3 does not test the index
Stored(i)   == i >= 0 \/ prog = "ping_main"      \* only ping3 returns when it is -1

(* ping_main after each poll that finds something, ping3 once.             *)
ping_recv ==
  /\ pc = "recv" /\ queue # <<>>
  /\ LET p == Head(queue)
         i == ping_addr_binary_search(p.from)
     IN /\ ping_addr' = IF Stored(i) THEN [ping_addr EXCEPT ![i].res = Verdict(p)] ELSE ping_addr
        /\ log' = Append(log, p)
  /\ queue' = Tail(queue)
  /\ pc' = IF prog = "ping3" THEN "show" ELSE "recv"
  /\ UNCHANGED <<prog, todo, offset, shown, net>>

PollAgain    == "recv"     \* fault: while (fd_poll(...) >= 0)
AfterSilence == "set"     \* while (fd_poll(...)): 0 ends the loop

(* A reply can take longer than the second.                                *)
PollTimesOut ==
  /\ prog = "ping_main" /\ pc = "recv" /\ queue = <<>>
  /\ pc' = AfterSilence
  /\ UNCHANGED <<prog, todo, table, shown, network>>

AllButLast == 0 .. offset - 2   \* fault: one entry is left out
SetRange   == InUse

ping_set_res ==
  /\ pc = "set" /\ pc' = "show"
  /\ ping_addr' = [i \in Array |->
       IF i \in SetRange /\ ping_addr[i].res = 0
         THEN [ping_addr[i] EXCEPT !.res = PING_NOT_RECEIVE] ELSE ping_addr[i]]
  /\ UNCHANGED <<prog, todo, offset, shown, network>>

Count(r) == Cardinality({i \in InUse : ping_addr[i].res = r})

Counts ==
  [total     |-> offset,
   ok        |-> Count(PING_OK),
   error     |-> Count(PING_ERROR_OCCUR),
   send_fail |-> Count(PING_SEND_FAIL),
   not_recv  |-> Count(PING_NOT_RECEIVE)]

ping_show_res ==
  /\ pc = "show"
  /\ shown' = Counts
  /\ pc' = IF prog = "ping3" THEN "free" ELSE "done"
  /\ UNCHANGED <<prog, todo, table, network>>

(* The socket is closed, what it still held is gone.                       *)
ping_addr_free ==
  /\ pc = "free" /\ pc' = "done"
  /\ queue' = <<>> /\ offset' = 0
  /\ UNCHANGED <<prog, todo, ping_addr, shown, net, log>>

-----------------------------------------------------------------------------
(* The network                                                             *)

Arrives(p) == pc = "recv" /\ queue' = Append(queue, p)

ReplyArrives ==
  /\ \E a \in net.out : Arrives(Packet(a, "reply")) /\ net' = [net EXCEPT !.out = @ \ {a}]
  /\ UNCHANGED <<prog, pc, todo, table, shown, log>>

Lost ==
  /\ \E a \in net.out : net' = [net EXCEPT !.out = @ \ {a}]
  /\ UNCHANGED <<prog, pc, todo, table, shown, queue, log>>

ReplyRepeated ==
  /\ net.dups < MaxDups /\ net' = [net EXCEPT !.dups = @ + 1]
  /\ \E a \in net.out : Arrives(Packet(a, "reply"))
  /\ UNCHANGED <<prog, pc, todo, table, shown, log>>

StrayArrives ==
  /\ net.strays < MaxStrays /\ net' = [net EXCEPT !.strays = @ + 1]
  /\ \E a \in Hosts \cup Strangers : Arrives(Packet(a, "other"))
  /\ UNCHANGED <<prog, pc, todo, table, shown, log>>

-----------------------------------------------------------------------------
NothingShown == [total |-> 0, ok |-> 0, error |-> 0, send_fail |-> 0, not_recv |-> 0]

Init ==
  /\ \/ prog = "ping_main" /\ todo = Hosts \ Skipped
     \/ prog = "ping3" /\ \E a \in Targets : todo = {a}
  /\ pc = "init"
  /\ ping_addr = [i \in Array |-> IF i = -1 THEN Heap ELSE Zero] /\ offset = 0
  /\ shown = NothingShown
  /\ queue = <<>> /\ log = <<>>
  /\ net = [out |-> {}, strays |-> 0, dups |-> 0]

test ==
  \/ SetupFails \/ Setup \/ Add \/ ping_send \/ ping_recv \/ PollTimesOut
  \/ ping_set_res \/ ping_show_res \/ ping_addr_free

Answers == ReplyArrives \/ Lost

Ending == pc \in {"done", "exit"} /\ UNCHANGED vars

Next == test \/ Answers \/ ReplyRepeated \/ StrayArrives \/ Ending

Spec == Init /\ [][Next]_vars

(* The program runs on; a request is answered or lost some day.            *)
FairSpec == Spec /\ WF_vars(test) /\ WF_vars(Answers)

-----------------------------------------------------------------------------
TypeOK ==
  /\ pc \in {"init", "add", "send", "recv", "set", "show", "free", "done", "exit"}
  /\ todo \subseteq Hosts /\ offset \in 0 .. Num
  /\ Tracked \subseteq Hosts
  /\ prog = "ping_main" => Own \notin Tracked
  /\ \A i \in InUse : ping_addr[i].res \in 0 .. 4
  /\ \A f \in DOMAIN shown : shown[f] \in 0 .. Num
  /\ net.out \subseteq Hosts

(* The result of an address is what the last packet read from it says,     *)
(* whatever was read from others in between; an address nothing was read   *)
(* from has the result of the send, or none.                               *)
LastPacketDecides ==
  pc \in {"recv", "set", "show"} =>
    \A a \in Tracked :
      LET from_a == {n \in DOMAIN log : log[n].from = a} IN
        IF from_a = {} THEN res(a) \in {0, PING_SEND_FAIL, PING_NOT_RECEIVE}
        ELSE LET last == CHOOSE n \in from_a : \A k \in from_a : k <= n IN
               res(a) = IF log[last] = Packet(a, "reply") THEN PING_OK ELSE PING_ERROR_OCCUR

(* Each address ping_main probed is in exactly one of the counts it shows. *)
CountsAddUp ==
  prog = "ping_main" /\ pc = "done" =>
    shown.total = shown.ok + shown.error + shown.send_fail + shown.not_recv

(* A result is written outside the entries in use only by ping_main, and   *)
(* only when it read a packet from an address it does not track.           *)
OutsideOnlyByStranger ==
  \/ \A i \in Array \ InUse : ping_addr[i] \in {Heap, Zero}
  \/ pc = "done" /\ prog = "ping3"
  \/ prog = "ping_main" /\ \E n \in DOMAIN log : log[n].from \notin Tracked

(* ping3 waits for a packet, so when it reports at all and nothing else    *)
(* reached the socket, the address has answered.  A machine that probes    *)
(* itself is the exception: its own request comes first.                   *)
QuietAnswer ==
  prog = "ping3" /\ pc = "free" /\ net.strays = 0 /\ Own \notin Tracked => shown.ok = 1

(* Everything ends, except ping3 when neither the reply nor any other      *)
(* packet comes: it has no time-out.                                       *)
Silent   == prog = "ping3" /\ pc = "recv" /\ queue = <<>> /\ net.out = {}
Finishes == <>(pc \in {"done", "exit"} \/ Silent)
=============================================================================
