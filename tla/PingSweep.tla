------------------------------ MODULE PingSweep ------------------------------
(***************************************************************************)
(* test() of ping2.c: every neighbour is added to the address table and    *)
(* probed, the replies are read until the socket is silent for a second,   *)
(* and the results are shown; then the results are cleared, part of the    *)
(* addresses is deleted, and the rest is probed and shown again.           *)
(*                                                                         *)
(* The table is used through what PingAddrSet promises of it.  Outside     *)
(* the program: the network and the other ICMP traffic of the machine,     *)
(* all of which a raw ICMP socket receives.                                *)
(***************************************************************************)
EXTENDS Integers, Sequences, FiniteSets

CONSTANTS
  Hosts,    \* the addresses of the network, this machine's included
  Own,      \* this machine's address
  Deleted,  \* the addresses deleted between the two rounds
  Asked,    \* the address get_resp is asked for at the end
  Bcast,    \* the table's deletion mark, never an address of this network
  Pid,      \* getpid()
  NetKinds  \* kinds of network: see NetKind

(* What a network may do: strays and dups bound the ICMP packets that are  *)
(* no reply to this process and the replies that are repeated; on a late   *)
(* network a reply can take longer than the second a poll waits.           *)
NetKind == [strays : Nat, dups : Nat, late : BOOLEAN]

ASSUME SweepAssumption ==
  /\ IsFiniteSet(Hosts)
  /\ Own \in Hosts /\ Bcast \notin Hosts /\ Deleted \subseteq Hosts
  /\ Pid \in Nat \ {0}
  /\ NetKinds \subseteq NetKind

VARIABLES
  resp, ret,  \* the table (PingAddrSet)
  pc,         \* "add", "send", "drain", "show", "clear", "del", "get", "done"
  round,      \* first or second probe
  todo,       \* addresses the add or delete loop has not reached
  shown,      \* what ping_show_res last printed
  queue,      \* the socket's receive buffer
  net,        \* requests out, and how many replies were repeated and strays sent
  kind,       \* what the network may do (constant)
  seen        \* history: the requests <<address, round>> whose reply ping_recv read

vars == <<resp, ret, pc, round, todo, shown, queue, net, kind, seen>>

Table == INSTANCE PingAddrSet WITH Addr <- Hosts

PING_OK          == 1
PING_SEND_FAIL   == 2
PING_ERROR_OCCUR == 3
PING_NOT_RECEIVE == 4

-----------------------------------------------------------------------------
(* The ICMP header                                                         *)

(* icmp_id = htons(getpid()): the header has room for sixteen bits.        *)
icmp_id == Pid % 2^16

AnyPacket(p)  == TRUE            \* fault: the header is not looked at
NoByteSwap(p) == p.kind = "reply" /\ p.id = Pid * 2^8  \* fault: ntohs is forgotten
(* What ping_recv accepts: an echo reply, code 0, whose id, zero-extended, *)
(* equals the process id.                                                  *)
IsReply(p) == p.kind = "reply" /\ p.id = Pid

Reply(q) == [from |-> q[1], kind |-> "reply", id |-> icmp_id, request |-> q]
Other(a) == [from |-> a, kind |-> "other", id |-> icmp_id, request |-> <<a, 0>>]

-----------------------------------------------------------------------------
(* test()                                                                  *)

SkipNone == {}     \* fault: this machine probes itself
Skipped == {Own}   \* if (i == d) continue

(* ping_addr_add; its return code is not looked at.  The array is as       *)
(* calloc left it, so a new address has no result yet.                     *)
Add(a) ==
  /\ pc = "add" /\ a \in todo
  /\ \/ Table!Add(a) /\ resp'[a] = 0
     \/ Table!AddFails
  /\ todo' = todo \ {a}
  /\ UNCHANGED <<pc, round, shown, queue, net, seen>>

AddsDone ==
  /\ pc = "add" /\ todo = {}
  /\ pc' = "send"
  /\ UNCHANGED <<resp, ret, round, todo, shown, queue, net, seen>>

Failed == {a \in Table!Tracked : resp'[a] = PING_SEND_FAIL}

Send ==
  /\ pc = "send"
  /\ Table!Send
  /\ net' = [net EXCEPT !.out = @ \cup ((Table!Tracked \ Failed) \X {round})]
  /\ pc' = "drain"
  /\ UNCHANGED <<round, todo, shown, queue, seen>>

LeftInBuffer == queue     \* fault: the packet is looked at and left (MSG_PEEK)
Rest         == Tail(queue)

(* while (fd_poll(1000)) ping_recv: one packet per turn, from a tracked    *)
(* address or not.                                                         *)
Receive ==
  /\ pc = "drain" /\ queue # <<>>
  /\ LET p == Head(queue) IN
       /\ Table!Receive(p.from, IF IsReply(p) THEN PING_OK ELSE PING_ERROR_OCCUR)
       /\ seen' = IF p.kind = "reply" THEN seen \cup {p.request} ELSE seen
  /\ queue' = Rest
  /\ UNCHANGED <<pc, round, todo, shown, net>>

PollTimesOut ==
  /\ pc = "drain" /\ queue = <<>>
  /\ kind.late \/ net.out = {}
  /\ pc' = "show"
  /\ UNCHANGED <<resp, ret, round, todo, shown, queue, net, seen>>

CountIfAny(r) == Cardinality({a \in Table!Tracked : resp[a] # 0})  \* fault: if (res)
Count(r)      == Cardinality({a \in Table!Tracked : resp[a] = r})

Counts ==
  [total     |-> Cardinality(Table!Tracked),
   ok        |-> Count(PING_OK),
   error     |-> Count(PING_ERROR_OCCUR),
   send_fail |-> Count(PING_SEND_FAIL),
   not_recv  |-> Count(PING_NOT_RECEIVE)]

ping_show_res ==
  /\ pc = "show"
  /\ shown' = Counts
  /\ pc' = IF round = 1 THEN "clear" ELSE "get"
  /\ UNCHANGED <<resp, ret, round, todo, queue, net, seen>>

Clear ==
  /\ pc = "clear"
  /\ Table!Clear
  /\ todo' = Deleted \ Skipped
  /\ pc' = "del"
  /\ UNCHANGED <<round, shown, queue, net, seen>>

Del(a) ==
  /\ pc = "del" /\ a \in todo
  /\ Table!Del(a)
  /\ todo' = todo \ {a}
  /\ UNCHANGED <<pc, round, shown, queue, net, seen>>

DelsDone ==
  /\ pc = "del" /\ todo = {}
  /\ pc' = "send" /\ round' = 2
  /\ UNCHANGED <<resp, ret, todo, shown, queue, net, seen>>

GetResp ==
  /\ pc = "get"
  /\ Table!GetResp(Asked)
  /\ pc' = "done"
  /\ UNCHANGED <<round, todo, shown, queue, net, seen>>

-----------------------------------------------------------------------------
(* The network.  Packets that come after the last look are not modelled.   *)

Listening == pc \notin {"add", "get", "done"}

ReplyArrives ==
  /\ Listening
  /\ \E q \in net.out : /\ queue' = Append(queue, Reply(q))
                        /\ net' = [net EXCEPT !.out = @ \ {q}]
  /\ UNCHANGED <<resp, ret, pc, round, todo, shown, seen>>

RequestOrReplyLost ==
  /\ \E q \in net.out : net' = [net EXCEPT !.out = @ \ {q}]
  /\ UNCHANGED <<resp, ret, pc, round, todo, shown, queue, seen>>

ReplyRepeated ==
  /\ Listening /\ net.dups < kind.dups
  /\ \E q \in net.out : queue' = Append(queue, Reply(q))
  /\ net' = [net EXCEPT !.dups = @ + 1]
  /\ UNCHANGED <<resp, ret, pc, round, todo, shown, seen>>

(* A reply to another process, or an error message, from any host.         *)
StrayArrives ==
  /\ Listening /\ net.strays < kind.strays
  /\ \E a \in Hosts : queue' = Append(queue, Other(a))
  /\ net' = [net EXCEPT !.strays = @ + 1]
  /\ UNCHANGED <<resp, ret, pc, round, todo, shown, seen>>

Network == ReplyArrives \/ RequestOrReplyLost \/ ReplyRepeated \/ StrayArrives

-----------------------------------------------------------------------------
NothingShown == [total |-> 0, ok |-> 0, error |-> 0, send_fail |-> 0, not_recv |-> 0]

Init ==
  /\ Table!Init
  /\ pc = "add" /\ round = 1 /\ todo = Hosts \ Skipped
  /\ shown = NothingShown
  /\ queue = <<>> /\ seen = {}
  /\ kind \in NetKinds
  /\ net = [out |-> {}, dups |-> 0, strays |-> 0]

test ==
  \/ \E a \in Hosts : Add(a) \/ Del(a)
  \/ AddsDone \/ Send \/ Receive \/ PollTimesOut \/ ping_show_res
  \/ Clear \/ DelsDone \/ GetResp

Ending == pc = "done" /\ UNCHANGED vars

Next == (test \/ Network \/ Ending) /\ UNCHANGED kind

Spec == Init /\ [][Next]_vars

(* The program runs on; a request is answered or lost some day.            *)
FairSpec == Spec /\ WF_vars(test /\ UNCHANGED kind)
                 /\ WF_vars((ReplyArrives \/ RequestOrReplyLost) /\ UNCHANGED kind)

-----------------------------------------------------------------------------
TypeOK ==
  /\ Table!Tracked \subseteq Hosts \ {Own}
  /\ \A a \in Table!Tracked : resp[a] \in Table!Res
  /\ ret \in {-1, 0, 1}
  /\ pc \in {"add", "send", "drain", "show", "clear", "del", "get", "done"}
  /\ round \in {1, 2} /\ todo \subseteq Hosts \ {Own}
  /\ \A f \in DOMAIN shown : shown[f] \in 0 .. Cardinality(Hosts)
  /\ net.out \subseteq Hosts \X {1, 2}
  /\ seen \subseteq Hosts \X {1, 2}

(* An address is shown as answering only if the reply to the request of    *)
(* the round that is shown was read.  On a network whose replies can take  *)
(* longer than the second of the poll it may be the reply to the first     *)
(* round: the sequence number is not compared.                             *)
OkMeansAnswered ==
  pc = "show" =>
    \A a \in Table!Tracked :
      resp[a] = PING_OK => \E r \in 1 .. round : <<a, r>> \in seen /\ (r = round \/ kind.late)

(* When no other ICMP traffic reaches the socket, an address whose reply   *)
(* was read in this round is shown as answering.                           *)
AnsweredMeansOk ==
  pc = "show" /\ net.strays = 0 =>
    \A a \in Table!Tracked : <<a, round>> \in seen => resp[a] = PING_OK

(* What the user is told is what happened on a network that is in time and *)
(* carries no other ICMP traffic.  The addresses that the four counts of a *)
(* report leave out of its total (nothing stores PING_NOT_RECEIVE) are     *)
(* those that were sent a request and stayed silent; and get_resp says 1   *)
(* at the end exactly when the reply of the second round was read.         *)
Uncounted == shown.total - (shown.ok + shown.error + shown.send_fail + shown.not_recv)
Silent    == {a \in Table!Tracked : resp[a] # PING_SEND_FAIL /\ <<a, round>> \notin seen}

ReportTruthful ==
  ~kind.late /\ net.strays = 0 =>
    /\ pc \in {"clear", "get"} => Uncounted = Cardinality(Silent)
    /\ pc = "done" => (ret = 1 <=> <<Asked, 2>> \in seen)

(* Both rounds end: a burst of packets does not keep the loop over fd_poll *)
(* going for ever.                                                         *)
Finishes == <>(pc = "done")
=============================================================================
