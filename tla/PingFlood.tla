------------------------------ MODULE PingFlood ------------------------------
(***************************************************************************)
(* test() of ping_client.c: T echo requests to one host on a non-blocking  *)
(* raw ICMP socket, the replies that have come so far drained after each,  *)
(* a last drain until the socket stays silent for a second, and a report   *)
(* of four counters.                                                       *)
(*                                                                         *)
(* Outside the program: the network, which delivers a reply, loses or      *)
(* repeats it, and the ICMP packets of others that a raw socket also gets. *)
(***************************************************************************)
EXTENDS Integers, Sequences, FiniteSets

CONSTANTS
  T,         \* number of requests (8192 in the code)
  RcvMax,    \* packets the socket's receive buffer holds
  Strays,    \* bound: packets that are no reply to this process
  Dups,      \* bound: replies the network repeats
  NetKinds,  \* kinds of network: see NetKind
  Pids       \* what getpid() may return

(* A network may be near: a packet can be queued before the poll that      *)
(* follows the first request; otherwise a round trip is longer than the    *)
(* way from the first sendto to its poll.  And it may be late: a reply can *)
(* take longer than the second the last poll waits.                        *)
NetKind == [near : BOOLEAN, late : BOOLEAN]

ASSUME FloodAssumption ==
  /\ T \in Nat \ {0} /\ RcvMax \in Nat \ {0}
  /\ Strays \in Nat /\ Dups \in Nat
  /\ NetKinds \subseteq NetKind
  /\ Pids \subseteq Nat \ {0}

VARIABLES
  pc,           \* "send", "poll", "drain", "report", "done"
  i, j,         \* loop counters; i = T is the last drain
  failed_call,  \* errno is not 0: nothing resets it
  send_num, send_ok_num, rev_num, rev_ok_num,
  res,          \* result of the one tracked address
  queue,        \* the socket's receive buffer
  net,          \* the network: requests out, replies lost and repeated, strays sent
  kind,         \* what the network may do (constant)
  pid           \* getpid() (constant)

counters == <<send_num, send_ok_num, rev_num, rev_ok_num>>
vars == <<pc, i, j, failed_call, send_num, send_ok_num, rev_num, rev_ok_num,
          res, queue, net, kind, pid>>

(* A packet in the buffer: a reply to a request of this process, anything  *)
(* else from the tracked host, or a packet of another address.             *)
Packet == {"reply", "other", "stranger"}

(* The field of the header is 16 bits wide; icmp_pack stores htons(getpid())*)
(* in it, and the host sends it back.                                      *)
icmp_id == pid % 2^16

PING_OK          == 1
PING_SEND_FAIL   == 2
PING_ERROR_OCCUR == 3

-----------------------------------------------------------------------------
(* ping_send for the one address of the table                              *)

SendOk ==
  /\ pc = "send"
  /\ send_num' = send_num + 1 /\ send_ok_num' = send_ok_num + 1
  /\ net' = [net EXCEPT !.out = @ + 1]
  /\ pc' = "poll"
  /\ UNCHANGED <<i, j, failed_call, rev_num, rev_ok_num, res, queue>>

SendFails ==
  /\ pc = "send"
  /\ send_num' = send_num + 1 /\ res' = PING_SEND_FAIL
  /\ failed_call' = TRUE
  /\ pc' = "poll"
  /\ UNCHANGED <<i, j, send_ok_num, rev_num, rev_ok_num, queue, net>>

-----------------------------------------------------------------------------
(* fd_poll: with no timeout after each request, with one second at the end *)

Readable == queue # <<>>

PollReadable ==
  /\ pc = "poll" /\ Readable
  /\ pc' = "drain" /\ j' = 0
  /\ UNCHANGED <<i, failed_call, counters, res, queue, net>>

(* fd_poll returns -1, which the loop takes for true.  Bound: it fails only*)
(* while errno is 0, so at most once; it sets errno.                       *)
PollFails ==
  /\ pc = "poll" /\ ~failed_call
  /\ failed_call' = TRUE
  /\ pc' = "drain" /\ j' = 0
  /\ UNCHANGED <<i, counters, res, queue, net>>

PollSilent ==
  /\ pc = "poll" /\ ~Readable /\ i < T
  /\ i' = i + 1
  /\ pc' = IF i + 1 < T THEN "send" ELSE "poll"
  /\ UNCHANGED <<j, failed_call, counters, res, queue, net>>

PollSecondSilent ==
  /\ pc = "poll" /\ ~Readable /\ i = T
  /\ kind.late \/ net.out = 0
  /\ pc' = "report"
  /\ UNCHANGED <<i, j, failed_call, counters, res, queue, net>>

-----------------------------------------------------------------------------
(* The inner loop: at most i calls of ping_recv (T in the last drain),     *)
(* left at the first that fails while errno is set.                        *)

AtMostMore == i + 1         \* fault: one call too many
AtMostLess == 2 * (i \div 2) \* fault: no call when i is 1
AtMost     == i

DrainEnds ==
  /\ pc = "drain" /\ j >= AtMost
  /\ pc' = "poll"
  /\ UNCHANGED <<i, j, failed_call, counters, res, queue, net>>

RecvNothing ==
  /\ pc = "drain" /\ j < AtMost /\ queue = <<>>
  /\ failed_call' = TRUE
  /\ pc' = "poll"
  /\ UNCHANGED <<i, j, counters, res, queue, net>>

RestUnread == <<>>         \* fault: the rest of the buffer is dropped
Rest       == Tail(queue)

(* From an address the table does not hold: -1, and errno is whatever an   *)
(* earlier call left in it.                                                *)
RecvStranger ==
  /\ pc = "drain" /\ j < AtMost /\ queue # <<>> /\ Head(queue) = "stranger"
  /\ queue' = Rest /\ rev_num' = rev_num + 1
  /\ IF failed_call THEN pc' = "poll" /\ UNCHANGED j
                    ELSE j' = j + 1 /\ UNCHANGED pc
  /\ UNCHANGED <<i, failed_call, send_num, send_ok_num, rev_ok_num, res, net>>

AnyFromHost(p) == p \in {"reply", "other"}   \* fault: the header is not looked at

(* ntohs of the header's id is compared with the whole getpid().           *)
IsReply(p) == p = "reply" /\ icmp_id = pid

RecvTracked ==
  /\ pc = "drain" /\ j < AtMost /\ queue # <<>> /\ Head(queue) # "stranger"
  /\ queue' = Rest /\ rev_num' = rev_num + 1
  /\ IF IsReply(Head(queue))
     THEN rev_ok_num' = rev_ok_num + 1 /\ res' = PING_OK
     ELSE res' = PING_ERROR_OCCUR /\ UNCHANGED rev_ok_num
  /\ j' = j + 1
  /\ UNCHANGED <<pc, i, failed_call, send_num, send_ok_num, net>>

Report ==
  /\ pc = "report"
  /\ pc' = "done"
  /\ UNCHANGED <<i, j, failed_call, counters, res, queue, net>>

-----------------------------------------------------------------------------
(* The network                                                             *)

(* Whether a packet can get into the buffer now.                           *)
MayArrive == pc # "done" /\ (kind.near \/ i > 0)

(* A packet that finds the buffer full is dropped.                         *)
Queued(p) == IF Len(queue) < RcvMax THEN Append(queue, p) ELSE queue
Dropped   == IF Len(queue) < RcvMax THEN 0 ELSE 1

ReplyArrives ==
  /\ MayArrive /\ net.out > 0
  /\ queue' = Queued("reply")
  /\ net' = [net EXCEPT !.out = @ - 1, !.lost = @ + Dropped]
  /\ UNCHANGED <<pc, i, j, failed_call, counters, res>>

ReplyLost ==
  /\ pc # "done" /\ net.out > 0
  /\ net' = [net EXCEPT !.out = @ - 1, !.lost = @ + 1]
  /\ UNCHANGED <<pc, i, j, failed_call, counters, res, queue>>

ReplyRepeated ==
  /\ MayArrive /\ net.out > 0 /\ net.dups < Dups /\ Len(queue) < RcvMax
  /\ queue' = Append(queue, "reply")
  /\ net' = [net EXCEPT !.dups = @ + 1]
  /\ UNCHANGED <<pc, i, j, failed_call, counters, res>>

StrayArrives ==
  /\ MayArrive /\ net.strays < Strays
  /\ \E p \in {"other", "stranger"} : queue' = Queued(p)
  /\ net' = [net EXCEPT !.strays = @ + 1]
  /\ UNCHANGED <<pc, i, j, failed_call, counters, res>>

Network == ReplyArrives \/ ReplyLost \/ ReplyRepeated \/ StrayArrives

-----------------------------------------------------------------------------
Init ==
  /\ pc = "send" /\ i = 0 /\ j = 0
  /\ failed_call \in BOOLEAN
  /\ send_num = 0 /\ send_ok_num = 0 /\ rev_num = 0 /\ rev_ok_num = 0
  /\ res = 0 /\ queue = <<>>
  /\ kind \in NetKinds /\ pid \in Pids
  /\ net = [out |-> 0, lost |-> 0, dups |-> 0, strays |-> 0]

test ==
  \/ SendOk \/ SendFails
  \/ PollReadable \/ PollFails \/ PollSilent \/ PollSecondSilent
  \/ DrainEnds \/ RecvNothing \/ RecvStranger \/ RecvTracked
  \/ Report

Ending == pc = "done" /\ UNCHANGED vars

Next == (test \/ Network \/ Ending) /\ UNCHANGED <<kind, pid>>

Spec == Init /\ [][Next]_vars

(* The program runs on, and every request is answered or lost some day.    *)
FairSpec == Spec /\ WF_vars(test /\ UNCHANGED <<kind, pid>>)
                 /\ WF_vars((ReplyArrives \/ ReplyLost) /\ UNCHANGED <<kind, pid>>)

-----------------------------------------------------------------------------
TypeOK ==
  /\ pc \in {"send", "poll", "drain", "report", "done"}
  /\ i \in 0 .. T /\ j \in 0 .. T
  /\ failed_call \in BOOLEAN
  /\ send_num \in 0 .. T /\ send_ok_num \in 0 .. send_num
  /\ rev_num \in Nat /\ rev_ok_num \in 0 .. rev_num
  /\ res \in {0, PING_OK, PING_SEND_FAIL, PING_ERROR_OCCUR}
  /\ queue \in Seq(Packet) /\ Len(queue) <= RcvMax
  /\ kind \in NetKind /\ pid \in Pids
  /\ net \in [out : 0 .. T, lost : 0 .. T, dups : 0 .. Dups, strays : 0 .. Strays]

RepliesQueued == Cardinality({n \in DOMAIN queue : queue[n] = "reply"})

(* Every request that left is out, lost, waiting in the buffer or counted, *)
(* and counted once: draining neither skips nor repeats a reply.  Under a  *)
(* process id that does not fit the header's field no reply is counted.    *)
Conserved ==
  /\ pid < 2^16 =>
       send_ok_num + net.dups = net.out + net.lost + RepliesQueued + rev_ok_num
  /\ pid >= 2^16 => rev_ok_num = 0

(* When the network answers within a second, loses nothing and repeats     *)
(* nothing, the report shows as many good replies as good requests; under  *)
(* a process id that does not fit the header's field it shows none at all. *)
ReportComplete ==
  pc = "report" /\ ~kind.late /\ net.lost = 0 /\ net.dups = 0 =>
    rev_ok_num = IF pid < 2^16 THEN send_ok_num ELSE 0

(* The report is reached, every drain ends, unless the network answers the *)
(* first request before its poll.                                          *)
Reports == ~kind.near => <>(pc = "done")

(* The program always gets to the report of its last line, "send:%d, %d    *)
(* ok, receive:%d, %d ok".                                                 *)
AlwaysReports == <>(pc = "done")
=============================================================================
