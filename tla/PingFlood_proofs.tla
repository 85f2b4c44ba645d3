--------------------------- MODULE PingFlood_proofs ---------------------------
(***************************************************************************)
(* The flood of one host, for any number of requests and any receive       *)
(* buffer: every reply is counted once or lost by the network, and in time *)
(* the report shows as many good replies as good requests, and none        *)
(* when the process id is too wide for the header.  The invariant          *)
(* behind it is FloodInv.                                                  *)
(***************************************************************************)
EXTENDS PingFlood, FiniteSetTheorems, TLAPS

-----------------------------------------------------------------------------
(* Why.  Each turn of the loop sends one request, so the counters are      *)
(* bounded by T; a request that is out or lost has left.  The last poll    *)
(* ends on an empty buffer, and after it no reply can come any more when   *)
(* none was out.                                                           *)
Sent ==
  /\ send_num = IF pc = "send" \/ i = T THEN i ELSE i + 1
  /\ pc = "send" => i < T
  /\ pc \in {"report", "done"} => i = T

(* Where each request is, when replies are recognised.                     *)
Balanced == send_ok_num + net.dups = net.out + net.lost + RepliesQueued + rev_ok_num

NoneTwice == net.out + net.lost <= send_ok_num

SilentAtLast == pc = "report" /\ ~kind.late => net.out = 0 /\ RepliesQueued = 0

FloodInv == TypeOK /\ Sent /\ NoneTwice /\ Conserved /\ SilentAtLast

-----------------------------------------------------------------------------
(* ping_recv takes a reply for one exactly when the process id fits the    *)
(* field.                                                                  *)
LEMMA Recognised ==
  ASSUME NEW p, pid \in Nat
  PROVE  /\ IsReply(p) <=> p = "reply" /\ pid < 2^16
         /\ pid < 2^16 <=> ~(pid >= 2^16)
<1>1. 2^16 = 65536
  OBVIOUS
<1>2. icmp_id = pid % 65536 /\ icmp_id < 65536
  BY <1>1 DEF icmp_id
<1>3. pid < 65536 => pid % 65536 = pid
  OBVIOUS
<1>4. QED
  BY <1>1, <1>2, <1>3 DEF IsReply

-----------------------------------------------------------------------------
(* The replies in a buffer                                                 *)

RepliesIn(q) == {n \in DOMAIN q : q[n] = "reply"}

(* They are a finite number.                                               *)
LEMMA RepliesFinite ==
  ASSUME NEW q \in Seq(Packet)
  PROVE  IsFiniteSet(RepliesIn(q)) /\ Cardinality(RepliesIn(q)) \in Nat
<1>1. DOMAIN q = 1 .. Len(q) /\ Len(q) \in Nat
  OBVIOUS
<1>2. IsFiniteSet(1 .. Len(q))
  BY <1>1, FS_Interval
<1>3. RepliesIn(q) \in SUBSET (1 .. Len(q))
  BY <1>1 DEF RepliesIn
<1>4. QED
  BY <1>2, <1>3, FS_Subset, FS_CardinalityType

(* A reply at the end of the buffer is one more, any other packet none.    *)
LEMMA OneMore ==
  ASSUME NEW q \in Seq(Packet), NEW p \in Packet
  PROVE  /\ Append(q, p) \in Seq(Packet) /\ Len(Append(q, p)) = Len(q) + 1 /\ Len(q) \in Nat
         /\ Cardinality(RepliesIn(Append(q, p))) =
              IF p = "reply" THEN Cardinality(RepliesIn(q)) + 1 ELSE Cardinality(RepliesIn(q))
<1> DEFINE r == Append(q, p)
<1>1. /\ r \in Seq(Packet) /\ Len(r) = Len(q) + 1 /\ Len(q) \in Nat /\ DOMAIN q = 1 .. Len(q)
      /\ DOMAIN r = 1 .. Len(q) + 1 /\ r[Len(q) + 1] = p /\ \A n \in 1 .. Len(q) : r[n] = q[n]
  OBVIOUS
<1> HIDE DEF r
<1>2. DOMAIN r = DOMAIN q \cup {Len(q) + 1} /\ Len(q) + 1 \notin DOMAIN q
  BY <1>1
<1>3. RepliesIn(r) = IF p = "reply" THEN RepliesIn(q) \cup {Len(q) + 1} ELSE RepliesIn(q)
  BY <1>1, <1>2 DEF RepliesIn
<1>4. Len(q) + 1 \notin RepliesIn(q)
  BY <1>2 DEF RepliesIn
<1>5. QED
  BY <1>1, <1>3, <1>4, RepliesFinite, FS_AddElement DEF r

(* A reply taken from the front is one fewer, any other packet none.       *)
LEMMA OneFewer ==
  ASSUME NEW q \in Seq(Packet), q # <<>>
  PROVE  /\ Tail(q) \in Seq(Packet) /\ Len(Tail(q)) <= Len(q) /\ Head(q) \in Packet
         /\ Cardinality(RepliesIn(q)) =
              IF Head(q) = "reply" THEN Cardinality(RepliesIn(Tail(q))) + 1
                                  ELSE Cardinality(RepliesIn(Tail(q)))
<1> DEFINE r == Tail(q)
           h == Head(q)
           A == {n \in DOMAIN q : n > 1 /\ q[n] = "reply"}
<1>1. /\ r \in Seq(Packet) /\ Len(r) = Len(q) - 1 /\ Len(q) \in Nat \ {0} /\ DOMAIN q = 1 .. Len(q)
      /\ DOMAIN r = 1 .. Len(q) - 1 /\ h = q[1] /\ h \in Packet
      /\ \A n \in 1 .. Len(q) - 1 : r[n] = q[n + 1]
  OBVIOUS
<1> HIDE DEF r, h
<1>2. Cardinality(A) = Cardinality(RepliesIn(r))
  <2> DEFINE f == [n \in RepliesIn(r) |-> n + 1]
  <2>1. f \in [RepliesIn(r) -> A]
    BY <1>1 DEF RepliesIn
  <2>2. \A m, n \in RepliesIn(r) : f[m] = f[n] => m = n
    BY <1>1 DEF RepliesIn
  <2>3. \A n \in A : n - 1 \in RepliesIn(r) /\ (n - 1) + 1 = n
    BY <1>1 DEF RepliesIn
  <2>4. f \in Bijection(RepliesIn(r), A)
    BY <2>1, <2>2, <2>3 DEF Bijection, Injection, Surjection, IsInjective
  <2> HIDE DEF f, A
  <2>5. ExistsBijection(RepliesIn(r), A)
    BY <2>4 DEF ExistsBijection
  <2>6. QED
    BY <1>1, <2>5, RepliesFinite, FS_Bijection
<1>3. RepliesIn(q) = IF h = "reply" THEN A \cup {1} ELSE A
  BY <1>1 DEF RepliesIn
<1>4. IsFiniteSet(A) /\ 1 \notin A
  <2>1. A \in SUBSET RepliesIn(q)
    BY DEF RepliesIn
  <2>2. QED
    BY <2>1, RepliesFinite, FS_Subset
<1>5. QED
  <2> HIDE DEF A
  <2>1. Cardinality(A \cup {1}) = Cardinality(A) + 1
    BY <1>4, FS_AddElement
  <2>2. Cardinality(RepliesIn(q)) = IF h = "reply" THEN Cardinality(RepliesIn(r)) + 1
                                                 ELSE Cardinality(RepliesIn(r))
    BY <1>2, <1>3, <2>1
  <2>3. QED
    BY <1>1, <2>2 DEF r, h

-----------------------------------------------------------------------------
(* The steps                                                               *)

Drained == RecvStranger \/ RecvTracked

(* A step of the program but for ping_recv and ping_send leaves the buffer *)
(* and the counters alone.                                                 *)
LEMMA QuietStep ==
  ASSUME FloodInv, UNCHANGED <<kind, pid>>,
         PollReadable \/ PollFails \/ PollSilent \/ PollSecondSilent \/ DrainEnds \/ RecvNothing \/ Report
  PROVE  FloodInv'
<1>1. UNCHANGED <<send_num, send_ok_num, rev_num, rev_ok_num, res, queue, net>>
  BY DEF PollReadable, PollFails, PollSilent, PollSecondSilent, DrainEnds, RecvNothing, Report, counters
<1>2. TypeOK' /\ Sent'
  <2>1. TypeOK /\ Sent /\ T \in Nat
    BY FloodAssumption DEF FloodAssumption, FloodInv
  <2>2. /\ pc' \in {"send", "poll", "drain", "report", "done"} /\ i' \in 0 .. T /\ j' \in 0 .. T
        /\ failed_call' \in BOOLEAN
    <3>1. i \in 0 .. T /\ j \in 0 .. T /\ 0 \in 0 .. T /\ (i < T => i + 1 \in 0 .. T)
      BY <2>1 DEF TypeOK
    <3>2. failed_call' \in BOOLEAN
      BY <2>1 DEF TypeOK, PollReadable, PollFails, PollSilent, PollSecondSilent, DrainEnds, RecvNothing, Report
    <3>3. pc' \in {"send", "poll", "drain", "report", "done"}
      BY <2>1 DEF TypeOK, PollReadable, PollFails, PollSilent, PollSecondSilent, DrainEnds, RecvNothing, Report
    <3>4. i' \in 0 .. T
      BY <3>1 DEF PollReadable, PollFails, PollSilent, PollSecondSilent, DrainEnds, RecvNothing, Report
    <3>5. j' \in 0 .. T
      BY <3>1 DEF PollReadable, PollFails, PollSilent, PollSecondSilent, DrainEnds, RecvNothing, Report
    <3>6. QED
      BY <3>2, <3>3, <3>4, <3>5
  <2>3. TypeOK'
    BY <1>1, <2>1, <2>2 DEF TypeOK
  <2>4. Sent'
    <3>1. i \in Nat
      BY <2>1 DEF TypeOK
    <3>2. CASE PollSilent
      BY <1>1, <2>1, <3>1, <3>2 DEF Sent, PollSilent, TypeOK
    <3>3. CASE PollReadable \/ PollFails \/ PollSecondSilent \/ DrainEnds \/ RecvNothing \/ Report
      BY <1>1, <2>1, <3>3 DEF Sent, PollReadable, PollFails, PollSecondSilent, DrainEnds, RecvNothing, Report
    <3>4. QED
      BY <3>2, <3>3
  <2>5. QED
    BY <2>3, <2>4
<1>3. NoneTwice' /\ Conserved'
  BY <1>1 DEF FloodInv, NoneTwice, Conserved, RepliesQueued
<1>4. SilentAtLast'
  <2>1. CASE PollSecondSilent
    <3>1. RepliesQueued' = Cardinality({}) /\ (~kind.late => net'.out = 0)
      BY <1>1, <2>1 DEF PollSecondSilent, Readable, RepliesQueued
    <3>2. QED
      BY <3>1, FS_EmptySet DEF SilentAtLast
  <2>2. QED
    BY <2>1 DEF SilentAtLast, PollReadable, PollFails, PollSilent, DrainEnds, RecvNothing, Report
<1>5. QED
  BY <1>2, <1>3, <1>4 DEF FloodInv

(* A request that leaves is out, one that fails was never sent.            *)
LEMMA SendStep ==
  ASSUME FloodInv, UNCHANGED <<kind, pid>>, SendOk \/ SendFails
  PROVE  FloodInv'
<1>1. /\ i < T /\ send_num = i /\ pc' = "poll" /\ UNCHANGED <<queue, rev_ok_num, rev_num, i, j>>
      /\ i \in 0 .. T /\ send_ok_num \in 0 .. send_num /\ T \in Nat
      /\ net \in [out : 0 .. T, lost : 0 .. T, dups : 0 .. Dups, strays : 0 .. Strays]
      /\ net.out + net.lost <= send_ok_num
  BY FloodAssumption DEF FloodAssumption, FloodInv, TypeOK, Sent, NoneTwice, SendOk, SendFails
<1>2. net.out + 1 \in 0 .. T
  BY <1>1
<1>3. Conserved' /\ NoneTwice'
  <2>1. RepliesQueued' = RepliesQueued
    BY <1>1 DEF RepliesQueued
  <2>2. RepliesQueued \in Nat
    BY RepliesFinite DEF FloodInv, TypeOK, RepliesQueued, RepliesIn
  <2>3. /\ net.out \in Nat /\ net.lost \in Nat /\ net.dups \in Nat /\ send_ok_num \in Nat
        /\ rev_ok_num \in Nat
    BY <1>1, FloodAssumption DEF FloodAssumption, FloodInv, TypeOK
  <2>4. /\ net'.lost = net.lost /\ net'.dups = net.dups
        /\ \/ net'.out = net.out + 1 /\ send_ok_num' = send_ok_num + 1
           \/ net'.out = net.out /\ send_ok_num' = send_ok_num
    BY <1>1 DEF SendOk, SendFails
  <2>5. Balanced => Balanced'
    BY <1>1, <2>1, <2>2, <2>3, <2>4 DEF Balanced
  <2>6. Conserved'
    BY <1>1, <2>5 DEF FloodInv, Conserved, Balanced
  <2>7. NoneTwice'
    BY <1>1, <2>3, <2>4 DEF NoneTwice
  <2>8. QED
    BY <2>6, <2>7
<1>4. TypeOK' /\ Sent'
  <2>1. net' \in [out : 0 .. T, lost : 0 .. T, dups : 0 .. Dups, strays : 0 .. Strays]
    BY <1>1, <1>2 DEF SendOk, SendFails
  <2>2. res' \in {0, PING_OK, PING_SEND_FAIL, PING_ERROR_OCCUR} /\ failed_call' \in BOOLEAN
    BY DEF FloodInv, TypeOK, SendOk, SendFails
  <2>3. send_num' \in 0 .. T /\ send_ok_num' \in 0 .. send_num' /\ send_num' = i + 1
    BY <1>1 DEF SendOk, SendFails
  <2>4. QED
    BY <1>1, <2>1, <2>2, <2>3 DEF FloodInv, TypeOK, Sent
<1>5. SilentAtLast'
  BY <1>1 DEF SilentAtLast
<1>6. QED
  BY <1>3, <1>4, <1>5 DEF FloodInv

(* ping_recv takes a packet out of the buffer, and counts it if it is a    *)
(* reply.                                                                  *)
LEMMA RecvStep ==
  ASSUME FloodInv, UNCHANGED <<kind, pid>>, Drained
  PROVE  FloodInv'
<1>1. /\ queue # <<>> /\ queue' = Tail(queue) /\ queue \in Seq(Packet) /\ Len(queue) <= RcvMax
      /\ UNCHANGED <<i, send_num, send_ok_num, net>> /\ pc = "drain" /\ pc' \in {"drain", "poll"}
      /\ rev_num' = rev_num + 1 /\ RcvMax \in Nat
  BY FloodAssumption DEF FloodAssumption, Drained, RecvStranger, RecvTracked, Rest, FloodInv, TypeOK
<1>2. /\ rev_ok_num' = IF Head(queue) = "reply" /\ pid < 2^16 THEN rev_ok_num + 1 ELSE rev_ok_num
      /\ pid < 2^16 <=> ~(pid >= 2^16)
  <2>1. pid \in Nat
    BY FloodAssumption DEF FloodAssumption, FloodInv, TypeOK
  <2>2. IsReply(Head(queue)) <=> Head(queue) = "reply" /\ pid < 2^16
    BY <2>1, Recognised
  <2>3. rev_ok_num' = IF IsReply(Head(queue)) THEN rev_ok_num + 1 ELSE rev_ok_num
    <3>1. CASE RecvTracked
      BY <3>1 DEF RecvTracked
    <3>2. CASE RecvStranger
      BY <3>2 DEF RecvStranger, IsReply
    <3>3. QED
      BY <3>1, <3>2 DEF Drained
  <2>4. QED
    BY <2>1, <2>2, <2>3, Recognised
<1>3. /\ queue' \in Seq(Packet) /\ Len(queue') <= RcvMax
      /\ RepliesQueued = IF Head(queue) = "reply" THEN RepliesQueued' + 1 ELSE RepliesQueued'
      /\ RepliesQueued' \in Nat
  <2>1. queue' \in Seq(Packet) /\ Len(queue') <= Len(queue)
    BY <1>1, OneFewer
  <2>2. RepliesQueued = Cardinality(RepliesIn(queue)) /\ RepliesQueued' = Cardinality(RepliesIn(queue'))
    BY DEF RepliesQueued, RepliesIn
  <2>3. Len(queue) \in Nat /\ Len(queue') \in Nat
    BY <1>1, <2>1
  <2>4. Cardinality(RepliesIn(queue)) =
          IF Head(queue) = "reply" THEN Cardinality(RepliesIn(queue')) + 1
                                  ELSE Cardinality(RepliesIn(queue'))
    BY <1>1, OneFewer
  <2>5. Cardinality(RepliesIn(queue')) \in Nat
    BY <2>1, RepliesFinite
  <2>6. QED
    BY <1>1, <2>1, <2>2, <2>3, <2>4, <2>5
<1>4. Conserved'
  <2>1. /\ net.out \in Nat /\ net.lost \in Nat /\ net.dups \in Nat /\ send_ok_num \in Nat
        /\ rev_ok_num \in Nat
    BY FloodAssumption DEF FloodAssumption, FloodInv, TypeOK
  <2>2. PICK before, after : before = RepliesQueued /\ after = RepliesQueued'
    OBVIOUS
  <2>3. ASSUME pid < 2^16
        PROVE  \/ before = after + 1 /\ rev_ok_num' = rev_ok_num + 1
               \/ before = after /\ rev_ok_num' = rev_ok_num
    BY <1>2, <1>3, <2>2, <2>3
  <2>4. after \in Nat
    BY <1>3, <2>2
  <2>5. pid < 2^16 => Balanced'
    <3>1. SUFFICES ASSUME pid < 2^16 PROVE Balanced'
      OBVIOUS
    <3>2. send_ok_num + net.dups = net.out + net.lost + before + rev_ok_num
      BY <2>2, <3>1 DEF FloodInv, Conserved
    <3>3. send_ok_num + net.dups = net.out + net.lost + after + rev_ok_num'
      BY <2>1, <2>3, <2>4, <3>1, <3>2
    <3>4. QED
      BY <1>1, <2>2, <3>3 DEF Balanced
  <2>6. pid >= 2^16 => rev_ok_num' = 0
    BY <1>2 DEF FloodInv, Conserved
  <2>7. QED
    BY <1>1, <2>5, <2>6 DEF Conserved, Balanced
<1>5. TypeOK'
  <2>1. j' \in 0 .. T /\ i \in 0 .. T
    <3>1. j \in 0 .. T /\ i \in 0 .. T /\ T \in Nat
      BY FloodAssumption DEF FloodAssumption, FloodInv, TypeOK
    <3>2. j < i /\ (j' = j + 1 \/ j' = j)
      BY DEF Drained, RecvStranger, RecvTracked, AtMost
    <3>3. QED
      BY <3>1, <3>2
  <2>2. rev_num' \in Nat /\ rev_ok_num' \in 0 .. rev_num'
    BY <1>1, <1>2 DEF FloodInv, TypeOK
  <2>3. res' \in {0, PING_OK, PING_SEND_FAIL, PING_ERROR_OCCUR} /\ failed_call' \in BOOLEAN
    BY DEF Drained, RecvStranger, RecvTracked, FloodInv, TypeOK
  <2>4. QED
    BY <1>1, <1>3, <2>1, <2>2, <2>3 DEF FloodInv, TypeOK
<1>6. Sent' /\ NoneTwice' /\ SilentAtLast'
  BY <1>1 DEF FloodInv, Sent, NoneTwice, SilentAtLast
<1>7. QED
  BY <1>4, <1>5, <1>6 DEF FloodInv

(* What the network delivers is queued, or dropped and then lost.          *)
LEMMA NetworkStep ==
  ASSUME FloodInv, UNCHANGED <<kind, pid>>, Network
  PROVE  FloodInv'
<1>1. UNCHANGED <<pc, i, j, failed_call, send_num, send_ok_num, rev_num, rev_ok_num, res>>
  BY DEF Network, ReplyArrives, ReplyLost, ReplyRepeated, StrayArrives, counters
<1>2. /\ net \in [out : 0 .. T, lost : 0 .. T, dups : 0 .. Dups, strays : 0 .. Strays]
      /\ queue \in Seq(Packet) /\ Len(queue) <= RcvMax /\ net.out + net.lost <= send_ok_num
      /\ send_ok_num \in 0 .. T /\ send_num \in 0 .. T /\ rev_ok_num \in Nat
      /\ T \in Nat /\ RcvMax \in Nat /\ Dups \in Nat /\ Strays \in Nat /\ pc # "done"
  BY FloodAssumption DEF FloodAssumption, FloodInv, TypeOK, NoneTwice,
     Network, ReplyArrives, ReplyLost, ReplyRepeated, StrayArrives, MayArrive
<1>3. RepliesQueued = Cardinality(RepliesIn(queue)) /\ RepliesQueued' = Cardinality(RepliesIn(queue'))
  BY DEF RepliesQueued, RepliesIn
<1>4. RepliesQueued \in Nat /\ Len(queue) \in Nat
  BY <1>2, <1>3, RepliesFinite
<1>4a. /\ net.out \in Nat /\ net.lost \in Nat /\ net.dups \in Nat /\ net.strays \in Nat
       /\ send_ok_num \in Nat /\ send_ok_num <= T /\ net.dups <= Dups /\ net.strays <= Strays
  BY <1>2
<1>4b. rev_ok_num \in Nat /\ net.out + net.lost <= send_ok_num
  BY <1>2
<1>5. ASSUME NEW p \in Packet, queue' = Queued(p)
      PROVE  /\ queue' \in Seq(Packet) /\ Len(queue') <= RcvMax
             /\ RepliesQueued' = IF Len(queue) < RcvMax /\ p = "reply" THEN RepliesQueued + 1
                                                                     ELSE RepliesQueued
  <2>1. CASE Len(queue) < RcvMax
    <3>1. queue' = Append(queue, p)
      BY <1>5, <2>1 DEF Queued
    <3>2. /\ queue' \in Seq(Packet) /\ Len(queue') = Len(queue) + 1
          /\ Cardinality(RepliesIn(queue')) =
               IF p = "reply" THEN Cardinality(RepliesIn(queue)) + 1 ELSE Cardinality(RepliesIn(queue))
      BY <1>2, <3>1, OneMore
    <3>3. QED
      BY <1>2, <1>3, <1>4, <2>1, <3>2
  <2>2. CASE ~(Len(queue) < RcvMax)
    BY <1>2, <1>3, <1>5, <2>2 DEF Queued
  <2>3. QED
    BY <2>1, <2>2
<1>6. ASSUME /\ net' \in [out : 0 .. T, lost : 0 .. T, dups : 0 .. Dups, strays : 0 .. Strays]
             /\ queue' \in Seq(Packet) /\ Len(queue') <= RcvMax /\ net'.out + net'.lost <= send_ok_num
             /\ Balanced => send_ok_num + net'.dups = net'.out + net'.lost + RepliesQueued' + rev_ok_num
             /\ net.out = 0 => net'.out = 0 /\ RepliesQueued' = RepliesQueued
      PROVE  FloodInv'
  <2>1. TypeOK' /\ Sent' /\ NoneTwice'
    BY <1>1, <1>6 DEF FloodInv, TypeOK, Sent, NoneTwice
  <2>1a. Conserved'
    BY <1>1, <1>6 DEF FloodInv, Conserved, Balanced
  <2>2. SilentAtLast'
    BY <1>1, <1>6 DEF FloodInv, SilentAtLast
  <2>3. QED
    BY <2>1, <2>1a, <2>2 DEF FloodInv
<1>7. CASE ReplyArrives
  <2>1. queue' = Queued("reply") /\ "reply" \in Packet /\ net.out > 0
        /\ net' = [net EXCEPT !.out = @ - 1, !.lost = @ + Dropped]
    BY <1>7 DEF ReplyArrives, Packet
  <2>2. /\ queue' \in Seq(Packet) /\ Len(queue') <= RcvMax
        /\ RepliesQueued' = IF Len(queue) < RcvMax THEN RepliesQueued + 1 ELSE RepliesQueued
    BY <1>5, <2>1
  <2>3. /\ net'.out = net.out - 1 /\ net'.lost = IF Len(queue) < RcvMax THEN net.lost ELSE net.lost + 1
        /\ net'.dups = net.dups /\ net'.strays = net.strays
        /\ net' \in [out : 0 .. T, lost : 0 .. T, dups : 0 .. Dups, strays : 0 .. Strays]
    <3>1. Dropped = IF Len(queue) < RcvMax THEN 0 ELSE 1
      BY DEF Dropped
    <3>2. net.out - 1 \in 0 .. T /\ net.lost + Dropped \in 0 .. T /\ net.lost + 0 = net.lost
      BY <1>2, <1>4a, <2>1, <3>1
    <3>3. QED
      BY <1>2, <2>1, <3>1, <3>2
  <2>4. /\ net'.out + net'.lost <= send_ok_num
        /\ Balanced => send_ok_num + net'.dups = net'.out + net'.lost + RepliesQueued' + rev_ok_num
    <3>1. PICK before, after : before = RepliesQueued /\ after = RepliesQueued'
      OBVIOUS
    <3>2. /\ before \in Nat
          /\ Balanced <=> send_ok_num + net.dups = net.out + net.lost + before + rev_ok_num
      BY <1>4, <3>1 DEF Balanced
    <3>3. /\ net'.out = net.out - 1 /\ net'.dups = net.dups
          /\ \/ net'.lost = net.lost /\ after = before + 1
             \/ net'.lost = net.lost + 1 /\ after = before
      BY <2>2, <2>3, <3>1
    <3>4. net'.out + net'.lost <= send_ok_num
      BY <1>4a, <1>4b, <3>3
    <3>5. Balanced => send_ok_num + net'.dups = net'.out + net'.lost + after + rev_ok_num
      BY <1>4a, <1>4b, <3>2, <3>3
    <3>6. QED
      BY <3>1, <3>4, <3>5
  <2>5. net.out # 0 /\ queue' \in Seq(Packet) /\ Len(queue') <= RcvMax
    BY <1>2, <1>4a, <2>1, <2>2
  <2>6. QED
    BY <1>6, <2>2, <2>3, <2>4, <2>5
<1>8. CASE ReplyLost
  <2>1. net.out > 0 /\ net' = [net EXCEPT !.out = @ - 1, !.lost = @ + 1] /\ queue' = queue
    BY <1>8 DEF ReplyLost
  <2>2. /\ net'.out = net.out - 1 /\ net'.lost = net.lost + 1 /\ net'.dups = net.dups
        /\ net' \in [out : 0 .. T, lost : 0 .. T, dups : 0 .. Dups, strays : 0 .. Strays]
    <3>1. net.out - 1 \in 0 .. T /\ net.lost + 1 \in 0 .. T
      BY <1>2, <1>4a, <2>1
    <3>2. QED
      BY <1>2, <2>1, <3>1
  <2>3. RepliesQueued' = RepliesQueued
    BY <1>3, <2>1
  <2>4. /\ net'.out + net'.lost <= send_ok_num
        /\ Balanced => send_ok_num + net'.dups = net'.out + net'.lost + RepliesQueued' + rev_ok_num
    <3>1. PICK before, after : before = RepliesQueued /\ after = RepliesQueued'
      OBVIOUS
    <3>2. /\ before \in Nat
          /\ Balanced <=> send_ok_num + net.dups = net.out + net.lost + before + rev_ok_num
      BY <1>4, <3>1 DEF Balanced
    <3>3. net'.out = net.out - 1 /\ net'.lost = net.lost + 1 /\ net'.dups = net.dups /\ after = before
      BY <2>2, <2>3, <3>1
    <3>4. net'.out + net'.lost <= send_ok_num
      BY <1>4a, <1>4b, <3>3
    <3>5. Balanced => send_ok_num + net'.dups = net'.out + net'.lost + after + rev_ok_num
      BY <1>4a, <1>4b, <3>2, <3>3
    <3>6. QED
      BY <3>1, <3>4, <3>5
  <2>5. net.out # 0 /\ queue' \in Seq(Packet) /\ Len(queue') <= RcvMax
    BY <1>2, <1>4a, <2>1, <2>2
  <2>6. QED
    BY <1>6, <2>2, <2>3, <2>4, <2>5
<1>9. CASE ReplyRepeated
  <2>1. /\ net.out > 0 /\ net.dups < Dups /\ Len(queue) < RcvMax /\ queue' = Queued("reply")
        /\ net' = [net EXCEPT !.dups = @ + 1] /\ "reply" \in Packet
    BY <1>9 DEF ReplyRepeated, Queued, Packet
  <2>2. queue' \in Seq(Packet) /\ Len(queue') <= RcvMax /\ RepliesQueued' = RepliesQueued + 1
    BY <1>5, <2>1
  <2>3. /\ net'.out = net.out /\ net'.lost = net.lost /\ net'.dups = net.dups + 1
        /\ net' \in [out : 0 .. T, lost : 0 .. T, dups : 0 .. Dups, strays : 0 .. Strays]
    <3>1. net.dups + 1 \in 0 .. Dups
      BY <1>2, <1>4a, <2>1
    <3>2. QED
      BY <1>2, <2>1, <3>1
  <2>4. /\ net'.out + net'.lost <= send_ok_num
        /\ Balanced => send_ok_num + net'.dups = net'.out + net'.lost + RepliesQueued' + rev_ok_num
    <3>1. PICK before, after : before = RepliesQueued /\ after = RepliesQueued'
      OBVIOUS
    <3>2. /\ before \in Nat
          /\ Balanced <=> send_ok_num + net.dups = net.out + net.lost + before + rev_ok_num
      BY <1>4, <3>1 DEF Balanced
    <3>3. net'.out = net.out /\ net'.lost = net.lost /\ net'.dups = net.dups + 1 /\ after = before + 1
      BY <2>2, <2>3, <3>1
    <3>4. net'.out + net'.lost <= send_ok_num
      BY <1>4a, <1>4b, <3>3
    <3>5. Balanced => send_ok_num + net'.dups = net'.out + net'.lost + after + rev_ok_num
      <4>1. send_ok_num + net'.dups = (send_ok_num + net.dups) + 1
        BY <1>4a, <3>3
      <4>2. net'.out + net'.lost + after + rev_ok_num = (net.out + net.lost + before + rev_ok_num) + 1
        BY <1>4a, <1>4b, <3>2, <3>3
      <4>3. QED
        BY <3>2, <4>1, <4>2
    <3>6. QED
      BY <3>1, <3>4, <3>5
  <2>5. net.out # 0 /\ queue' \in Seq(Packet) /\ Len(queue') <= RcvMax
    BY <1>2, <1>4a, <2>1, <2>2
  <2>6. QED
    BY <1>6, <2>2, <2>3, <2>4, <2>5
<1>10. CASE StrayArrives
  <2>1. PICK p \in {"other", "stranger"} : queue' = Queued(p)
    BY <1>10 DEF StrayArrives
  <2>2. net.strays < Strays /\ net' = [net EXCEPT !.strays = @ + 1]
    BY <1>10 DEF StrayArrives
  <2>3. p \in Packet /\ ~p = "reply"
    BY DEF Packet
  <2>4. queue' \in Seq(Packet) /\ Len(queue') <= RcvMax /\ RepliesQueued' = RepliesQueued
    BY <1>5, <2>1, <2>3
  <2>5. /\ net'.out = net.out /\ net'.lost = net.lost /\ net'.dups = net.dups
        /\ net' \in [out : 0 .. T, lost : 0 .. T, dups : 0 .. Dups, strays : 0 .. Strays]
    <3>1. net.strays + 1 \in 0 .. Strays
      BY <1>2, <1>4a, <2>2
    <3>2. QED
      BY <1>2, <2>2, <3>1
  <2>6. Balanced => send_ok_num + net'.dups = net'.out + net'.lost + RepliesQueued' + rev_ok_num
    BY <2>4, <2>5 DEF Balanced
  <2>7. QED
    BY <1>4b, <1>6, <2>4, <2>5, <2>6
<1>11. QED
  BY <1>7, <1>8, <1>9, <1>10 DEF Network

(* The invariant holds at the start ...                                    *)
LEMMA FloodStarts == Init => FloodInv
<1> SUFFICES ASSUME Init PROVE FloodInv
  OBVIOUS
<1>1. T \in Nat \ {0} /\ RcvMax \in Nat /\ Strays \in Nat /\ Dups \in Nat /\ NetKinds \subseteq NetKind
  BY FloodAssumption DEF FloodAssumption
<1>2. RepliesQueued = Cardinality({})
  BY DEF Init, RepliesQueued
<1>3. RepliesQueued = 0
  BY <1>2, FS_EmptySet
<1>4. <<>> \in Seq(Packet) /\ Len(<<>>) = 0
  OBVIOUS
<1>5. TypeOK
  BY <1>1, <1>4 DEF Init, TypeOK
<1>6. Sent /\ NoneTwice /\ Conserved /\ SilentAtLast
  BY <1>1, <1>3 DEF Init, Sent, NoneTwice, Conserved, SilentAtLast
<1>7. QED
  BY <1>5, <1>6 DEF FloodInv

(* ... and ever after.                                                     *)
LEMMA FloodAlways == Spec => []FloodInv
<1>1. FloodInv /\ UNCHANGED vars => FloodInv'
  BY DEF FloodInv, vars, TypeOK, Sent, NoneTwice, Conserved, SilentAtLast, RepliesQueued
<1>2. FloodInv /\ [Next]_vars => FloodInv'
  BY <1>1, QuietStep, SendStep, RecvStep, NetworkStep DEF Next, test, Drained, Ending
<1>3. QED
  BY <1>2, FloodStarts, PTL DEF Spec

-----------------------------------------------------------------------------
(* The results                                                             *)

(* Every variable has its type: the loops stay within their bounds, and no *)
(* more requests are out or lost than were sent.                           *)
THEOREM TypeCorrect == Spec => []TypeOK
<1>1. FloodInv => TypeOK
  BY DEF FloodInv
<1>2. QED
  BY <1>1, FloodAlways, PTL

(* Every request that left is out, lost, waiting in the buffer or counted, *)
(* and counted once; none is counted when the process id is too wide.      *)
THEOREM EveryReplyOnce == Spec => []Conserved
<1>1. FloodInv => Conserved
  BY DEF FloodInv
<1>2. QED
  BY <1>1, FloodAlways, PTL

(* When the network answers within a second, loses nothing and repeats     *)
(* nothing, the report shows as many good replies as good requests, or     *)
(* none when the process id is too wide.                                   *)
THEOREM CompleteReport == Spec => []ReportComplete
<1>1. FloodInv => ReportComplete
  <2>1. SUFFICES ASSUME FloodInv, pc = "report", ~kind.late, net.lost = 0, net.dups = 0
                 PROVE  rev_ok_num = IF pid < 2^16 THEN send_ok_num ELSE 0
    BY DEF ReportComplete
  <2>2. pid < 2^16 <=> ~(pid >= 2^16)
    <3>1. pid \in Nat
      BY <2>1, FloodAssumption DEF FloodAssumption, FloodInv, TypeOK
    <3>2. QED
      BY <3>1, Recognised
  <2>3. send_ok_num \in Nat /\ rev_ok_num \in Nat /\ net.out = 0 /\ RepliesQueued = 0
    BY <2>1, FloodAssumption DEF FloodAssumption, FloodInv, TypeOK, SilentAtLast
  <2>4. QED
    BY <2>1, <2>2, <2>3 DEF FloodInv, Conserved
<1>2. QED
  BY <1>1, FloodAlways, PTL
=============================================================================
