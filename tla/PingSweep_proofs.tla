--------------------------- MODULE PingSweep_proofs ---------------------------
(***************************************************************************)
(* test() of ping2.c on any network of any size: what the user is shown,   *)
(* and what get_resp says at the end, is what the packets that were read   *)
(* say.  The invariant behind it is SweepInv.                              *)
(***************************************************************************)
EXTENDS PingSweep, FiniteSetTheorems, TLAPS

-----------------------------------------------------------------------------
(* Why the results are right.  A request is of the round that runs or of   *)
(* an earlier one, and when the network is in time no reply outlives its   *)
(* round; a round starts with the results cleared; while the replies are   *)
(* read, and until the results are cleared again, an address has PING_OK   *)
(* only for a reply that was read and, as long as nothing but replies to   *)
(* this process came in, for every reply that was read.                    *)
Packets  == {Reply(q) : q \in Hosts \X {1, 2}} \cup {Other(a) : a \in Hosts}
Buffered == {queue[n] : n \in DOMAIN queue}
Waits(q) == q \in net.out \/ Reply(q) \in Buffered
Quiet    == net.strays = 0 /\ Pid < 2^16

SweepTypes ==
  /\ resp \in [Table!Tracked -> Table!Res]
  /\ pc \in {"add", "send", "drain", "show", "clear", "del", "get", "done"}
  /\ queue \in Seq(Packets) /\ kind \in NetKinds
  /\ net \in [out : SUBSET (Hosts \X {1, 2}), dups : Nat, strays : Nat]
  /\ shown \in [{"total", "ok", "error", "send_fail", "not_recv"} -> 0 .. Cardinality(Hosts)]

SweepPlace ==
  /\ pc \in {"add", "clear", "del"} => round = 1
  /\ pc \in {"get", "done"} => round = 2
  /\ pc = "add" => net.out = {} /\ queue = <<>> /\ seen = {}
  /\ pc \in {"add", "send", "del"} => \A a \in Table!Tracked : resp[a] = 0

Rounds ==
  /\ \A q \in Hosts \X {1, 2} :
       Waits(q) \/ q \in seen => q[2] <= round /\ (q[2] = 2 => q[1] \in Table!Tracked)
  /\ pc = "send" => \A q \in seen : q[2] < round
  /\ ~kind.late => \A q \in Hosts \X {1, 2} : Waits(q) => pc = "drain" /\ q[2] = round

Results ==
  /\ Quiet => \A p \in Buffered : IsReply(p)
  /\ pc \in {"drain", "show", "clear", "get", "done"} =>
       \A a \in Table!Tracked :
         /\ resp[a] = PING_OK => \E r \in 1 .. round : <<a, r>> \in seen /\ (r = round \/ kind.late)
         /\ Quiet /\ <<a, round>> \in seen => resp[a] = PING_OK
         /\ Quiet => resp[a] # PING_ERROR_OCCUR

Told ==
  /\ pc \in {"clear", "get"} => shown = Counts
  /\ pc = "done" => (ret = 1 <=> Asked \in Table!Tracked /\ resp[Asked] = PING_OK)

SweepInv == TypeOK /\ SweepTypes /\ SweepPlace /\ Rounds /\ Results /\ Told

-----------------------------------------------------------------------------
(* Packets and the socket's buffer                                         *)

(* A packet tells which it is.                                             *)
LEMMA PacketsDiffer ==
  /\ \A q, r \in Hosts \X {1, 2} : Reply(q) = Reply(r) => q = r
  /\ \A q \in Hosts \X {1, 2}, a \in Hosts : Reply(q) # Other(a)
  /\ \A q \in Hosts \X {1, 2} :
       /\ Reply(q).kind = "reply" /\ Reply(q).request = q /\ Reply(q).from = q[1]
       /\ Reply(q) \in Packets /\ Reply(q).from \in Hosts
  /\ \A a \in Hosts : Other(a).kind = "other" /\ Other(a).from = a /\ Other(a) \in Packets
  BY DEF Reply, Other, Packets

(* What this process sent comes back with its id, when the id has room for *)
(* the process id.                                                         *)
LEMMA OwnReply ==
  ASSUME Pid < 2^16
  PROVE  \A q \in Hosts \X {1, 2} : IsReply(Reply(q))
<1>1. icmp_id = Pid
  BY SweepAssumption DEF SweepAssumption, icmp_id
<1>2. QED
  BY <1>1 DEF IsReply, Reply

(* A packet that comes in is one more in the buffer.                       *)
LEMMA BufferGrows ==
  ASSUME queue \in Seq(Packets), NEW p \in Packets, queue' = Append(queue, p)
  PROVE  queue' \in Seq(Packets) /\ Buffered' = Buffered \cup {p}
<1>1. /\ Len(queue) \in Nat /\ DOMAIN queue = 1 .. Len(queue)
      /\ DOMAIN queue' = 1 .. Len(queue) + 1
      /\ \A n \in 1 .. Len(queue) : queue'[n] = queue[n]
      /\ queue'[Len(queue) + 1] = p
  OBVIOUS
<1>2. Buffered' \subseteq Buffered \cup {p}
  BY <1>1 DEF Buffered
<1>3. Buffered \subseteq Buffered'
  BY <1>1 DEF Buffered
<1>4. p \in Buffered'
  <2>1. Len(queue) + 1 \in DOMAIN queue'
    BY <1>1
  <2>2. QED
    BY <1>1, <2>1 DEF Buffered
<1>5. QED
  BY <1>2, <1>3, <1>4

(* Reading a packet takes it off the front.                                *)
LEMMA BufferShrinks ==
  ASSUME queue \in Seq(Packets), queue # <<>>
  PROVE  /\ Head(queue) \in Packets /\ Head(queue) \in Buffered /\ Tail(queue) \in Seq(Packets)
         /\ queue' = Tail(queue) => Buffered' \subseteq Buffered
<1>1. /\ Len(queue) \in Nat \ {0} /\ DOMAIN queue = 1 .. Len(queue) /\ Head(queue) = queue[1]
      /\ Tail(queue) \in Seq(Packets) /\ DOMAIN Tail(queue) = 1 .. Len(queue) - 1
      /\ \A n \in 1 .. Len(queue) - 1 : Tail(queue)[n] = queue[n + 1]
  OBVIOUS
<1>2. Head(queue) \in Packets /\ Head(queue) \in Buffered
  BY <1>1 DEF Buffered
<1>3. \A n \in 1 .. Len(queue) - 1 : n + 1 \in DOMAIN queue
  BY <1>1
<1>4. queue' = Tail(queue) => Buffered' \subseteq Buffered
  BY <1>1, <1>3 DEF Buffered
<1>5. QED
  BY <1>1, <1>2, <1>4

-----------------------------------------------------------------------------
(* The table                                                               *)

(* The counts are numbers of addresses.                                    *)
LEMMA CountsAreSmall ==
  ASSUME SweepTypes, Table!Tracked \subseteq Hosts
  PROVE  Counts \in [{"total", "ok", "error", "send_fail", "not_recv"} -> 0 .. Cardinality(Hosts)]
<1>1. ASSUME NEW S \in SUBSET Table!Tracked
      PROVE  Cardinality(S) \in 0 .. Cardinality(Hosts)
  <2>1. IsFiniteSet(Hosts) /\ S \in SUBSET Hosts
    BY SweepAssumption DEF SweepAssumption
  <2>2. IsFiniteSet(S) /\ Cardinality(S) <= Cardinality(Hosts)
    BY <2>1, FS_Subset
  <2>3. Cardinality(S) \in Nat /\ Cardinality(Hosts) \in Nat
    BY <2>1, <2>2, FS_CardinalityType
  <2>4. QED
    BY <2>2, <2>3
<1>2. \A r : Count(r) \in 0 .. Cardinality(Hosts)
  BY <1>1 DEF Count
<1>3. Cardinality(Table!Tracked) \in 0 .. Cardinality(Hosts)
  BY <1>1
<1>4. QED
  BY <1>2, <1>3 DEF Counts

(* What each call of the table does to the results.  The deletion mark is  *)
(* no address of the network, so a deletion changes no other result.       *)
LEMMA TableCalls ==
  ASSUME TypeOK, SweepTypes, [Next]_vars
  PROVE  /\ \A a \in Hosts : Add(a) =>
              /\ Table!Tracked' \subseteq Table!Tracked \cup {a}
              /\ resp' \in [Table!Tracked' -> Table!Res] /\ ret' \in {-1, 0, 1}
              /\ \A b \in Table!Tracked' : (b \in Table!Tracked /\ resp'[b] = resp[b]) \/ resp'[b] = 0
         /\ \A a \in Hosts : Del(a) =>
              /\ Table!Tracked' \subseteq Table!Tracked
              /\ resp' \in [Table!Tracked' -> Table!Res] /\ ret' \in {-1, 0, 1}
              /\ \A b \in Table!Tracked' : resp'[b] = resp[b]
         /\ Send =>
              /\ Table!Tracked' = Table!Tracked
              /\ resp' \in [Table!Tracked' -> Table!Res] /\ ret' \in {-1, 0, 1}
              /\ \A b \in Table!Tracked : resp'[b] \in {resp[b], PING_SEND_FAIL}
         /\ Clear =>
              /\ Table!Tracked' = Table!Tracked /\ ret' = ret
              /\ resp' = [b \in Table!Tracked |-> 0]
         /\ Receive =>
              LET p == Head(queue) IN
              /\ Table!Tracked' = Table!Tracked
              /\ resp' \in [Table!Tracked' -> Table!Res] /\ ret' \in {-1, 0, 1}
              /\ \A b \in Table!Tracked :
                   resp'[b] = IF b = p.from THEN IF IsReply(p) THEN PING_OK ELSE PING_ERROR_OCCUR
                              ELSE resp[b]
         /\ GetResp =>
              /\ UNCHANGED resp /\ ret' \in {-1, 0, 1}
              /\ ret' = 1 <=> Asked \in Table!Tracked /\ resp[Asked] = PING_OK
<1> USE DEF Table!Tracked, Table!Res, Table!PING_OK, Table!PING_SEND_FAIL, Table!PING_ERROR_OCCUR,
            PING_OK, PING_SEND_FAIL, PING_ERROR_OCCUR
<1>1. resp \in [Table!Tracked -> Table!Res] /\ Table!Tracked \subseteq Hosts /\ Bcast \notin Hosts
  BY SweepAssumption DEF TypeOK, SweepTypes, SweepAssumption
<1>2. ASSUME NEW a \in Hosts, Add(a)
      PROVE  /\ Table!Tracked' \subseteq Table!Tracked \cup {a}
             /\ resp' \in [Table!Tracked' -> Table!Res] /\ ret' \in {-1, 0, 1}
             /\ \A b \in Table!Tracked' : (b \in Table!Tracked /\ resp'[b] = resp[b]) \/ resp'[b] = 0
  <2>1. CASE a \notin Table!Tracked /\ Table!Add(a) /\ resp'[a] = 0
    BY <1>1, <2>1 DEF Table!Add
  <2>2. CASE UNCHANGED resp /\ ret' \in {-1, 0}
    BY <1>1, <2>2
  <2>3. QED
    BY <1>2, <2>1, <2>2 DEF Add, Table!Add, Table!AddFails
<1>3. ASSUME NEW a \in Hosts, Del(a)
      PROVE  /\ Table!Tracked' \subseteq Table!Tracked
             /\ resp' \in [Table!Tracked' -> Table!Res] /\ ret' \in {-1, 0, 1}
             /\ \A b \in Table!Tracked' : resp'[b] = resp[b]
  <2>1. resp' = [b \in Table!Tracked \ {a} |-> resp[b]] /\ ret' = 0
    BY <1>1, <1>3 DEF Del, Table!Del
  <2>2. QED
    BY <1>1, <2>1
<1>4. ASSUME Send
      PROVE  /\ Table!Tracked' = Table!Tracked
             /\ resp' \in [Table!Tracked' -> Table!Res] /\ ret' \in {-1, 0, 1}
             /\ \A b \in Table!Tracked : resp'[b] \in {resp[b], PING_SEND_FAIL}
  <2>1. PICK failed \in SUBSET Table!Tracked :
          resp' = [b \in Table!Tracked |-> IF b \in failed THEN PING_SEND_FAIL ELSE resp[b]]
    BY <1>4 DEF Send, Table!Send
  <2>2. ret' = 0
    BY <1>4 DEF Send, Table!Send
  <2>3. QED
    BY <1>1, <2>1, <2>2
<1>5. ASSUME Clear
      PROVE  /\ Table!Tracked' = Table!Tracked /\ ret' = ret
             /\ resp' = [b \in Table!Tracked |-> 0]
  BY <1>1, <1>5 DEF Clear, Table!Clear
<1>6. ASSUME Receive
      PROVE  LET p == Head(queue) IN
             /\ Table!Tracked' = Table!Tracked
             /\ resp' \in [Table!Tracked' -> Table!Res] /\ ret' \in {-1, 0, 1}
             /\ \A b \in Table!Tracked :
                  resp'[b] = IF b = p.from THEN IF IsReply(p) THEN PING_OK ELSE PING_ERROR_OCCUR
                             ELSE resp[b]
  <2> DEFINE p == Head(queue)
             v == IF IsReply(p) THEN PING_OK ELSE PING_ERROR_OCCUR
  <2>1. Table!Receive(p.from, v) /\ v \in Table!Res
    BY <1>6 DEF Receive
  <2> HIDE DEF v
  <2>2. CASE p.from \in Table!Tracked /\ resp' = [resp EXCEPT ![p.from] = v] /\ ret' = 0
    <3>1. /\ Table!Tracked' = Table!Tracked /\ resp' \in [Table!Tracked' -> Table!Res]
          /\ \A b \in Table!Tracked : resp'[b] = IF b = p.from THEN v ELSE resp[b]
      BY <1>1, <2>1, <2>2
    <3>2. QED
      BY <2>2, <3>1 DEF v
  <2>3. CASE p.from \notin Table!Tracked /\ ret' = -1 /\ UNCHANGED resp
    BY <1>1, <2>3
  <2>4. QED
    BY <2>1, <2>2, <2>3 DEF Table!Receive
<1>7. ASSUME GetResp
      PROVE  /\ UNCHANGED resp /\ ret' \in {-1, 0, 1}
             /\ ret' = 1 <=> Asked \in Table!Tracked /\ resp[Asked] = PING_OK
  BY <1>1, <1>7 DEF GetResp, Table!GetResp
<1>8. QED
  BY <1>2, <1>3, <1>4, <1>5, <1>6, <1>7

-----------------------------------------------------------------------------
(* The steps.  Every action keeps the kind of the network.                 *)

(* What a step does to the buffer and to the requests that are out.        *)
LEMMA NetworkStep ==
  ASSUME SweepTypes, round \in {1, 2}, Network
  PROVE  /\ UNCHANGED <<resp, ret, pc, round, todo, shown, seen>>
         /\ net' \in [out : SUBSET (Hosts \X {1, 2}), dups : Nat, strays : Nat]
         /\ net'.out \subseteq net.out /\ queue' \in Seq(Packets)
         /\ (net'.strays = 0 => net.strays = 0) /\ (pc = "add" => UNCHANGED queue)
         /\ \A p \in Buffered' :
              \/ p \in Buffered
              \/ \E q \in net.out : p = Reply(q)
              \/ net'.strays # 0 /\ \E a \in Hosts : p = Other(a)
<1>1. /\ net \in [out : SUBSET (Hosts \X {1, 2}), dups : Nat, strays : Nat]
      /\ queue \in Seq(Packets)
  BY DEF SweepTypes
<1>2. CASE ReplyArrives
  <2>1. PICK q \in net.out :
          queue' = Append(queue, Reply(q)) /\ net' = [net EXCEPT !.out = @ \ {q}]
    BY <1>2 DEF ReplyArrives
  <2>2. Reply(q) \in Packets
    BY <1>1, PacketsDiffer
  <2>3. queue' \in Seq(Packets) /\ Buffered' = Buffered \cup {Reply(q)}
    BY <1>1, <2>1, <2>2, BufferGrows
  <2>4. QED
    BY <1>1, <1>2, <2>1, <2>3 DEF ReplyArrives, Listening
<1>3. CASE RequestOrReplyLost
  <2>1. PICK q \in net.out : net' = [net EXCEPT !.out = @ \ {q}]
    BY <1>3 DEF RequestOrReplyLost
  <2>2. QED
    BY <1>1, <1>3, <2>1 DEF RequestOrReplyLost, Buffered
<1>4. CASE ReplyRepeated
  <2>1. PICK q \in net.out : queue' = Append(queue, Reply(q))
    BY <1>4 DEF ReplyRepeated
  <2>2. Reply(q) \in Packets
    BY <1>1, PacketsDiffer
  <2>3. queue' \in Seq(Packets) /\ Buffered' = Buffered \cup {Reply(q)}
    BY <1>1, <2>1, <2>2, BufferGrows
  <2>4. net' = [net EXCEPT !.dups = @ + 1] /\ net.dups + 1 \in Nat
    BY <1>1, <1>4 DEF ReplyRepeated
  <2>5. QED
    BY <1>1, <1>4, <2>1, <2>3, <2>4 DEF ReplyRepeated, Listening
<1>5. CASE StrayArrives
  <2>1. PICK a \in Hosts : queue' = Append(queue, Other(a))
    BY <1>5 DEF StrayArrives
  <2>2. queue' \in Seq(Packets) /\ Buffered' = Buffered \cup {Other(a)}
    BY <1>1, <2>1, PacketsDiffer, BufferGrows
  <2>3. net' = [net EXCEPT !.strays = @ + 1] /\ net.strays + 1 \in Nat \ {0}
    BY <1>1, <1>5 DEF StrayArrives
  <2>4. QED
    BY <1>1, <1>5, <2>1, <2>2, <2>3 DEF StrayArrives, Listening
<1>6. QED
  BY <1>2, <1>3, <1>4, <1>5 DEF Network

(* The types.                                                              *)
LEMMA TypesStep ==
  ASSUME TypeOK, SweepTypes, [Next]_vars
  PROVE  TypeOK' /\ SweepTypes'
<1> USE DEF Table!Res, Table!PING_OK, Table!PING_SEND_FAIL, Table!PING_ERROR_OCCUR
<1>1. /\ Table!Tracked \subseteq Hosts \ {Own} /\ todo \subseteq Hosts \ {Own}
      /\ ret \in {-1, 0, 1} /\ round \in {1, 2} /\ seen \subseteq Hosts \X {1, 2}
      /\ resp \in [Table!Tracked -> Table!Res] /\ kind \in NetKinds /\ queue \in Seq(Packets)
      /\ net \in [out : SUBSET (Hosts \X {1, 2}), dups : Nat, strays : Nat]
      /\ shown \in [{"total", "ok", "error", "send_fail", "not_recv"} -> 0 .. Cardinality(Hosts)]
  BY DEF TypeOK, SweepTypes
<1>2. ASSUME /\ Table!Tracked' \subseteq Hosts \ {Own} /\ todo' \subseteq Hosts \ {Own}
             /\ ret' \in {-1, 0, 1} /\ round' \in {1, 2} /\ seen' \subseteq Hosts \X {1, 2}
             /\ resp' \in [Table!Tracked' -> Table!Res] /\ kind' \in NetKinds /\ queue' \in Seq(Packets)
             /\ net' \in [out : SUBSET (Hosts \X {1, 2}), dups : Nat, strays : Nat]
             /\ shown' \in [{"total", "ok", "error", "send_fail", "not_recv"} -> 0 .. Cardinality(Hosts)]
             /\ pc' \in {"add", "send", "drain", "show", "clear", "del", "get", "done"}
      PROVE  TypeOK' /\ SweepTypes'
  BY <1>2 DEF TypeOK, SweepTypes
<1>3. ASSUME NEW a \in Hosts, Add(a), UNCHANGED kind PROVE TypeOK' /\ SweepTypes'
  <2>1. a # Own
    BY <1>1, <1>3 DEF Add
  <2>2. QED
    BY <1>1, <1>2, <1>3, <2>1, TableCalls DEF Add, SweepTypes
<1>4. ASSUME NEW a \in Hosts, Del(a), UNCHANGED kind PROVE TypeOK' /\ SweepTypes'
  BY <1>1, <1>2, <1>4, TableCalls DEF Del
<1>5. CASE AddsDone /\ UNCHANGED kind
  BY <1>1, <1>2, <1>5 DEF AddsDone, Table!Tracked
<1>6. CASE Send /\ UNCHANGED kind
  <2>1. net'.out \subseteq Hosts \X {1, 2} /\ net' = [net EXCEPT !.out = net'.out]
    BY <1>1, <1>6 DEF Send
  <2>2. net' \in [out : SUBSET (Hosts \X {1, 2}), dups : Nat, strays : Nat]
    BY <1>1, <2>1
  <2>3. QED
    BY <1>1, <1>2, <1>6, <2>2, TableCalls DEF Send
<1>7. CASE Receive /\ UNCHANGED kind
  <2>1. queue' \in Seq(Packets) /\ Head(queue) \in Packets
    BY <1>1, <1>7, BufferShrinks DEF Receive, Rest
  <2>2. seen' \subseteq Hosts \X {1, 2}
    <3>1. Head(queue).kind = "reply" => Head(queue).request \in Hosts \X {1, 2}
      BY <2>1, PacketsDiffer DEF Packets
    <3>2. QED
      BY <1>1, <1>7, <3>1 DEF Receive
  <2>3. QED
    BY <1>1, <1>2, <1>7, <2>1, <2>2, TableCalls DEF Receive
<1>8. CASE PollTimesOut /\ UNCHANGED kind
  BY <1>1, <1>2, <1>8 DEF PollTimesOut, Table!Tracked
<1>9. CASE ping_show_res /\ UNCHANGED kind
  <2>1. shown' \in [{"total", "ok", "error", "send_fail", "not_recv"} -> 0 .. Cardinality(Hosts)]
    BY <1>1, <1>9, CountsAreSmall DEF ping_show_res
  <2>2. QED
    BY <1>1, <1>2, <1>9, <2>1 DEF ping_show_res, Table!Tracked
<1>10. CASE Clear /\ UNCHANGED kind
  <2>1. resp' \in [Table!Tracked' -> Table!Res] /\ Table!Tracked' = Table!Tracked /\ ret' = ret
    BY <1>10, TableCalls
  <2>2. todo' \subseteq Hosts \ {Own}
    BY <1>10, SweepAssumption DEF Clear, Skipped, SweepAssumption
  <2>3. QED
    BY <1>1, <1>2, <1>10, <2>1, <2>2 DEF Clear
<1>11. CASE DelsDone /\ UNCHANGED kind
  BY <1>1, <1>2, <1>11 DEF DelsDone, Table!Tracked
<1>12. CASE GetResp /\ UNCHANGED kind
  BY <1>1, <1>2, <1>12, TableCalls DEF GetResp, Table!Tracked
<1>13. CASE Network /\ UNCHANGED kind
  BY <1>1, <1>2, <1>13, NetworkStep DEF Table!Tracked, SweepTypes
<1>14. CASE UNCHANGED vars
  BY <1>14 DEF vars, TypeOK, SweepTypes, Table!Tracked
<1>15. QED
  BY <1>3, <1>4, <1>5, <1>6, <1>7, <1>8, <1>9, <1>10, <1>11, <1>12, <1>13, <1>14
     DEF Next, test, Ending

(* Where the program is, and that a round starts with the results cleared. *)
LEMMA PlaceStep ==
  ASSUME TypeOK, SweepTypes, SweepPlace, [Next]_vars
  PROVE  SweepPlace'
<1>1. ASSUME NEW a \in Hosts, Add(a) PROVE SweepPlace'
  BY <1>1, TableCalls DEF Add, SweepPlace
<1>2. ASSUME NEW a \in Hosts, Del(a) PROVE SweepPlace'
  BY <1>2, TableCalls DEF Del, SweepPlace
<1>3. CASE Clear
  BY <1>3, TableCalls DEF Clear, SweepPlace
<1>4. CASE Send \/ Receive
  BY <1>4 DEF Send, Receive, SweepPlace
<1>5. CASE ping_show_res
  BY <1>5 DEF ping_show_res, SweepPlace, TypeOK
<1>6. CASE AddsDone \/ PollTimesOut \/ DelsDone \/ GetResp
  BY <1>6 DEF AddsDone, PollTimesOut, DelsDone, GetResp, Table!GetResp, SweepPlace, Table!Tracked
<1>7. CASE Network
  <2>1. UNCHANGED <<resp, pc, round, seen>> /\ net'.out \subseteq net.out
        /\ (pc = "add" => UNCHANGED queue)
    BY <1>7, NetworkStep DEF TypeOK
  <2>2. QED
    BY <2>1 DEF SweepPlace, Table!Tracked
<1>8. CASE UNCHANGED vars
  BY <1>8 DEF vars, SweepPlace, Table!Tracked
<1>9. QED
  BY <1>1, <1>2, <1>3, <1>4, <1>5, <1>6, <1>7, <1>8 DEF Next, test, Ending

(* A request of this round goes to a tracked address only, and a network   *)
(* in time has answered every one when the poll finds silence.             *)
LEMMA RoundsStep ==
  ASSUME TypeOK, SweepTypes, SweepPlace, Rounds, [Next]_vars
  PROVE  Rounds'
<1>1. /\ Table!Tracked \subseteq Hosts /\ round \in {1, 2} /\ seen \subseteq Hosts \X {1, 2}
      /\ net.out \subseteq Hosts \X {1, 2} /\ queue \in Seq(Packets)
  BY DEF TypeOK, SweepTypes
<1>2. ASSUME UNCHANGED <<net, queue, seen, round, kind>>, pc # "drain", pc' # "drain",
             pc' = "send" => pc \in {"add", "send"},
             Table!Tracked' = Table!Tracked \/ round = 1
      PROVE  Rounds'
  <2>1. \A q \in Hosts \X {1, 2} : Waits(q)' <=> Waits(q)
    BY <1>2 DEF Waits, Buffered
  <2>2. pc' = "send" => \A q \in seen' : q[2] < round'
    BY <1>2 DEF Rounds, SweepPlace
  <2>3. ~kind'.late => \A q \in Hosts \X {1, 2} : ~Waits(q)'
    BY <1>2, <2>1 DEF Rounds
  <2>4. \A q \in Hosts \X {1, 2} : Waits(q)' \/ q \in seen' =>
          q[2] <= round' /\ (q[2] = 2 => q[1] \in Table!Tracked')
    <3>1. \A q \in Hosts \X {1, 2} : q[2] <= 1 => q[2] # 2
      OBVIOUS
    <3>2. QED
      BY <1>2, <2>1, <3>1 DEF Rounds
  <2>5. QED
    BY <1>2, <2>2, <2>3, <2>4 DEF Rounds
<1>3. ASSUME NEW a \in Hosts, Add(a), UNCHANGED kind PROVE Rounds'
  BY <1>2, <1>3 DEF Add, SweepPlace
<1>4. ASSUME NEW a \in Hosts, Del(a), UNCHANGED kind PROVE Rounds'
  BY <1>2, <1>4 DEF Del, SweepPlace
<1>5. CASE (AddsDone \/ ping_show_res \/ Clear \/ GetResp) /\ UNCHANGED kind
  <2>1. Table!Tracked' = Table!Tracked
    BY <1>5, TableCalls DEF AddsDone, ping_show_res, GetResp, Table!GetResp, Table!Tracked
  <2>2. QED
    BY <1>2, <1>5, <2>1 DEF AddsDone, ping_show_res, Clear, GetResp, Table!GetResp
<1>6. CASE Send /\ UNCHANGED kind
  <2>1. /\ pc = "send" /\ pc' = "drain" /\ UNCHANGED <<queue, seen, round>>
        /\ Table!Tracked' = Table!Tracked
        /\ \A q \in net'.out : q \in net.out \/ q \in Table!Tracked \X {round}
    <3>1. net' = [net EXCEPT !.out = @ \cup ((Table!Tracked \ Failed) \X {round})]
      BY <1>6 DEF Send
    <3>2. net'.out = net.out \cup ((Table!Tracked \ Failed) \X {round})
      BY <3>1 DEF SweepTypes
    <3>3. QED
      BY <1>6, <3>2, TableCalls DEF Send
  <2>2. \A q \in Hosts \X {1, 2} : Waits(q)' => Waits(q) \/ q \in Table!Tracked \X {round}
    BY <2>1 DEF Waits, Buffered
  <2>3. \A q \in Hosts \X {1, 2} : q \in Table!Tracked \X {round} =>
          q[2] = round /\ q[2] <= round /\ q[1] \in Table!Tracked
    BY <1>1
  <2>4. ~kind.late => \A q \in Hosts \X {1, 2} : ~Waits(q)
    BY <2>1 DEF Rounds
  <2>5. QED
    BY <1>6, <2>1, <2>2, <2>3, <2>4 DEF Rounds
<1>7. CASE Receive /\ UNCHANGED kind
  <2>1. /\ pc = "drain" /\ pc' = "drain" /\ UNCHANGED <<net, round>>
        /\ Table!Tracked' = Table!Tracked /\ Buffered' \subseteq Buffered
    BY <1>1, <1>7, TableCalls, BufferShrinks DEF Receive, Rest
  <2>2. \A q \in Hosts \X {1, 2} : Waits(q)' => Waits(q)
    BY <2>1 DEF Waits
  <2>3. \A q \in Hosts \X {1, 2} : q \in seen' => q \in seen \/ Waits(q)
    <3>1. Head(queue) \in Packets /\ Head(queue) \in Buffered
      BY <1>1, <1>7, BufferShrinks DEF Receive
    <3>2. \A q \in Hosts \X {1, 2} :
            Head(queue).kind = "reply" /\ q = Head(queue).request => Head(queue) = Reply(q)
      BY <3>1, PacketsDiffer DEF Packets
    <3>3. QED
      BY <1>7, <3>1, <3>2 DEF Receive, Waits
  <2>4. QED
    BY <1>7, <2>1, <2>2, <2>3 DEF Rounds
<1>8. CASE PollTimesOut /\ UNCHANGED kind
  <2>1. pc' = "show" /\ UNCHANGED <<net, queue, seen, round, resp>>
    BY <1>8 DEF PollTimesOut
  <2>2. \A q \in Hosts \X {1, 2} : Waits(q)' <=> Waits(q)
    BY <2>1 DEF Waits, Buffered
  <2>3. ~kind.late => \A q \in Hosts \X {1, 2} : ~Waits(q)
    BY <1>8 DEF PollTimesOut, Waits, Buffered
  <2>4. QED
    BY <1>8, <2>1, <2>2, <2>3 DEF Rounds, Table!Tracked
<1>9. CASE DelsDone /\ UNCHANGED kind
  <2>1. /\ pc = "del" /\ pc' = "send" /\ round = 1 /\ round' = 2
        /\ UNCHANGED <<net, queue, seen, resp>>
    BY <1>9 DEF DelsDone, SweepPlace
  <2>2. \A q \in Hosts \X {1, 2} : Waits(q)' <=> Waits(q)
    BY <2>1 DEF Waits, Buffered
  <2>3. \A q \in Hosts \X {1, 2} : Waits(q) \/ q \in seen => q[2] <= 1
    BY <2>1 DEF Rounds
  <2>4. \A q \in Hosts \X {1, 2} : q[2] <= 1 => q[2] # 2 /\ q[2] < 2 /\ q[2] <= 2
    OBVIOUS
  <2>5. ~kind.late => \A q \in Hosts \X {1, 2} : ~Waits(q)
    BY <2>1 DEF Rounds
  <2>6. QED
    BY <1>1, <1>9, <2>1, <2>2, <2>3, <2>4, <2>5 DEF Rounds
<1>10. CASE Network /\ UNCHANGED kind
  <2>1. /\ UNCHANGED <<resp, pc, round, seen>> /\ net'.out \subseteq net.out
        /\ \A p \in Buffered' :
             p \in Buffered \/ (\E q \in net.out : p = Reply(q)) \/ \E a \in Hosts : p = Other(a)
    BY <1>1, <1>10, NetworkStep
  <2>2. \A q \in Hosts \X {1, 2} : Waits(q)' => Waits(q)
    BY <1>1, <2>1, PacketsDiffer DEF Waits
  <2>3. QED
    BY <1>10, <2>1, <2>2 DEF Rounds, Table!Tracked
<1>11. CASE UNCHANGED vars
  BY <1>11 DEF vars, Rounds, Waits, Buffered, Table!Tracked
<1>12. QED
  BY <1>3, <1>4, <1>5, <1>6, <1>7, <1>8, <1>9, <1>10, <1>11 DEF Next, test, Ending

(* Results, while they are read and until they are cleared.                *)
LEMMA ResultsStep ==
  ASSUME TypeOK, SweepTypes, SweepPlace, Rounds, Results, [Next]_vars
  PROVE  Results'
<1> USE DEF PING_OK, PING_SEND_FAIL, PING_ERROR_OCCUR
<1>1. /\ Table!Tracked \subseteq Hosts /\ round \in {1, 2} /\ seen \subseteq Hosts \X {1, 2}
      /\ net \in [out : SUBSET (Hosts \X {1, 2}), dups : Nat, strays : Nat]
      /\ queue \in Seq(Packets)
  BY DEF TypeOK, SweepTypes
<1>2. ASSUME UNCHANGED <<net, queue>>,
             pc' \in {"drain", "show", "clear", "get", "done"} =>
               /\ UNCHANGED <<resp, seen, round, kind>>
               /\ pc \in {"drain", "show", "clear", "get", "done"}
      PROVE  Results'
  BY <1>2 DEF Results, Buffered, Quiet, Table!Tracked
<1>3. ASSUME NEW a \in Hosts, Add(a) \/ Del(a) PROVE Results'
  BY <1>2, <1>3 DEF Add, Del
<1>4. CASE AddsDone \/ Clear \/ DelsDone
  BY <1>2, <1>4 DEF AddsDone, Clear, DelsDone
<1>5. CASE (PollTimesOut \/ ping_show_res \/ GetResp) /\ UNCHANGED kind
  BY <1>2, <1>5 DEF PollTimesOut, ping_show_res, GetResp, Table!GetResp
<1>6. CASE Send /\ UNCHANGED kind
  <2>1. /\ pc = "send" /\ pc' = "drain" /\ UNCHANGED <<queue, seen, round>>
        /\ Table!Tracked' = Table!Tracked
        /\ \A b \in Table!Tracked : resp'[b] \in {resp[b], PING_SEND_FAIL}
    BY <1>6, TableCalls DEF Send
  <2>2. net'.strays = net.strays
    BY <1>1, <1>6 DEF Send
  <2>3. \A a \in Table!Tracked : resp'[a] \in {0, PING_SEND_FAIL}
    BY <2>1 DEF SweepPlace
  <2>4. \A a \in Table!Tracked : <<a, round>> \notin seen
    <3>1. \A a \in Table!Tracked : <<a, round>>[2] = round /\ ~(round < round)
      BY <1>1
    <3>2. QED
      BY <2>1, <3>1 DEF Rounds
  <2>5. \A p \in Buffered' : Quiet' => IsReply(p)
    BY <2>1, <2>2 DEF Results, Quiet, Buffered
  <2>6. QED
    BY <2>1, <2>3, <2>4, <2>5 DEF Results
<1>7. CASE Receive /\ UNCHANGED kind
  <2>1. PICK p \in Packets : p = Head(queue) /\ p \in Buffered
    BY <1>1, <1>7, BufferShrinks DEF Receive
  <2>2. /\ pc = "drain" /\ pc' = "drain" /\ UNCHANGED <<net, round>>
        /\ Table!Tracked' = Table!Tracked /\ Buffered' \subseteq Buffered
        /\ seen' = IF p.kind = "reply" THEN seen \cup {p.request} ELSE seen
        /\ \A b \in Table!Tracked :
             resp'[b] = IF b = p.from THEN IF IsReply(p) THEN PING_OK ELSE PING_ERROR_OCCUR
                        ELSE resp[b]
    BY <1>1, <1>7, <2>1, TableCalls, BufferShrinks DEF Receive, Rest
  <2>3. Quiet' <=> Quiet
    BY <2>2 DEF Quiet
  <2>4. Quiet => IsReply(p)
    BY <2>1 DEF Results
  <2>5. p.kind = "reply" =>
          /\ p.request \in Hosts \X {1, 2} /\ p.from = p.request[1] /\ p = Reply(p.request)
          /\ p.request[2] <= round /\ (~kind.late => p.request[2] = round)
    <3>1. p.kind = "reply" => \E q \in Hosts \X {1, 2} : p = Reply(q)
      BY PacketsDiffer DEF Packets
    <3>2. \A q \in Hosts \X {1, 2} : p = Reply(q) =>
            q[2] <= round /\ (~kind.late => q[2] = round)
      BY <2>1 DEF Rounds, Waits
    <3>3. QED
      BY <3>1, <3>2, PacketsDiffer
  <2>6. ASSUME NEW a \in Table!Tracked, resp'[a] = PING_OK
        PROVE  \E r \in 1 .. round : <<a, r>> \in seen' /\ (r = round \/ kind.late)
    <3>1. CASE a = p.from
      <4>1. p.kind = "reply"
        BY <2>2, <2>6, <3>1 DEF IsReply
      <4>2. p.request = <<a, p.request[2]>> /\ p.request[2] \in 1 .. round
        BY <1>1, <2>5, <3>1, <4>1
      <4>3. QED
        BY <2>2, <2>5, <4>1, <4>2
    <3>2. CASE a # p.from
      <4>1. PICK r \in 1 .. round : <<a, r>> \in seen /\ (r = round \/ kind.late)
        BY <2>2, <2>6, <3>2 DEF Results
      <4>2. QED
        BY <2>2, <4>1
    <3>3. QED
      BY <3>1, <3>2
  <2>7. ASSUME NEW a \in Table!Tracked, Quiet, <<a, round>> \in seen'
        PROVE  resp'[a] = PING_OK
    <3>1. CASE a = p.from
      BY <2>2, <2>4, <2>7, <3>1
    <3>2. CASE a # p.from
      <4>1. <<a, round>> \in seen
        BY <2>2, <2>5, <2>7, <3>2
      <4>2. QED
        BY <2>2, <2>7, <3>2, <4>1 DEF Results
    <3>3. QED
      BY <3>1, <3>2
  <2>8. ASSUME NEW a \in Table!Tracked, Quiet PROVE resp'[a] # PING_ERROR_OCCUR
    <3>1. CASE a = p.from
      BY <2>2, <2>4, <2>8, <3>1
    <3>2. resp[a] # PING_ERROR_OCCUR
      BY <2>2, <2>8 DEF Results
    <3>3. QED
      BY <2>2, <3>1, <3>2
  <2>9. Quiet => \A x \in Buffered' : IsReply(x)
    BY <2>2 DEF Results
  <2>10. QED
    BY <1>7, <2>2, <2>3, <2>6, <2>7, <2>8, <2>9 DEF Results
<1>8. CASE Network /\ UNCHANGED kind
  <2>1. /\ UNCHANGED <<resp, pc, round, seen>> /\ (net'.strays = 0 => net.strays = 0)
        /\ \A p \in Buffered' :
             \/ p \in Buffered
             \/ \E q \in net.out : p = Reply(q)
             \/ net'.strays # 0 /\ \E a \in Hosts : p = Other(a)
    BY <1>1, <1>8, NetworkStep
  <2>2. Quiet' => Quiet
    BY <2>1 DEF Quiet
  <2>3. ASSUME Quiet', NEW p \in Buffered' PROVE IsReply(p)
    <3>1. Pid < 2^16 /\ net'.strays = 0
      BY <2>3 DEF Quiet
    <3>2. \A q \in net.out : IsReply(Reply(q))
      BY <1>1, <3>1, OwnReply
    <3>3. QED
      BY <2>1, <2>2, <2>3, <3>1, <3>2 DEF Results
  <2>4. QED
    BY <1>8, <2>1, <2>2, <2>3 DEF Results, Table!Tracked
<1>9. CASE UNCHANGED vars
  BY <1>2, <1>9 DEF vars
<1>10. QED
  BY <1>3, <1>4, <1>5, <1>6, <1>7, <1>8, <1>9 DEF Next, test, Ending

(* What was shown stays true of the results until they are cleared.        *)
LEMMA ToldStep ==
  ASSUME TypeOK, SweepTypes, Told, [Next]_vars
  PROVE  Told'
<1>1. ASSUME pc' \notin {"clear", "get", "done"} PROVE Told'
  BY <1>1 DEF Told
<1>2. ASSUME UNCHANGED <<pc, resp, ret, shown>> PROVE Told'
  BY <1>2 DEF Told, Counts, Count, Table!Tracked
<1>3. CASE ping_show_res
  BY <1>3, TypeOK DEF ping_show_res, Told, Counts, Count, Table!Tracked, TypeOK
<1>4. CASE GetResp
  BY <1>4, TableCalls DEF GetResp, Told, Table!Tracked
<1>5. CASE Network
  BY <1>2, <1>5, NetworkStep DEF TypeOK
<1>6. CASE UNCHANGED vars
  BY <1>2, <1>6 DEF vars
<1>7. CASE Clear \/ (\E a \in Hosts : Add(a) \/ Del(a)) \/ AddsDone \/ Send \/ Receive \/ PollTimesOut \/ DelsDone
  BY <1>1, <1>7 DEF Clear, Add, Del, AddsDone, Send, Receive, PollTimesOut, DelsDone
<1>8. QED
  BY <1>3, <1>4, <1>5, <1>6, <1>7 DEF Next, test, Ending

(* SweepInv holds at the start, and always.                                *)
LEMMA SweepStart == Init => SweepInv
<1> SUFFICES ASSUME Init PROVE SweepInv
  OBVIOUS
<1>1. /\ resp = [a \in {} |-> 0] /\ ret = 0 /\ Table!Tracked = {}
      /\ pc = "add" /\ round = 1 /\ todo = Hosts \ {Own} /\ shown = NothingShown
      /\ queue = <<>> /\ seen = {} /\ kind \in NetKinds
      /\ net = [out |-> {}, dups |-> 0, strays |-> 0]
  BY DEF Init, Table!Init, Table!Tracked, Skipped
<1>2. Cardinality(Hosts) \in Nat /\ Buffered = {}
  BY <1>1, SweepAssumption, FS_CardinalityType DEF SweepAssumption, Buffered
<1>3. shown \in [{"total", "ok", "error", "send_fail", "not_recv"} -> 0 .. Cardinality(Hosts)]
  BY <1>1, <1>2 DEF NothingShown
<1>4. TypeOK /\ SweepTypes
  BY <1>1, <1>2, <1>3 DEF TypeOK, SweepTypes
<1>5. SweepPlace /\ Told
  BY <1>1 DEF SweepPlace, Told
<1>6. Rounds /\ Results
  BY <1>1, <1>2 DEF Rounds, Results, Waits
<1>7. QED
  BY <1>4, <1>5, <1>6 DEF SweepInv

(* Every step keeps it.                                                    *)
LEMMA SweepAlways == Spec => []SweepInv
<1>1. SweepInv /\ [Next]_vars => SweepInv'
  BY TypesStep, PlaceStep, RoundsStep, ResultsStep, ToldStep DEF SweepInv
<1>2. QED
  BY <1>1, SweepStart, PTL DEF Spec

-----------------------------------------------------------------------------
(* What it gives                                                           *)

(* Only neighbours are tracked, probed and counted, never this machine     *)
(* itself (main and test of ping2.c).                                      *)
THEOREM TypeCorrect == Spec => []TypeOK
<1>1. SweepInv => TypeOK
  BY DEF SweepInv
<1>2. QED
  BY <1>1, SweepAlways, PTL

(* No address is shown as answering whose reply was not read: neither a    *)
(* packet of another process nor the result of the round before makes one, *)
(* whatever the process id.                                                *)
THEOREM ShownOkAnswered == Spec => []OkMeansAnswered
<1>1. SweepInv => OkMeansAnswered
  BY DEF SweepInv, Results, OkMeansAnswered
<1>2. QED
  BY <1>1, SweepAlways, PTL

(* With a process id that the header has room for, an address whose reply  *)
(* was read is shown as answering, unless a packet of others came in.      *)
THEOREM AnswerShown ==
  ASSUME Pid < 2^16
  PROVE  Spec => []AnsweredMeansOk
<1>1. SweepInv => AnsweredMeansOk
  BY DEF SweepInv, Results, Quiet, AnsweredMeansOk
<1>2. QED
  BY <1>1, SweepAlways, PTL

(* Counting two sets that have nothing in common.                          *)
LEMMA DisjointUnion ==
  ASSUME NEW A, NEW B, IsFiniteSet(A), IsFiniteSet(B), A \cap B = {}
  PROVE  IsFiniteSet(A \cup B) /\ Cardinality(A \cup B) = Cardinality(A) + Cardinality(B)
<1>1. /\ IsFiniteSet(A \cup B)
      /\ Cardinality(A \cup B) = Cardinality(A) + Cardinality(B) - Cardinality(A \cap B)
  BY FS_Union
<1>2. Cardinality(A \cap B) = 0 /\ Cardinality(A) \in Nat /\ Cardinality(B) \in Nat
  BY FS_EmptySet, FS_CardinalityType
<1>3. QED
  BY <1>1, <1>2

(* The addresses that are in none of the four counts are those that have   *)
(* no result.                                                              *)
LEMMA UncountedIs ==
  ASSUME SweepInv, shown = Counts
  PROVE  Uncounted = Cardinality({a \in Table!Tracked : resp[a] = 0})
<1> DEFINE S(r) == {a \in Table!Tracked : resp[a] = r}
<1>1. \A a \in Table!Tracked : resp[a] \in {0, 1, 2, 3}
  BY DEF SweepInv, TypeOK, Table!Res, Table!PING_OK, Table!PING_SEND_FAIL, Table!PING_ERROR_OCCUR
<1>2. IsFiniteSet(Table!Tracked)
  BY SweepAssumption, FS_Subset DEF SweepAssumption, SweepInv, TypeOK
<1>3. \A r : IsFiniteSet(S(r)) /\ Cardinality(S(r)) \in Nat
  BY <1>2, FS_Subset, FS_CardinalityType
<1>4. S(4) = {}
  BY <1>1
<1>5. Cardinality(S(4)) = 0
  BY <1>4, FS_EmptySet
<1>6. Cardinality(S(0) \cup S(1)) = Cardinality(S(0)) + Cardinality(S(1)) /\ IsFiniteSet(S(0) \cup S(1))
  <2>1. S(0) \cap S(1) = {}
    OBVIOUS
  <2>2. QED
    BY <1>3, <2>1, DisjointUnion
<1>7. Cardinality(S(2) \cup S(3)) = Cardinality(S(2)) + Cardinality(S(3)) /\ IsFiniteSet(S(2) \cup S(3))
  <2>1. S(2) \cap S(3) = {}
    OBVIOUS
  <2>2. QED
    BY <1>3, <2>1, DisjointUnion
<1>8. Cardinality(Table!Tracked) = Cardinality(S(0) \cup S(1)) + Cardinality(S(2) \cup S(3))
  <2>1. (S(0) \cup S(1)) \cap (S(2) \cup S(3)) = {}
    OBVIOUS
  <2>2. Table!Tracked = (S(0) \cup S(1)) \cup (S(2) \cup S(3))
    BY <1>1
  <2>3. QED
    BY <1>6, <1>7, <2>1, <2>2, DisjointUnion
<1>9. /\ shown.total = Cardinality(Table!Tracked) /\ shown.ok = Cardinality(S(1))
      /\ shown.error = Cardinality(S(3)) /\ shown.send_fail = Cardinality(S(2))
      /\ shown.not_recv = Cardinality(S(4))
  BY DEF Counts, Count, PING_OK, PING_SEND_FAIL, PING_ERROR_OCCUR, PING_NOT_RECEIVE
<1>10. QED
  <2> HIDE DEF S
  <2>1. Uncounted = Cardinality(S(0))
    BY <1>3, <1>5, <1>6, <1>7, <1>8, <1>9 DEF Uncounted
  <2>2. QED
    BY <2>1 DEF S

(* What the user is told is what happened: the addresses missing from the  *)
(* four counts are those that were silent, and get_resp says 1 at the end  *)
(* exactly when the reply of the second round was read.                    *)
THEOREM ToldTheTruth ==
  ASSUME Pid < 2^16
  PROVE  Spec => []ReportTruthful
<1>1. ASSUME SweepInv, ~kind.late, net.strays = 0 PROVE
        /\ pc \in {"clear", "get"} => Uncounted = Cardinality(Silent)
        /\ pc = "done" => (ret = 1 <=> <<Asked, 2>> \in seen)
  <2> USE DEF PING_OK, PING_SEND_FAIL, PING_ERROR_OCCUR
  <2>1. Quiet /\ round \in {1, 2}
    BY <1>1 DEF Quiet, SweepInv, TypeOK
  <2>2. pc \in {"clear", "get", "done"} =>
          \A a \in Table!Tracked :
            /\ resp[a] \in {0, PING_OK, PING_SEND_FAIL}
            /\ resp[a] = PING_OK <=> <<a, round>> \in seen
    <3>1. \A a \in Table!Tracked : resp[a] \in {0, 1, 2, 3}
      BY <1>1 DEF SweepInv, TypeOK, Table!Res, Table!PING_OK, Table!PING_SEND_FAIL, Table!PING_ERROR_OCCUR
    <3>2. QED
      BY <1>1, <2>1, <3>1 DEF SweepInv, Results
  <2>3. ASSUME pc \in {"clear", "get"} PROVE Uncounted = Cardinality(Silent)
    <3>1. Silent = {a \in Table!Tracked : resp[a] = 0}
      BY <2>2, <2>3 DEF Silent
    <3>2. QED
      BY <1>1, <2>3, <3>1, UncountedIs DEF SweepInv, Told
  <2>4. ASSUME pc = "done" PROVE ret = 1 <=> <<Asked, 2>> \in seen
    <3>1. round = 2 /\ (ret = 1 <=> Asked \in Table!Tracked /\ resp[Asked] = PING_OK)
      BY <1>1, <2>4 DEF SweepInv, SweepPlace, Told
    <3>2. <<Asked, 2>> \in seen => Asked \in Table!Tracked
      <4>1. <<Asked, 2>> \in seen => <<Asked, 2>> \in Hosts \X {1, 2}
        BY <1>1 DEF SweepInv, TypeOK
      <4>2. <<Asked, 2>>[2] = 2 /\ <<Asked, 2>>[1] = Asked
        OBVIOUS
      <4>3. QED
        BY <1>1, <4>1, <4>2 DEF SweepInv, Rounds
    <3>3. QED
      BY <2>2, <2>4, <3>1, <3>2
  <2>5. QED
    BY <2>3, <2>4
<1>2. SweepInv => ReportTruthful
  BY <1>1 DEF ReportTruthful
<1>3. QED
  BY <1>2, SweepAlways, PTL
=============================================================================
