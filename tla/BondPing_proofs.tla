--------------------------- MODULE BondPing_proofs ---------------------------
(***************************************************************************)
(* The background check of bonding1.c, for any number of slots and any     *)
(* faults: its mutex excludes, its counter loses no increment, the         *)
(* failover it decides is backed by the answers of the round, and leads to *)
(* the path that works.                                                    *)
(***************************************************************************)
EXTENDS BondPing, FiniteSetTheorems, NaturalsInduction, WellFoundedInduction, TLAPS

-----------------------------------------------------------------------------
(* Why, for the mutex, the counter and the decision: who holds the mutex,  *)
(* what a thread about to store has loaded, and which threads the main     *)
(* thread has started and waited for at each point of ping_all.            *)
Quiet(s) == thread[s] \in {"none", "joined"}

LockHeld   == \A s \in Slots : Critical(s) <=> ping_mut = s
LoadFresh  == \A s \in Slots : thread[s] = "store" => reg[s] = success_ping
Successful == \A s \in Slots : thread[s] \in {"lock", "load", "store", "unlock"} => ret[s] = 0
Handles    == \A s \in Slots : ~Quiet(s) <=> ptid[s] = "live"
SelfQuiet  == \A s \in Slots : s = self => thread[s] = "none"
Progress   ==
  /\ pc = "create" => \A s \in Slots : s >= i => thread[s] = "none"
  /\ pc = "join"   => \A s \in Slots : s < i => Quiet(s)
  /\ pc \notin {"create", "join", "stuck"} => \A s \in Slots : Quiet(s)

IInv ==
  /\ ProbeTypes /\ CountExact /\ FailoverJustified
  /\ LockHeld /\ LoadFresh /\ Successful /\ Handles /\ SelfQuiet /\ Progress

(* Why, for the handles and the switch: what back_switch has read is still *)
(* so while nothing interferes; every handle the join loop comes to is of  *)
(* this round, and every slot has its thread, unless pthread_create        *)
(* failed; an answer shows that the path works and a silence that it does  *)
(* not; and so the first switch leads to the path that works.              *)
Answered(s) == ret[s] = 0 /\ thread[s] \in {"lock", "load", "store", "unlock", "done", "joined"}
Silent(s)   == ret[s] = 1 /\ thread[s] \in {"done", "joined"}

ReadStillSo ==
  /\ pc # "exit" => round \in 1 .. 2
  /\ "sysfs" \notin faults /\ pc \in {"active", "write"} => list = slaves
  /\ "failover" \notin faults => active \in SlaveSet /\ (pc = "write" => was_active = active)

HandlesOfRound ==
  /\ pc = "create" => \A s \in Slots \ {self} : s < i => ptid[s] = "live"
  /\ pc = "join" /\ create_ret = 0 => \A s \in Slots \ {self} : s >= i => ptid[s] = "live"

AllAsked ==
  "create" \notin faults =>
    \A s \in Slots \ {self} :
      pc # "reset" /\ (pc = "create" => s < i) => thread[s] # "none"

AnswersTell ==
  faults \cap {"loss", "failover"} = {} /\ pc \notin {"reset", "exit"} =>
    \A s \in Slots : (Answered(s) => CanAnswer(s)) /\ (Silent(s) => ~CanAnswer(s))

SecondPathWorks == OneIsEnough /\ (round > 1 \/ pc = "exit") => active \in Works

SwitchInv == SwitchTypes /\ ReadStillSo /\ HandlesOfRound /\ AllAsked /\ AnswersTell /\ SecondPathWorks

-----------------------------------------------------------------------------
(* The threads that have counted form a finite set.                        *)
LEMMA CountedFinite ==
  ASSUME NEW S \in SUBSET Slots
  PROVE  IsFiniteSet(S) /\ Cardinality(S) \in Nat
<1>1. IsFiniteSet(Slots)
  <2>1. 0 \in Int /\ Total - 1 \in Int
    BY PingAssumption DEF PingAssumption
  <2>2. QED
    BY <2>1, FS_Interval DEF Slots
<1>2. IsFiniteSet(S)
  BY <1>1, FS_Subset
<1>3. QED
  BY <1>2, FS_CardinalityType

(* At the start no thread runs and nothing is counted.                     *)
LEMMA InitIInv == Init => IInv
<1> SUFFICES ASSUME Init PROVE IInv
  OBVIOUS
<1>1. 0 \in Slots /\ Total \notin Slots
  BY PingAssumption DEF PingAssumption, Slots
<1>2. ProbeTypes
  BY <1>1 DEF Init, ProbeTypes, MainPc, ThreadPc
<1>3. CountExact
  <2>1. Counted = {}
    BY DEF Init, Counted
  <2>2. QED
    BY <2>1, FS_EmptySet DEF Init, CountExact
<1>4. LockHeld /\ LoadFresh /\ Successful /\ Handles /\ SelfQuiet /\ Progress
  BY <1>1 DEF Init, LockHeld, LoadFresh, Successful, Handles, SelfQuiet, Progress,
              Quiet, Critical
<1>5. FailoverJustified
  BY DEF Init, FailoverJustified
<1>6. QED
  BY <1>2, <1>3, <1>4, <1>5 DEF IInv

-----------------------------------------------------------------------------
(* A step of a thread that stays on its side of the increment: the set of  *)
(* threads that have counted, and the count, are as before.                *)
LEMMA SameCount ==
  ASSUME CountExact, UNCHANGED success_ping, Counted' = Counted
  PROVE  CountExact'
BY DEF CountExact

(* A thread's step leaves the main thread where it is, so it only has to   *)
(* show that its own slot still fits.                                      *)
LEMMA ThreadKeepsMain ==
  ASSUME IInv, NEW s \in Slots, NEW x \in ThreadPc \ {"none", "joined"},
         ~Quiet(s), thread' = [thread EXCEPT ![s] = x],
         UNCHANGED <<pc, i, ptid>>,
         \A t \in Slots \ {s} : ret'[t] = ret[t]
  PROVE  Handles' /\ SelfQuiet' /\ Progress' /\ FailoverJustified'
<1>1. thread \in [Slots -> ThreadPc]
  BY DEF IInv, ProbeTypes
<1>2. \A t \in Slots : Quiet(t)' <=> Quiet(t)
  BY <1>1 DEF Quiet, ThreadPc
<1>3. \A t \in Slots : t # s => thread'[t] = thread[t]
  BY <1>1
<1>4. Handles'
  BY <1>2 DEF IInv, Handles
<1>5. SelfQuiet'
  BY <1>1, <1>3 DEF IInv, SelfQuiet, Quiet
<1>6. Progress'
  <2>1. pc = "create" => i > s
    BY <1>1 DEF IInv, Progress, Quiet, ProbeTypes, Slots
  <2>2. QED
    BY <1>2, <1>3, <2>1 DEF IInv, Progress, ProbeTypes, Slots
<1>7. FailoverJustified'
  BY DEF IInv, FailoverJustified, Progress
<1>8. QED
  BY <1>4, <1>5, <1>6, <1>7

(* A step of one thread, from its ping to its unlock.                      *)
LEMMA ThreadKeepsIInv ==
  ASSUME IInv, NEW s \in Slots, single_ping(s)
  PROVE  IInv'
<1> USE DEF IInv
<1>1. /\ thread \in [Slots -> ThreadPc] /\ ret \in [Slots -> {0, 1}]
      /\ reg \in [Slots -> Nat] /\ success_ping \in Nat
      /\ ping_mut \in Slots \cup {Total} /\ Total \notin Slots
  BY PingAssumption DEF PingAssumption, ProbeTypes, Slots
<1>2. UNCHANGED <<pc, i, ptid, create_ret>>
  BY DEF single_ping, PingAnswered, PingSilent, Lock, Load, Store, Unlock, ThreadFrame
<1>3. CASE PingAnswered(s)
  <2>1. /\ thread[s] = "ping" /\ thread' = [thread EXCEPT ![s] = "lock"]
        /\ ret' = [ret EXCEPT ![s] = 0] /\ UNCHANGED <<reg, success_ping, ping_mut>>
    BY <1>3 DEF PingAnswered
  <2>2. Handles' /\ SelfQuiet' /\ Progress' /\ FailoverJustified'
    BY <1>1, <1>2, <2>1, ThreadKeepsMain DEF Quiet, ThreadPc
  <2>3. ProbeTypes'
    BY <1>1, <1>2, <2>1 DEF ProbeTypes, ThreadPc
  <2>4. Counted' = Counted
    BY <1>1, <2>1 DEF Counted
  <2>5. LockHeld' /\ LoadFresh' /\ Successful'
    BY <1>1, <2>1 DEF LockHeld, LoadFresh, Successful, Critical
  <2>6. QED
    BY <2>1, <2>2, <2>3, <2>4, <2>5, SameCount
<1>4. CASE PingSilent(s)
  <2>1. /\ thread[s] = "ping" /\ thread' = [thread EXCEPT ![s] = "done"]
        /\ ret' = [ret EXCEPT ![s] = 1] /\ UNCHANGED <<reg, success_ping, ping_mut>>
    BY <1>4 DEF PingSilent
  <2>2. Handles' /\ SelfQuiet' /\ Progress' /\ FailoverJustified'
    BY <1>1, <1>2, <2>1, ThreadKeepsMain DEF Quiet, ThreadPc
  <2>3. ProbeTypes'
    BY <1>1, <1>2, <2>1 DEF ProbeTypes, ThreadPc
  <2>4. Counted' = Counted
    BY <1>1, <2>1 DEF Counted
  <2>5. LockHeld' /\ LoadFresh' /\ Successful'
    BY <1>1, <2>1 DEF LockHeld, LoadFresh, Successful, Critical
  <2>6. QED
    BY <2>1, <2>2, <2>3, <2>4, <2>5, SameCount
<1>5. CASE Lock(s)
  <2>1. /\ thread[s] = "lock" /\ thread' = [thread EXCEPT ![s] = "load"]
        /\ ping_mut = Total /\ ping_mut' = s /\ UNCHANGED <<ret, reg, success_ping>>
    BY <1>5 DEF Lock, MutexFree
  <2>2. Handles' /\ SelfQuiet' /\ Progress' /\ FailoverJustified'
    BY <1>1, <1>2, <2>1, ThreadKeepsMain DEF Quiet, ThreadPc
  <2>3. ProbeTypes'
    BY <1>1, <1>2, <2>1 DEF ProbeTypes, ThreadPc
  <2>4. Counted' = Counted
    BY <1>1, <2>1 DEF Counted
  <2>5. LockHeld' /\ LoadFresh' /\ Successful'
    BY <1>1, <2>1 DEF LockHeld, LoadFresh, Successful, Critical
  <2>6. QED
    BY <2>1, <2>2, <2>3, <2>4, <2>5, SameCount
<1>6. CASE Load(s)
  <2>1. /\ thread[s] = "load" /\ thread' = [thread EXCEPT ![s] = "store"]
        /\ reg' = [reg EXCEPT ![s] = success_ping]
        /\ UNCHANGED <<ret, success_ping, ping_mut>>
    BY <1>6 DEF Load
  <2>2. Handles' /\ SelfQuiet' /\ Progress' /\ FailoverJustified'
    BY <1>1, <1>2, <2>1, ThreadKeepsMain DEF Quiet, ThreadPc
  <2>3. ProbeTypes'
    BY <1>1, <1>2, <2>1 DEF ProbeTypes, ThreadPc
  <2>4. Counted' = Counted
    BY <1>1, <2>1 DEF Counted
  <2>5. LockHeld' /\ LoadFresh' /\ Successful'
    BY <1>1, <2>1 DEF LockHeld, LoadFresh, Successful, Critical
  <2>6. QED
    BY <2>1, <2>2, <2>3, <2>4, <2>5, SameCount
(* The only step that counts: the mutex makes what was loaded current.     *)
<1>7. CASE Store(s)
  <2>1. /\ thread[s] = "store" /\ thread' = [thread EXCEPT ![s] = "unlock"]
        /\ success_ping' = reg[s] + 1
        /\ UNCHANGED <<ret, reg, ping_mut>>
    BY <1>7 DEF Store
  <2>2. Handles' /\ SelfQuiet' /\ Progress' /\ FailoverJustified'
    BY <1>1, <1>2, <2>1, ThreadKeepsMain DEF Quiet, ThreadPc
  <2>3. ProbeTypes'
    BY <1>1, <1>2, <2>1 DEF ProbeTypes, ThreadPc
  <2>4. \A t \in Slots : thread[t] = "store" => t = s
    BY <1>1, <2>1 DEF LockHeld, Critical
  <2>5. LockHeld' /\ LoadFresh' /\ Successful'
    BY <1>1, <2>1, <2>4 DEF LockHeld, LoadFresh, Successful, Critical
  <2>6. Counted' = Counted \cup {s} /\ s \notin Counted
    BY <1>1, <2>1 DEF Counted, Successful
  <2>7. Cardinality(Counted') = Cardinality(Counted) + 1
    <3>1. Counted \in SUBSET Slots
      BY DEF Counted
    <3>2. QED
      BY <2>6, <3>1, CountedFinite, FS_AddElement
  <2>8. success_ping' = success_ping + 1
    BY <2>1 DEF LoadFresh
  <2>9. CountExact'
    BY <2>7, <2>8 DEF CountExact
  <2>10. QED
    BY <2>2, <2>3, <2>5, <2>9
<1>8. CASE Unlock(s)
  <2>1. /\ thread[s] = "unlock" /\ thread' = [thread EXCEPT ![s] = "done"]
        /\ ping_mut' = Total
        /\ UNCHANGED <<ret, reg, success_ping>>
    BY <1>8 DEF Unlock, MutexReleased
  <2>2. Handles' /\ SelfQuiet' /\ Progress' /\ FailoverJustified'
    BY <1>1, <1>2, <2>1, ThreadKeepsMain DEF Quiet, ThreadPc
  <2>3. ProbeTypes'
    BY <1>1, <1>2, <2>1 DEF ProbeTypes, ThreadPc
  <2>4. Counted' = Counted
    BY <1>1, <2>1 DEF Counted
  <2>5. LockHeld' /\ LoadFresh' /\ Successful'
    BY <1>1, <2>1 DEF LockHeld, LoadFresh, Successful, Critical
  <2>6. QED
    BY <2>1, <2>2, <2>3, <2>4, <2>5, SameCount
<1>9. QED
  BY <1>3, <1>4, <1>5, <1>6, <1>7, <1>8 DEF single_ping
-----------------------------------------------------------------------------
(* The main thread's steps that touch no thread: only its place changes.   *)
LEMMA MainKeepsIInv ==
  ASSUME IInv, UNCHANGED <<thread, ret, reg, success_ping, ping_mut>>,
         pc' \in MainPc, i' \in Slots, create_ret' \in {0, 1},
         ptid' \in [Slots -> {"none", "live", "stale"}],
         Handles', Progress', FailoverJustified'
  PROVE  IInv'
<1>1. ProbeTypes'
  BY DEF IInv, ProbeTypes
<1>2. CountExact' /\ LockHeld' /\ LoadFresh' /\ Successful' /\ SelfQuiet'
  BY DEF IInv, CountExact, Counted, LockHeld, Critical, LoadFresh, Successful, SelfQuiet
<1>3. QED
  BY <1>1, <1>2 DEF IInv

(* Moving to the next slot stays among the slots, and the loop that ends   *)
(* has gone over all of them.                                              *)
LEMMA NextSlotFacts ==
  ASSUME i \in Slots, pc \in {"create", "join"}, NextSlot
  PROVE  \/ i' = i + 1 /\ i' \in Slots /\ pc' = pc
         \/ /\ i = Total - 1 /\ i' = 0 /\ i' \in Slots
            /\ pc' = IF pc = "create" THEN "join" ELSE "decide"
<1>1. Total \in Nat \ {0} /\ i \in Nat /\ i < Total
  BY PingAssumption DEF PingAssumption, Slots
<1>2. CASE i + 1 < Total
  BY <1>1, <1>2 DEF NextSlot, Slots
<1>3. CASE ~(i + 1 < Total)
  BY <1>1, <1>3 DEF NextSlot, Slots
<1>4. QED
  BY <1>2, <1>3

(* A round starts with every thread of the one before waited for.          *)
LEMMA StartRoundKeepsIInv == IInv /\ StartRound => IInv'
<1> SUFFICES ASSUME IInv, StartRound PROVE IInv'
  OBVIOUS
<1> USE DEF IInv
<1>1. /\ pc = "reset" /\ pc' = "create" /\ i' = 0 /\ success_ping' = 0
      /\ thread' = [s \in Slots |-> "none"]
      /\ UNCHANGED <<create_ret, ptid, ret, reg, ping_mut>>
  BY DEF StartRound
<1>2. 0 \in Slots /\ \A s \in Slots : Quiet(s) /\ ptid[s] # "live"
  BY <1>1, PingAssumption DEF PingAssumption, Slots, Progress, Handles
<1>3. ProbeTypes'
  BY <1>1, <1>2 DEF ProbeTypes, MainPc, ThreadPc
<1>4. CountExact'
  <2>1. Counted' = {}
    BY <1>1 DEF Counted
  <2>2. QED
    BY <1>1, <2>1, FS_EmptySet DEF CountExact
<1>5. \A s \in Slots : ping_mut # s
  BY <1>2 DEF LockHeld, Critical, Quiet
<1>6. LockHeld' /\ LoadFresh' /\ Successful' /\ SelfQuiet'
  BY <1>1, <1>5 DEF LockHeld, LoadFresh, Successful, SelfQuiet, Critical
<1>7. Handles' /\ Progress'
  BY <1>1, <1>2 DEF Handles, Progress, Quiet
<1>8. FailoverJustified'
  BY <1>1 DEF FailoverJustified
<1>9. QED
  BY <1>3, <1>4, <1>6, <1>7, <1>8

(* pthread_create succeeds: the slot's thread was not running, and its     *)
(* handle now has a thread behind it.                                      *)
LEMMA CreateKeepsIInv == IInv /\ Create => IInv'
<1> SUFFICES ASSUME IInv, Create PROVE IInv'
  OBVIOUS
<1> USE DEF IInv
<1>1. /\ pc = "create" /\ i # self /\ NextSlot /\ create_ret' = 0
      /\ thread' = [thread EXCEPT ![i] = "ping"]
      /\ ret' = [ret EXCEPT ![i] = 1]
      /\ ptid' = [ptid EXCEPT ![i] = "live"]
      /\ UNCHANGED <<reg, success_ping, ping_mut>>
  BY DEF Create
<1>2. /\ i \in Slots /\ thread \in [Slots -> ThreadPc] /\ ret \in [Slots -> {0, 1}]
      /\ ptid \in [Slots -> {"none", "live", "stale"}]
  BY DEF ProbeTypes
<1>3. thread[i] = "none"
  BY <1>1, <1>2 DEF Progress, Slots
<1>4. i' \in Slots /\ pc' \in {"create", "join"}
  BY <1>1, <1>2, NextSlotFacts
<1>5. ProbeTypes'
  BY <1>1, <1>2, <1>4 DEF ProbeTypes, MainPc, ThreadPc
<1>6. CountExact'
  <2>1. Counted' = Counted
    BY <1>1, <1>2, <1>3 DEF Counted
  <2>2. QED
    BY <1>1, <2>1, SameCount
<1>7. LockHeld' /\ LoadFresh' /\ Successful' /\ SelfQuiet'
  BY <1>1, <1>2, <1>3 DEF LockHeld, LoadFresh, Successful, SelfQuiet, Critical
<1>8. Handles'
  BY <1>1, <1>2 DEF Handles, Quiet
<1>9. Progress'
  <2>1. CASE pc' = "create"
    <3>1. i' = i + 1
      BY <1>1, <1>2, <2>1, NextSlotFacts
    <3>2. \A s \in Slots : s >= i + 1 => thread'[s] = "none"
      BY <1>1, <1>2 DEF Progress, Slots
    <3>3. QED
      BY <2>1, <3>1, <3>2 DEF Progress
  <2>2. CASE pc' = "join"
    <3>1. i' = 0
      BY <1>1, <1>2, <2>2, NextSlotFacts
    <3>2. QED
      BY <2>2, <3>1 DEF Progress, Slots
  <2>3. QED
    BY <1>4, <2>1, <2>2
<1>10. FailoverJustified'
  BY <1>4 DEF FailoverJustified
<1>11. QED
  BY <1>5, <1>6, <1>7, <1>8, <1>9, <1>10

(* pthread_join returns: the thread has ended, whichever way it counted.   *)
LEMMA JoinKeepsIInv == IInv /\ Join => IInv'
<1> SUFFICES ASSUME IInv, Join PROVE IInv'
  OBVIOUS
<1> USE DEF IInv
<1>1. /\ pc = "join" /\ thread[i] = "done" /\ NextSlot
      /\ ptid' = [ptid EXCEPT ![i] = "stale"]
      /\ thread' = [thread EXCEPT ![i] = "joined"]
      /\ UNCHANGED <<create_ret, ret, reg, success_ping, ping_mut>>
  BY DEF Join, Ended
<1>2. /\ i \in Slots /\ thread \in [Slots -> ThreadPc]
      /\ ptid \in [Slots -> {"none", "live", "stale"}]
  BY DEF ProbeTypes
<1>3. i' \in Slots /\ pc' \in {"join", "decide"}
  BY <1>1, <1>2, NextSlotFacts
<1>4. ProbeTypes'
  BY <1>1, <1>2, <1>3 DEF ProbeTypes, MainPc, ThreadPc
<1>5. CountExact'
  <2>1. Counted' = Counted
    BY <1>1, <1>2 DEF Counted
  <2>2. QED
    BY <1>1, <2>1, SameCount
<1>6. LockHeld' /\ LoadFresh' /\ Successful' /\ SelfQuiet'
  BY <1>1, <1>2 DEF LockHeld, LoadFresh, Successful, SelfQuiet, Critical
<1>7. Handles'
  BY <1>1, <1>2 DEF Handles, Quiet
<1>8. \A s \in Slots : s <= i => Quiet(s)'
  BY <1>1, <1>2 DEF Progress, Quiet, Slots
<1>9. Progress'
  <2>1. CASE pc' = "join"
    <3>1. i' = i + 1
      BY <1>1, <1>2, <2>1, NextSlotFacts
    <3>2. QED
      BY <1>2, <1>8, <2>1, <3>1 DEF Progress, Slots
  <2>2. CASE pc' = "decide"
    <3>1. i = Total - 1
      BY <1>1, <1>2, <2>2, NextSlotFacts
    <3>2. \A s \in Slots : s <= i
      BY <3>1, PingAssumption DEF PingAssumption, Slots
    <3>3. QED
      BY <1>8, <2>2, <3>2 DEF Progress
  <2>3. QED
    BY <1>3, <2>1, <2>2
<1>10. FailoverJustified'
  BY <1>3 DEF FailoverJustified
<1>11. QED
  BY <1>4, <1>5, <1>6, <1>7, <1>9, <1>10

(* The loops pass over a slot: this board's own, or one without a thread   *)
(* to wait for.                                                            *)
LEMMA SkipKeepsIInv == IInv /\ (CreateSkip \/ JoinSkip \/ JoinStale) => IInv'
<1> SUFFICES ASSUME IInv, CreateSkip \/ JoinSkip \/ JoinStale PROVE IInv'
  OBVIOUS
<1> USE DEF IInv
<1>1. /\ i \in Slots /\ pc \in {"create", "join"}
      /\ UNCHANGED <<create_ret, ptid, thread, ret, reg, success_ping, ping_mut>>
  BY DEF CreateSkip, JoinSkip, JoinStale, probe, ProbeTypes
<1>2. NextSlot \/ (pc' = "stuck" /\ i' = i)
  BY DEF CreateSkip, JoinSkip, JoinStale
<1>3. i' \in Slots /\ pc' \in {"create", "join", "decide", "stuck"}
  BY <1>1, <1>2, NextSlotFacts
<1>4. Quiet(i) /\ (pc = "create" => i = self)
  BY <1>1 DEF CreateSkip, JoinSkip, JoinStale, Handles, SelfQuiet, Quiet
<1>5. Handles' /\ FailoverJustified'
  BY <1>1, <1>3 DEF Handles, Quiet, FailoverJustified
<1>6. Progress'
  <2>1. CASE pc' = "create"
    <3>1. i' = i + 1 /\ pc = "create"
      BY <1>1, <1>2, <2>1, NextSlotFacts
    <3>2. \A s \in Slots : s >= i + 1 => thread'[s] = "none"
      BY <1>1, <3>1 DEF Progress, Slots
    <3>3. QED
      BY <2>1, <3>1, <3>2 DEF Progress
  <2>2. CASE pc' = "join" /\ pc = "create"
    <3>1. i' = 0
      BY <1>1, <1>2, <2>2, NextSlotFacts
    <3>2. QED
      BY <2>2, <3>1 DEF Progress, Slots
  <2>3. CASE pc' = "join" /\ pc = "join"
    <3>1. i' = i + 1
      BY <1>1, <1>2, <2>3, NextSlotFacts
    <3>2. \A s \in Slots : s <= i => Quiet(s)'
      BY <1>1, <1>4, <2>3 DEF Progress, Quiet, Slots
    <3>3. QED
      BY <1>1, <2>3, <3>1, <3>2 DEF Progress, Slots
  <2>4. CASE pc' = "decide"
    <3>1. i = Total - 1 /\ pc = "join"
      BY <1>1, <1>2, <2>4, NextSlotFacts
    <3>2. \A s \in Slots : s <= i
      BY <3>1, PingAssumption DEF PingAssumption, Slots
    <3>3. \A s \in Slots : Quiet(s)'
      BY <1>1, <1>4, <3>1, <3>2 DEF Progress, Quiet, Slots
    <3>4. QED
      BY <2>4, <3>3 DEF Progress
  <2>5. CASE pc' = "stuck"
    BY <2>5 DEF Progress
  <2>6. QED
    BY <1>1, <1>2, <1>3, <2>1, <2>2, <2>3, <2>4, <2>5, NextSlotFacts
<1>7. ProbeTypes
  OBVIOUS
<1>8. /\ pc' \in MainPc /\ create_ret' \in {0, 1}
      /\ ptid' \in [Slots -> {"none", "live", "stale"}]
  BY <1>1, <1>3, <1>7 DEF ProbeTypes, MainPc
<1>9. QED
  BY <1>1, <1>3, <1>5, <1>6, <1>8, MainKeepsIInv

(* The slot whose thread could not be created stays without one.           *)
LEMMA CreateFailsKeepsIInv == IInv /\ CreateFails => IInv'
<1> SUFFICES ASSUME IInv, CreateFails PROVE IInv'
  OBVIOUS
<1>1. /\ pc = "create" /\ pc' = "join" /\ i' = 0 /\ create_ret' = 1
      /\ ptid' = ptid \/ ptid' = [ptid EXCEPT ![i] = "stale"]
      /\ UNCHANGED <<thread, ret, reg, success_ping, ping_mut>>
  BY DEF CreateFails
<1>2. /\ i \in Slots /\ 0 \in Slots
      /\ ptid \in [Slots -> {"none", "live", "stale"}]
  BY PingAssumption DEF PingAssumption, IInv, ProbeTypes, Slots
<1>3. thread[i] = "none"
  BY <1>1, <1>2 DEF IInv, Progress, Slots
<1>4. ptid' \in [Slots -> {"none", "live", "stale"}] /\ Handles'
  BY <1>1, <1>2, <1>3 DEF IInv, Handles, Quiet
<1>5. Progress' /\ FailoverJustified'
  BY <1>1 DEF Progress, FailoverJustified, Slots
<1>6. pc' \in MainPc
  BY <1>1 DEF MainPc
<1>7. QED
  BY <1>1, <1>2, <1>4, <1>5, <1>6, MainKeepsIInv

(* The decision: the count is exact and every thread has been waited for,  *)
(* so a zero means that no thread got an answer.                           *)
LEMMA DecideSwitchKeepsIInv == IInv /\ DecideSwitch /\ UNCHANGED no_switch => IInv'
<1> SUFFICES ASSUME IInv, DecideSwitch, UNCHANGED no_switch PROVE IInv'
  OBVIOUS
<1>1. /\ pc = "decide" /\ pc' = "slaves" /\ success_ping = 0 /\ ~no_switch
      /\ UNCHANGED <<i, create_ret, ptid, thread, ret, reg, success_ping, ping_mut>>
  BY DEF DecideSwitch, AnyAnswer, probe
<1>2. Counted = {}
  <2>1. Counted \in SUBSET Slots
    BY DEF Counted
  <2>2. Cardinality(Counted) = 0
    BY <1>1 DEF IInv, CountExact
  <2>3. QED
    BY <2>1, <2>2, CountedFinite, FS_EmptySet
<1>3. \A s \in Slots : thread[s] = "none" \/ (thread[s] = "joined" /\ ret[s] = 1)
  BY <1>1, <1>2 DEF IInv, Progress, Quiet, Counted, ProbeTypes
<1>4. FailoverJustified'
  BY <1>1, <1>3 DEF FailoverJustified
<1>5. Handles' /\ Progress'
  BY <1>1 DEF IInv, Handles, Progress, Quiet
<1>6. /\ pc' \in MainPc /\ i' \in Slots /\ create_ret' \in {0, 1}
      /\ ptid' \in [Slots -> {"none", "live", "stale"}]
  BY <1>1 DEF IInv, ProbeTypes, MainPc
<1>7. QED
  BY <1>1, <1>4, <1>5, <1>6, MainKeepsIInv

(* Outside ping_all nothing of the probe moves.                            *)
LEMMA AfterRoundKeepsIInv ==
  ASSUME IInv, UNCHANGED <<no_switch, i, probe>>,
         \/ UNCHANGED pc
         \/ /\ pc \in {"decide", "slaves", "active", "write"}
            /\ pc' \in {"active", "write", "reset", "exit"}
            /\ pc' \in {"active", "write"} => pc \in {"slaves", "active"}
  PROVE  IInv'
<1>1. UNCHANGED <<i, create_ret, ptid, thread, ret, reg, success_ping, ping_mut>>
  BY DEF probe
<1>2. Handles' /\ Progress' /\ FailoverJustified'
  BY <1>1 DEF IInv, Handles, Progress, FailoverJustified, Quiet
<1>3. /\ pc' \in MainPc /\ i' \in Slots /\ create_ret' \in {0, 1}
      /\ ptid' \in [Slots -> {"none", "live", "stale"}]
  BY <1>1 DEF IInv, ProbeTypes, MainPc
<1>4. QED
  BY <1>1, <1>2, <1>3, MainKeepsIInv

(* One case per action.                                                    *)
LEMMA NextKeepsIInv == IInv /\ [Next]_vars => IInv'
<1> SUFFICES ASSUME IInv, [Next]_vars PROVE IInv'
  OBVIOUS
<1>0. UNCHANGED no_switch
  BY DEF Next, given, vars
<1>1. ASSUME NEW s \in Slots, single_ping(s) PROVE IInv'
  BY <1>1, ThreadKeepsIInv
<1>2. CASE StartRound
  BY <1>2, StartRoundKeepsIInv
<1>3. CASE Create
  BY <1>3, CreateKeepsIInv
<1>4. CASE CreateFails
  BY <1>4, CreateFailsKeepsIInv
<1>5. CASE Join
  BY <1>5, JoinKeepsIInv
<1>6. CASE CreateSkip \/ JoinSkip \/ JoinStale
  BY <1>6, SkipKeepsIInv
<1>7. CASE DecideSwitch
  BY <1>0, <1>7, DecideSwitchKeepsIInv
<1>8. CASE DecideStop
  BY <1>0, <1>8, AfterRoundKeepsIInv DEF DecideStop
<1>9. CASE ReadSlaves
  BY <1>0, <1>9, AfterRoundKeepsIInv DEF ReadSlaves
<1>10. CASE ReadActive
  BY <1>0, <1>10, AfterRoundKeepsIInv DEF ReadActive
<1>11. CASE OpenActiveFails
  BY <1>0, <1>11, AfterRoundKeepsIInv DEF OpenActiveFails, SwitchReturns
<1>12. CASE WriteActive
  BY <1>0, <1>12, AfterRoundKeepsIInv DEF WriteActive, SwitchReturns
<1>13. CASE NothingToSwitchTo
  BY <1>0, <1>13, AfterRoundKeepsIInv DEF NothingToSwitchTo, SwitchReturns
<1>14. CASE KernelFailover
  BY <1>0, <1>14, AfterRoundKeepsIInv DEF KernelFailover
<1>15. CASE UNCHANGED vars
  BY <1>15, AfterRoundKeepsIInv DEF vars, probe
<1>16. QED
  BY <1>1, <1>2, <1>3, <1>4, <1>5, <1>6, <1>7, <1>8, <1>9, <1>10, <1>11, <1>12,
     <1>13, <1>14, <1>15 DEF Next, main, Ending

(* The mutex, the counter and the loops of ping_all keep IInv, always.     *)
THEOREM IInvAlways == Spec => []IInv
BY InitIInv, NextKeepsIInv, PTL DEF Spec

(* ping_mut keeps two threads from being between its lock and unlock.      *)
THEOREM MutexExcludes == Spec => []MutualExclusion
<1>1. IInv => MutualExclusion
  BY DEF IInv, LockHeld, MutualExclusion
<1>2. QED
  BY <1>1, IInvAlways, PTL

(* success_ping is the number of threads that counted, at every moment,    *)
(* for any number of slots and any failure of pthread_create.              *)
THEOREM NoLostUpdate == Spec => []CountExact
<1>1. IInv => CountExact
  BY DEF IInv
<1>2. QED
  BY <1>1, IInvAlways, PTL

(* No failover is tried while a thread runs or after any peer answered.    *)
THEOREM FailoverBacked == Spec => []FailoverJustified
<1>1. IInv => FailoverJustified
  BY DEF IInv
<1>2. QED
  BY <1>1, IInvAlways, PTL

-----------------------------------------------------------------------------
(* The switch                                                              *)

(* A set of natural numbers has a least element.                           *)
LEMMA LeastNatural ==
  ASSUME NEW S \in SUBSET Nat, S # {}
  PROVE  \E n \in S : \A m \in S : n <= m
<1> DEFINE R == OpToRel(<, Nat)
<1>1. IsWellFoundedOn(R, Nat)
  BY NatLessThanWellFounded
<1>2. \A x, y \in Nat : <<x, y>> \in R <=> x < y
  BY DEF OpToRel
<1> HIDE DEF R
<1>3. PICK x \in S : \A y \in S : <<y, x>> \notin R
  BY <1>1, WFMin
<1>4. \A y \in S : x \in Nat /\ y \in Nat /\ ~(y < x)
  BY <1>2, <1>3
<1>5. \A y \in S : x <= y
  BY <1>4
<1>6. QED
  BY <1>3, <1>5

(* The list of slaves has a length and holds no empty name.                *)
LEMMA SlavesListed ==
  ASSUME slaves \in Bonds
  PROVE  Len(slaves) \in Nat /\ NoActive \notin SlaveSet
<1>1. PICK S : S = Names(slaves) \ {NoActive}
  OBVIOUS
<1>2. slaves \in Seq(S) /\ NoActive \notin S
  BY <1>1, PingAssumption DEF PingAssumption
<1>3. Len(slaves) \in Nat /\ \A k \in 1 .. Len(slaves) : slaves[k] \in S
  BY <1>2
<1>4. QED
  BY <1>2, <1>3 DEF SlaveSet, Names

(* The slave that back_switch writes is the first one of the list whose    *)
(* name is another one.                                                    *)
LEMMA FirstOtherIsSlave ==
  ASSUME slaves \in Bonds, list \in {<<>>, slaves}, Others # {}
  PROVE  FirstOther \in SlaveSet /\ ~SameName(FirstOther, was_active)
<1>1. list = slaves /\ Len(slaves) \in Nat
  <2>1. Len(<<>>) = 0 /\ 1 .. 0 = {}
    OBVIOUS
  <2>2. list # <<>>
    BY <2>1 DEF Others
  <2>3. QED
    BY <2>2, SlavesListed
<1>2. Others \in SUBSET Nat
  BY <1>1 DEF Others
<1>3. PICK k \in Others : \A l \in Others : k <= l
  BY <1>2, LeastNatural
<1>4. PICK k0 : k0 = CHOOSE n \in Others : \A l \in Others : n <= l
  OBVIOUS
<1>5. k0 \in Others
  BY <1>3, <1>4
<1>6. FirstOther = slaves[k0] /\ k0 \in 1 .. Len(slaves) /\ ~SameName(slaves[k0], was_active)
  BY <1>1, <1>4, <1>5 DEF FirstOther, Others
<1>7. QED
  BY <1>6 DEF SlaveSet, Names

(* The steps of ping and ping_all leave alone what back_switch works on.   *)
Probing ==
  \/ StartRound \/ CreateSkip \/ Create \/ CreateFails
  \/ JoinSkip \/ Join \/ JoinStale \/ DecideStop \/ DecideSwitch

Switching ==
  ReadSlaves \/ ReadActive \/ OpenActiveFails \/ WriteActive \/ NothingToSwitchTo

(* A step is of a thread, of the main thread, or of the kernel.            *)
LEMMA StepKinds ==
  [Next]_vars => /\ UNCHANGED given
                 /\ \/ \E s \in Slots : single_ping(s)
                    \/ Probing \/ Switching \/ KernelFailover \/ UNCHANGED vars
BY DEF Next, main, Ending, Probing, Switching, vars, given

LEMMA ThreadFrameKept ==
  ASSUME NEW s \in Slots, single_ping(s)
  PROVE  UNCHANGED <<pc, round, i, create_ret, ptid, undefined, list, was_active, active>>
BY DEF single_ping, PingAnswered, PingSilent, Lock, Load, Store, Unlock, ThreadFrame, bond

LEMMA ProbingKeepsBond ==
  ASSUME Probing
  PROVE  /\ UNCHANGED <<round, list, was_active, active>>
         /\ pc \notin {"exit", "stuck", "active", "write"} /\ pc' \notin {"active", "write"}
         /\ undefined' \in {undefined, TRUE}
BY DEF Probing, StartRound, CreateSkip, Create, CreateFails, JoinSkip, Join, JoinStale,
       DecideStop, DecideSwitch, NextSlot, bond

(* The types of the switch's variables, and that what was read still holds.*)
LEMMA ReadKept ==
  ASSUME SwitchTypes, ReadStillSo, [Next]_vars
  PROVE  SwitchTypes' /\ ReadStillSo'
<1>1. UNCHANGED <<no_switch, slaves, faults>>
  BY StepKinds DEF given
<1>2. SlaveSet' = SlaveSet /\ Names(slaves)' = Names(slaves)
  BY <1>1 DEF SlaveSet, Names
<1>3. CASE \E s \in Slots : single_ping(s)
  BY <1>1, <1>2, <1>3, ThreadFrameKept DEF SwitchTypes, ReadStillSo
<1>4. CASE Probing
  BY <1>1, <1>2, <1>4, ProbingKeepsBond DEF SwitchTypes, ReadStillSo
<1>5. CASE ReadSlaves
  BY <1>1, <1>2, <1>5 DEF ReadSlaves, SwitchTypes, ReadStillSo
<1>6. CASE ReadActive
  BY <1>1, <1>2, <1>6 DEF ReadActive, SwitchTypes, ReadStillSo
<1>7. ASSUME SwitchReturns, pc \in {"active", "write"}
      PROVE  /\ round' \in 1 .. 3 /\ pc' \in {"reset", "exit"}
             /\ pc' # "exit" => round' \in 1 .. 2
  BY <1>7 DEF SwitchReturns, MoreRounds, ReadStillSo
<1>8. CASE OpenActiveFails
  BY <1>1, <1>2, <1>7, <1>8 DEF OpenActiveFails, bond, SwitchTypes, ReadStillSo
<1>9. CASE WriteActive
  <2>1. FirstOther \in SlaveSet
    BY <1>9, FirstOtherIsSlave DEF WriteActive, SwitchTypes
  <2>2. active' \in {active, FirstOther} /\ UNCHANGED <<list, was_active, undefined>>
    BY <1>9 DEF WriteActive
  <2>3. /\ round' \in 1 .. 3 /\ pc' \in {"reset", "exit"}
        /\ pc' # "exit" => round' \in 1 .. 2
    BY <1>7, <1>9 DEF WriteActive
  <2>4. QED
    BY <1>1, <1>2, <2>1, <2>2, <2>3 DEF SwitchTypes, ReadStillSo
<1>10. CASE NothingToSwitchTo
  BY <1>1, <1>2, <1>7, <1>10 DEF NothingToSwitchTo, bond, SwitchTypes, ReadStillSo
<1>11. CASE KernelFailover
  BY <1>1, <1>2, <1>11 DEF KernelFailover, SwitchTypes, ReadStillSo
<1>12. CASE UNCHANGED vars
  BY <1>1, <1>2, <1>12 DEF vars, SwitchTypes, ReadStillSo
<1>13. QED
  BY <1>3, <1>4, <1>5, <1>6, <1>8, <1>9, <1>10, <1>11, <1>12, StepKinds DEF Switching

(* The handles the join loop comes to.                                     *)
LEMMA HandlesKept ==
  ASSUME IInv, HandlesOfRound, [Next]_vars
  PROVE  HandlesOfRound'
<1>1. /\ i \in Slots /\ create_ret \in {0, 1} /\ Slots \subseteq Nat
      /\ ptid \in [Slots -> {"none", "live", "stale"}]
  BY PingAssumption DEF PingAssumption, IInv, ProbeTypes, Slots
<1>2. CASE \E s \in Slots : single_ping(s)
  BY <1>2, ThreadFrameKept DEF HandlesOfRound
<1>3. CASE StartRound
  BY <1>1, <1>3 DEF StartRound, HandlesOfRound
<1>4. ASSUME pc = "create", NextSlot, \A s \in Slots \ {self} : s <= i => ptid'[s] = "live"
      PROVE  HandlesOfRound'
  <2>1. CASE i' = i + 1 /\ pc' = pc
    BY <1>1, <1>4, <2>1 DEF HandlesOfRound
  <2>2. CASE i = Total - 1 /\ pc' = "join"
    <3>1. \A s \in Slots : s <= i
      BY <2>2, PingAssumption DEF PingAssumption, Slots
    <3>2. QED
      BY <1>4, <2>2, <3>1 DEF HandlesOfRound
  <2>3. QED
    BY <1>1, <1>4, <2>1, <2>2, NextSlotFacts
<1>5. CASE CreateSkip
  <2>1. pc = "create" /\ i = self /\ NextSlot /\ UNCHANGED ptid
    BY <1>5 DEF CreateSkip, probe
  <2>2. \A s \in Slots \ {self} : s <= i => ptid'[s] = "live"
    BY <1>1, <2>1 DEF HandlesOfRound
  <2>3. QED
    BY <1>4, <2>1, <2>2
<1>6. CASE Create
  <2>1. pc = "create" /\ NextSlot /\ ptid' = [ptid EXCEPT ![i] = "live"]
    BY <1>6 DEF Create
  <2>2. \A s \in Slots \ {self} : s <= i => ptid'[s] = "live"
    BY <1>1, <2>1 DEF HandlesOfRound
  <2>3. QED
    BY <1>4, <2>1, <2>2
<1>7. CASE CreateFails
  BY <1>7 DEF CreateFails, HandlesOfRound
<1>8. ASSUME pc = "join", NextSlot, UNCHANGED create_ret,
             \A s \in Slots : s > i => ptid'[s] = ptid[s]
      PROVE  HandlesOfRound'
  <2>1. CASE i' = i + 1 /\ pc' = pc
    BY <1>1, <1>8, <2>1 DEF HandlesOfRound
  <2>2. CASE pc' = "decide"
    BY <2>2 DEF HandlesOfRound
  <2>3. QED
    BY <1>1, <1>8, <2>1, <2>2, NextSlotFacts
<1>9. CASE JoinSkip \/ (JoinStale /\ NextSlot)
  <2>1. pc = "join" /\ NextSlot /\ UNCHANGED <<create_ret, ptid>>
    BY <1>9 DEF JoinSkip, JoinStale, probe
  <2>2. QED
    BY <1>8, <2>1
<1>10. CASE JoinStale /\ pc' = "stuck"
  BY <1>10 DEF HandlesOfRound
<1>11. CASE Join
  <2>1. pc = "join" /\ NextSlot /\ UNCHANGED create_ret /\ ptid' = [ptid EXCEPT ![i] = "stale"]
    BY <1>11 DEF Join
  <2>2. \A s \in Slots : s > i => ptid'[s] = ptid[s]
    BY <1>1, <2>1
  <2>3. QED
    BY <1>8, <2>1, <2>2
<1>12. CASE DecideStop \/ DecideSwitch \/ Switching
  <2>1. pc' \notin {"create", "join"}
    BY <1>12 DEF DecideStop, DecideSwitch, Switching, ReadSlaves, ReadActive, OpenActiveFails,
         WriteActive, NothingToSwitchTo, SwitchReturns
  <2>2. QED
    BY <2>1 DEF HandlesOfRound
<1>13. CASE KernelFailover \/ UNCHANGED vars
  BY <1>13 DEF KernelFailover, probe, vars, HandlesOfRound
<1>14. JoinStale => NextSlot \/ pc' = "stuck"
  BY DEF JoinStale
<1>15. QED
  BY <1>2, <1>3, <1>5, <1>6, <1>7, <1>9, <1>10, <1>11, <1>12, <1>13, <1>14, StepKinds DEF Probing

(* Every slot but the board's own gets its thread.                         *)
LEMMA AskedKept ==
  ASSUME IInv, AllAsked, [Next]_vars
  PROVE  AllAsked'
<1> SUFFICES ASSUME "create" \notin faults PROVE AllAsked'
  BY StepKinds DEF AllAsked, given
<1>1. /\ i \in Slots /\ Slots \subseteq Nat /\ thread \in [Slots -> ThreadPc]
      /\ "create" \notin faults'
  BY PingAssumption, StepKinds DEF PingAssumption, IInv, ProbeTypes, Slots, given
<1>2. ASSUME UNCHANGED <<pc, i>>, \A s \in Slots : thread[s] # "none" => thread'[s] # "none"
      PROVE  AllAsked'
  BY <1>2 DEF AllAsked
<1>3. CASE \E s \in Slots : single_ping(s)
  <2>1. \A s \in Slots : thread[s] # "none" => thread'[s] # "none"
    BY <1>1, <1>3 DEF single_ping, PingAnswered, PingSilent, Lock, Load, Store, Unlock
  <2>2. QED
    BY <1>2, <1>3, <2>1, ThreadFrameKept
<1>4. CASE StartRound
  BY <1>1, <1>4 DEF StartRound, AllAsked
<1>5. ASSUME pc = "create", NextSlot, \A s \in Slots \ {self} : s <= i => thread'[s] # "none"
      PROVE  AllAsked'
  <2>1. CASE i' = i + 1 /\ pc' = pc
    BY <1>1, <1>5, <2>1 DEF AllAsked
  <2>2. CASE i = Total - 1 /\ pc' = "join"
    <3>1. \A s \in Slots : s <= i
      BY <2>2, PingAssumption DEF PingAssumption, Slots
    <3>2. QED
      BY <1>5, <2>2, <3>1 DEF AllAsked
  <2>3. QED
    BY <1>1, <1>5, <2>1, <2>2, NextSlotFacts
<1>6. CASE CreateSkip
  <2>1. pc = "create" /\ i = self /\ NextSlot /\ UNCHANGED thread
    BY <1>6 DEF CreateSkip, probe
  <2>2. \A s \in Slots \ {self} : s <= i => thread'[s] # "none"
    BY <1>1, <2>1 DEF AllAsked
  <2>3. QED
    BY <1>5, <2>1, <2>2
<1>7. CASE Create
  <2>1. pc = "create" /\ NextSlot /\ thread' = [thread EXCEPT ![i] = "ping"]
    BY <1>7 DEF Create
  <2>2. \A s \in Slots \ {self} : s <= i => thread'[s] # "none"
    BY <1>1, <2>1 DEF AllAsked
  <2>3. QED
    BY <1>5, <2>1, <2>2
<1>8. ASSUME pc \notin {"reset", "create"}, pc' # "create",
             \A s \in Slots : thread[s] # "none" => thread'[s] # "none"
      PROVE  AllAsked'
  BY <1>8 DEF AllAsked
<1>9. CASE JoinSkip \/ JoinStale
  BY <1>8, <1>9 DEF JoinSkip, JoinStale, NextSlot, probe
<1>10. CASE Join
  <2>1. pc = "join" /\ pc' # "create" /\ thread' = [thread EXCEPT ![i] = "joined"]
    BY <1>10 DEF Join, NextSlot
  <2>2. QED
    BY <1>1, <1>8, <2>1
<1>11. CASE DecideStop \/ DecideSwitch \/ Switching
  BY <1>8, <1>11 DEF DecideStop, DecideSwitch, Switching, ReadSlaves, ReadActive, OpenActiveFails,
     WriteActive, NothingToSwitchTo, SwitchReturns, probe
<1>12. CASE KernelFailover \/ UNCHANGED vars
  BY <1>2, <1>12 DEF KernelFailover, probe, vars
<1>13. ~CreateFails
  BY DEF CreateFails
<1>14. QED
  BY <1>3, <1>4, <1>6, <1>7, <1>9, <1>10, <1>11, <1>12, <1>13, StepKinds DEF Probing

(* What an answer and a silence tell about the path.                       *)
LEMMA AnswersKept ==
  ASSUME IInv, AnswersTell, [Next]_vars
  PROVE  AnswersTell'
<1> SUFFICES ASSUME faults \cap {"loss", "failover"} = {}, pc' \notin {"reset", "exit"}
             PROVE  \A s \in Slots : (Answered(s)' => CanAnswer(s)') /\ (Silent(s)' => ~CanAnswer(s)')
  BY StepKinds DEF AnswersTell, given
<1>1. /\ i \in Slots /\ thread \in [Slots -> ThreadPc] /\ ret \in [Slots -> {0, 1}]
      /\ "loss" \notin faults /\ "failover" \notin faults
  BY DEF IInv, ProbeTypes
<1>2. ASSUME UNCHANGED <<active, thread, ret>>, pc \notin {"reset", "exit"}
      PROVE  \A s \in Slots : (Answered(s)' => CanAnswer(s)') /\ (Silent(s)' => ~CanAnswer(s)')
  BY <1>2 DEF AnswersTell, Answered, Silent, CanAnswer
<1>3. CASE \E s \in Slots : single_ping(s)
  <2>1. PICK s \in Slots : single_ping(s)
    BY <1>3
  <2>2. UNCHANGED active /\ pc \notin {"reset", "exit"}
    BY <2>1, ThreadFrameKept
  <2>3. \A t \in Slots \ {s} : thread'[t] = thread[t] /\ ret'[t] = ret[t]
    BY <1>1, <2>1 DEF single_ping, PingAnswered, PingSilent, Lock, Load, Store, Unlock
  <2>4. \/ PingAnswered(s) \/ PingSilent(s)
        \/ /\ ret'[s] = ret[s] /\ thread[s] \in {"lock", "load", "store", "unlock"}
           /\ thread'[s] \in {"load", "store", "unlock", "done"}
    BY <1>1, <2>1 DEF single_ping, Lock, Load, Store, Unlock
  <2>5. (Answered(s)' => CanAnswer(s)) /\ (Silent(s)' => ~CanAnswer(s))
    <3>1. CASE PingAnswered(s)
      BY <1>1, <3>1 DEF PingAnswered, Answered, Silent
    <3>2. CASE PingSilent(s)
      BY <1>1, <3>2 DEF PingSilent, Answered, Silent
    <3>3. CASE /\ ret'[s] = ret[s] /\ thread[s] \in {"lock", "load", "store", "unlock"}
               /\ thread'[s] \in {"load", "store", "unlock", "done"}
      <4>1. ret[s] = 0
        BY <3>3 DEF IInv, Successful
      <4>2. CanAnswer(s)
        BY <1>1, <2>2, <3>3, <4>1 DEF AnswersTell, Answered
      <4>3. QED
        BY <3>3, <4>1, <4>2 DEF Silent
    <3>4. QED
      BY <2>4, <3>1, <3>2, <3>3
  <2>6. \A t \in Slots \ {s} : (Answered(t)' => CanAnswer(t)) /\ (Silent(t)' => ~CanAnswer(t))
    BY <1>1, <2>2, <2>3 DEF AnswersTell, Answered, Silent
  <2>7. QED
    BY <2>2, <2>5, <2>6 DEF CanAnswer
<1>4. CASE StartRound
  BY <1>4 DEF StartRound, Answered, Silent
<1>5. CASE Create
  <2>1. /\ thread' = [thread EXCEPT ![i] = "ping"] /\ ret' = [ret EXCEPT ![i] = 1]
        /\ UNCHANGED active /\ pc = "create"
    BY <1>5 DEF Create, bond
  <2>2. QED
    BY <1>1, <2>1 DEF AnswersTell, Answered, Silent, CanAnswer
<1>6. CASE Join
  <2>1. /\ thread' = [thread EXCEPT ![i] = "joined"] /\ thread[i] = "done" /\ UNCHANGED ret
        /\ UNCHANGED active /\ pc = "join"
    BY <1>6 DEF Join, Ended, bond
  <2>2. QED
    BY <1>1, <2>1 DEF AnswersTell, Answered, Silent, CanAnswer
<1>7. CASE CreateSkip \/ CreateFails \/ JoinSkip \/ JoinStale \/ DecideStop \/ DecideSwitch
  <2>1. UNCHANGED <<active, thread, ret>> /\ pc \notin {"reset", "exit"}
    BY <1>7 DEF CreateSkip, CreateFails, JoinSkip, JoinStale, DecideStop, DecideSwitch, probe, bond
  <2>2. QED
    BY <1>2, <2>1
<1>8. CASE ReadSlaves \/ ReadActive
  BY <1>2, <1>8 DEF ReadSlaves, ReadActive, probe
<1>9. CASE UNCHANGED vars
  BY <1>2, <1>9 DEF vars
<1>10. ~(OpenActiveFails \/ WriteActive \/ NothingToSwitchTo \/ KernelFailover)
  BY <1>1 DEF OpenActiveFails, WriteActive, NothingToSwitchTo, SwitchReturns, KernelFailover
<1>11. QED
  BY <1>3, <1>4, <1>5, <1>6, <1>7, <1>8, <1>9, <1>10, StepKinds DEF Probing, Switching

(* After a round without an answer the path in use does not work.          *)
LEMMA SilenceTells ==
  ASSUME IInv, AllAsked, AnswersTell, OneIsEnough, pc \in {"slaves", "active", "write"}
  PROVE  active \notin Works
<1>1. PICK s \in Slots : s \in HostUp /\ s # self
  BY DEF OneIsEnough
<1>2. thread[s] = "joined" /\ ret[s] = 1
  BY <1>1 DEF IInv, FailoverJustified, AllAsked, OneIsEnough
<1>3. ~CanAnswer(s)
  BY <1>2 DEF AnswersTell, Silent, OneIsEnough
<1>4. QED
  BY <1>1, <1>3 DEF CanAnswer

(* Two slaves have one other each.                                         *)
LEMMA TheOther ==
  ASSUME slaves \in Bonds, Len(slaves) = 2, NEW a \in SlaveSet, NEW b \in SlaveSet, NEW c \in SlaveSet,
         a # b, a # c
  PROVE  b = c
<1>1. SlaveSet = {slaves[1], slaves[2]}
  <2>1. 1 .. Len(slaves) = {1, 2}
    OBVIOUS
  <2>2. QED
    BY <2>1 DEF SlaveSet, Names
<1>2. QED
  BY <1>1

(* The second path is the one that works.                                  *)
LEMMA SecondKept ==
  ASSUME IInv, SwitchInv, [Next]_vars
  PROVE  SecondPathWorks'
<1> SUFFICES ASSUME OneIsEnough, round' > 1 \/ pc' = "exit" PROVE active' \in Works
  BY StepKinds DEF SecondPathWorks, OneIsEnough, given, SlaveSet, Names
<1>1. /\ "sysfs" \notin faults /\ "failover" \notin faults /\ ~no_switch
      /\ slaves \in Bonds /\ Len(slaves) = 2 /\ active \in SlaveSet
  BY DEF OneIsEnough, SwitchInv, SwitchTypes, ReadStillSo
<1>2. CASE UNCHANGED <<round, active>> /\ ~(pc # "exit" /\ pc' = "exit")
  BY <1>2 DEF SwitchInv, SecondPathWorks
<1>3. CASE DecideStop
  <2>1. success_ping # 0 /\ pc = "decide" /\ UNCHANGED active
    BY <1>1, <1>3 DEF DecideStop, AnyAnswer, bond
  <2>2. Counted # {}
    BY <2>1, FS_EmptySet DEF IInv, CountExact
  <2>3. PICK s \in Slots : thread[s] \in {"unlock", "done", "joined"} /\ ret[s] = 0
    BY <2>2 DEF Counted
  <2>4. CanAnswer(s)
    BY <2>1, <2>3 DEF SwitchInv, AnswersTell, Answered, OneIsEnough
  <2>5. QED
    BY <2>1, <2>4 DEF CanAnswer
<1>4. CASE WriteActive \/ NothingToSwitchTo
  <2>1. pc = "write" /\ list = slaves /\ was_active = active
    BY <1>1, <1>4 DEF WriteActive, NothingToSwitchTo, SwitchInv, ReadStillSo
  <2>2. active \notin Works
    BY <2>1, SilenceTells DEF SwitchInv
  <2>3. PICK s \in SlaveSet : s \in Works
    BY DEF OneIsEnough
  <2>4. s # active /\ ~SameName(s, active)
    BY <1>1, <2>2, <2>3, SlavesListed DEF SameName, OneIsEnough
  <2>5. PICK k \in 1 .. Len(slaves) : slaves[k] = s
    BY DEF SlaveSet, Names
  <2>6. k \in Others
    BY <2>1, <2>4, <2>5 DEF Others
  <2>7. FirstOther \in SlaveSet /\ ~SameName(FirstOther, active)
    BY <1>1, <2>1, <2>6, FirstOtherIsSlave
  <2>8. FirstOther = s
    BY <1>1, <2>3, <2>4, <2>7, TheOther DEF SameName
  <2>9. active' = FirstOther
    BY <1>1, <1>4, <2>6 DEF WriteActive, NothingToSwitchTo
  <2>10. QED
    BY <2>3, <2>8, <2>9
<1>5. ~OpenActiveFails /\ ~KernelFailover
  BY <1>1 DEF OpenActiveFails, KernelFailover
<1>6. Probing => DecideStop \/ (UNCHANGED <<round, active>> /\ pc' # "exit")
  BY ProbingKeepsBond DEF Probing, StartRound, CreateSkip, Create, CreateFails, JoinSkip, Join, JoinStale,
     DecideSwitch, NextSlot
<1>7. ReadSlaves \/ ReadActive => UNCHANGED <<round, active>> /\ pc' # "exit"
  BY DEF ReadSlaves, ReadActive
<1>8. UNCHANGED vars => UNCHANGED <<round, active, pc>>
  BY DEF vars
<1>9. QED
  BY <1>2, <1>3, <1>4, <1>5, <1>6, <1>7, <1>8, StepKinds, ThreadFrameKept DEF Switching

(* At the start nothing was read, asked or answered.                       *)
LEMMA SwitchStarts == Init => SwitchInv
<1> SUFFICES ASSUME Init PROVE SwitchInv
  OBVIOUS
<1>1. SwitchTypes /\ ReadStillSo
  <2>1. /\ slaves \in Bonds /\ round = 1 /\ list = <<>> /\ was_active = NoActive
        /\ active \in SlaveSet /\ undefined = FALSE /\ pc = "reset"
    BY DEF Init
  <2>2. SwitchTypes
    <3>1. round \in 1 .. 3
      BY <2>1
    <3>2. undefined \in BOOLEAN
      BY <2>1
    <3>3. list \in {<<>>, slaves}
      BY <2>1
    <3>4. {was_active, active} \subseteq SlaveSet \cup {NoActive}
      BY <2>1
    <3>5. QED
      BY <2>1, <3>1, <3>2, <3>3, <3>4 DEF SwitchTypes
  <2>3. ReadStillSo
    BY <2>1 DEF ReadStillSo
  <2>4. QED
    BY <2>2, <2>3
<1>2. HandlesOfRound /\ AllAsked /\ AnswersTell /\ SecondPathWorks
  BY DEF Init, HandlesOfRound, AllAsked, AnswersTell, SecondPathWorks
<1>3. QED
  BY <1>1, <1>2 DEF SwitchInv

(* The second invariant rests on the first; both hold in every state.      *)
LEMMA BothAlways == Spec => [](IInv /\ SwitchInv)
<1>1. Init => IInv /\ SwitchInv
  BY InitIInv, SwitchStarts
<1>2. IInv /\ SwitchInv /\ [Next]_vars => (IInv /\ SwitchInv)'
  BY NextKeepsIInv, ReadKept, HandlesKept, AskedKept, AnswersKept, SecondKept DEF SwitchInv
<1>3. QED
  BY <1>1, <1>2, PTL DEF Spec

(* The check stays within its two rounds, its slots and the bond's slaves. *)
THEOREM TypeCorrect == Spec => []TypeOK
<1>1. IInv /\ SwitchInv => TypeOK
  BY DEF IInv, SwitchInv, TypeOK
<1>2. QED
  BY <1>1, BothAlways, PTL

(* With two slaves of which one works, the check leaves the bond on it.    *)
THEOREM EndsWell == Spec => []EndsOnWorkingPath
<1>1. IInv /\ SwitchInv => EndsOnWorkingPath
  BY DEF SwitchInv, SecondPathWorks, EndsOnWorkingPath
<1>2. QED
  BY <1>1, BothAlways, PTL

(* A handle without a thread is joined only after a failed pthread_create. *)
THEOREM JoinsItsOwn == Spec => StaleJoinNeedsFailure
<1>1. /\ IInv /\ SwitchInv /\ [Next]_vars
      => [pc = "join" /\ undefined' # undefined => create_ret # 0]_vars
  <2> SUFFICES ASSUME IInv, SwitchInv, [Next]_vars, pc = "join", undefined' # undefined, create_ret = 0
               PROVE  FALSE
    BY DEF SwitchInv, IInv
  <2>1. JoinStale
    BY StepKinds, ThreadFrameKept
    DEF Probing, Switching, StartRound, CreateSkip, Create, CreateFails, JoinSkip, Join, DecideStop,
        DecideSwitch, ReadSlaves, ReadActive, OpenActiveFails, WriteActive, NothingToSwitchTo,
        KernelFailover, vars
  <2>2. ptid[i] = "stale" /\ i # self /\ i \in Slots /\ i >= i
    BY <2>1, PingAssumption DEF JoinStale, IInv, ProbeTypes, Slots, PingAssumption
  <2>3. ptid[i] = "live"
    BY <2>2 DEF SwitchInv, HandlesOfRound
  <2>4. QED
    BY <2>2, <2>3
<1>2. QED
  BY <1>1, BothAlways, PTL DEF Spec, StaleJoinNeedsFailure

(* A round without an answer is followed by a round over another slave.    *)
THEOREM GoesOtherPath == Spec => NextRoundOtherPath
<1>1. /\ IInv /\ SwitchInv /\ [Next]_vars
      => [/\ pc = "write" /\ pc' # pc
          /\ faults \cap {"sysfs", "failover"} = {}
          /\ \E s \in SlaveSet : s # active /\ <<active, s>> \notin PrefixOf
          => active' # active]_vars
  <2> SUFFICES ASSUME SwitchInv, [Next]_vars, pc = "write", pc' # pc,
                      faults \cap {"sysfs", "failover"} = {},
                      \E s \in SlaveSet : s # active /\ <<active, s>> \notin PrefixOf
               PROVE  active' # active
    OBVIOUS
  <2>1. /\ list = slaves /\ was_active = active /\ active \in SlaveSet /\ slaves \in Bonds
        /\ "sysfs" \notin faults
    BY DEF SwitchInv, ReadStillSo, SwitchTypes
  <2>2. PICK s \in SlaveSet : ~SameName(s, active)
    BY <2>1, SlavesListed DEF SameName
  <2>3. PICK k \in 1 .. Len(slaves) : slaves[k] = s
    BY DEF SlaveSet, Names
  <2>4. Others # {}
    BY <2>1, <2>2, <2>3 DEF Others
  <2>5. FirstOther # active
    BY <2>1, <2>4, FirstOtherIsSlave DEF SameName
  <2>6. WriteActive
    BY <2>4, StepKinds, ThreadFrameKept, ProbingKeepsBond
    DEF Switching, ReadSlaves, ReadActive, OpenActiveFails, NothingToSwitchTo, KernelFailover, vars
  <2>7. QED
    BY <2>1, <2>5, <2>6 DEF WriteActive
<1>2. QED
  BY <1>1, BothAlways, PTL DEF Spec, NextRoundOtherPath

=============================================================================
