------------------------------ MODULE BondPing ------------------------------
(***************************************************************************)
(* The background check of bonding1.c: ping() starts one thread per peer   *)
(* slot, each runs ping(8) on the peer's address and counts an answer      *)
(* under ping_mut; when no peer answered, back_switch() makes another      *)
(* slave of the bond active, and the check is run once more.               *)
(*                                                                         *)
(* Outside the program: the hosts and paths (who answers), the kernel's    *)
(* bond (its slaves and its active slave), and pthread_create, which may   *)
(* fail.  faults names what may go wrong in a behaviour.                   *)
(***************************************************************************)
EXTENDS Naturals, FiniteSets, Sequences

CONSTANTS
  Total,      \* TOTAL_IP_NUM
  self,       \* self_slot_id; above the slots (30) when this board has none
  Bonds,      \* bonds the program may meet: slaves in the order sysfs lists them
  NoActive,   \* the empty content of active_slave
  PrefixOf,   \* pairs <<p, s>> of slaves: the name p is a proper prefix of s
  HostUp,     \* slots whose host is running
  Works,      \* slaves over which the hosts can be reached
  FaultSets   \* what may go wrong: a set of subsets of FaultKinds

FaultKinds == {"loss", "create", "sysfs", "failover"}

Names(b) == {b[k] : k \in 1 .. Len(b)}

ASSUME PingAssumption ==
  /\ Total \in Nat \ {0} /\ self \in Nat
  /\ \A b \in Bonds : b \in Seq(Names(b) \ {NoActive})
  /\ FaultSets \subseteq SUBSET FaultKinds

VARIABLES
  no_switch,     \* parameter of ping(): --no_switch was given
  slaves,        \* the kernel's list of the bond's slaves
  faults,        \* what may go wrong in this behaviour
  pc,            \* main thread: see MainPc
  round,         \* the loop counter of ping(), from 1
  i,             \* the loop counter of ping_all()
  create_ret,    \* result of the last pthread_create
  ptid,          \* tinfo[].ptid: "none" (0), "live", or "stale" (no thread behind it)
  thread,        \* where the thread of a slot is: see ThreadPc
  ret,           \* its ret: 0 when ping(8) got an answer
  reg,           \* what it loaded of success_ping
  success_ping,
  ping_mut,      \* the slot whose thread holds the mutex, or Total
  undefined,     \* a handle with no thread behind it was joined
  list,          \* back_switch: the slaves it read
  was_active,    \* back_switch: the active slave it read
  active         \* the kernel's active slave

probe == <<create_ret, ptid, thread, ret, reg, success_ping, ping_mut>>
bond  == <<list, was_active, active>>
given == <<no_switch, slaves, faults>>
vars  == <<no_switch, slaves, faults, pc, round, i, create_ret, ptid, thread, ret,
           reg, success_ping, ping_mut, undefined, list, was_active, active>>

Slots    == 0 .. Total-1
SlaveSet == Names(slaves)
MainPc   == {"reset", "create", "join", "decide", "slaves", "active", "write",
             "exit", "stuck"}
ThreadPc == {"none", "ping", "lock", "load", "store", "unlock", "done", "joined"}

Critical(s) == thread[s] \in {"load", "store", "unlock"}
Counted     == {s \in Slots : thread[s] \in {"unlock", "done", "joined"} /\ ret[s] = 0}

-----------------------------------------------------------------------------
(* ping_all, the main thread                                               *)

StartRound ==
  /\ pc = "reset"
  /\ success_ping' = 0 /\ i' = 0
  /\ thread' = [s \in Slots |-> "none"]
  /\ pc' = "create"
  /\ UNCHANGED <<round, create_ret, ptid, ret, reg, ping_mut, undefined, bond>>

JoinedAgain ==  \* fault: the join loop is run over again
  IF i + 1 < Total THEN i' = i + 1 /\ UNCHANGED pc
  ELSE i' = 0 /\ pc' = "join"

NextSlot ==
  IF i + 1 < Total THEN i' = i + 1 /\ UNCHANGED pc
  ELSE i' = 0 /\ pc' = IF pc = "create" THEN "join" ELSE "decide"

CreateSkip ==
  /\ pc = "create" /\ i = self
  /\ NextSlot
  /\ UNCHANGED <<round, undefined, probe, bond>>

Create ==
  /\ pc = "create" /\ i # self
  /\ thread' = [thread EXCEPT ![i] = "ping"]
  /\ ret'    = [ret EXCEPT ![i] = 1]
  /\ ptid'   = [ptid EXCEPT ![i] = "live"]
  /\ create_ret' = 0
  /\ NextSlot
  /\ UNCHANGED <<round, reg, success_ping, ping_mut, undefined, bond>>

(* pthread_create fails: the loop is left, and the handle may have been    *)
(* written all the same.                                                   *)
CreateFails ==
  /\ "create" \in faults
  /\ pc = "create" /\ i # self
  /\ create_ret' = 1
  /\ \/ UNCHANGED ptid
     \/ ptid' = [ptid EXCEPT ![i] = "stale"]
  /\ i' = 0 /\ pc' = "join"
  /\ UNCHANGED <<round, thread, ret, reg, success_ping, ping_mut, undefined, bond>>

JoinSkip ==
  /\ pc = "join" /\ (ptid[i] = "none" \/ i = self)
  /\ NextSlot
  /\ UNCHANGED <<round, undefined, probe, bond>>

EndedEarly(s) == thread[s] # "none"  \* fault: the join does not wait
Ended(s)      == thread[s] = "done"

Join ==
  /\ pc = "join" /\ ptid[i] = "live" /\ i # self
  /\ Ended(i)
  /\ ptid'   = [ptid EXCEPT ![i] = "stale"]
  /\ thread' = [thread EXCEPT ![i] = "joined"]
  /\ NextSlot
  /\ UNCHANGED <<round, create_ret, ret, reg, success_ping, ping_mut, undefined, bond>>

(* Joining a handle whose thread was joined in the round before, or that a *)
(* failed pthread_create left: the call may return or never return.        *)
JoinStale ==
  /\ pc = "join" /\ ptid[i] = "stale" /\ i # self
  /\ undefined' = TRUE
  /\ \/ NextSlot
     \/ pc' = "stuck" /\ UNCHANGED i
  /\ UNCHANGED <<round, probe, bond>>

-----------------------------------------------------------------------------
(* single_ping, the thread of slot s                                       *)

CanAnswer(s) == s \in HostUp /\ active \in Works

ThreadFrame == <<pc, round, i, create_ret, ptid, undefined, bond>>

PingAnswered(s) ==
  /\ thread[s] = "ping" /\ CanAnswer(s)
  /\ ret'    = [ret EXCEPT ![s] = 0]
  /\ thread' = [thread EXCEPT ![s] = "lock"]
  /\ UNCHANGED <<reg, success_ping, ping_mut, ThreadFrame>>

PingSilent(s) ==
  /\ thread[s] = "ping" /\ (~CanAnswer(s) \/ "loss" \in faults)
  /\ ret'    = [ret EXCEPT ![s] = 1]
  /\ thread' = [thread EXCEPT ![s] = "done"]
  /\ UNCHANGED <<reg, success_ping, ping_mut, ThreadFrame>>

MutexNotTested == TRUE             \* fault: the increment is not protected
MutexFree      == ping_mut = Total

Lock(s) ==
  /\ thread[s] = "lock" /\ MutexFree
  /\ ping_mut' = s
  /\ thread' = [thread EXCEPT ![s] = "load"]
  /\ UNCHANGED <<ret, reg, success_ping, ThreadFrame>>

Load(s) ==
  /\ thread[s] = "load"
  /\ reg'    = [reg EXCEPT ![s] = success_ping]
  /\ thread' = [thread EXCEPT ![s] = "store"]
  /\ UNCHANGED <<ret, success_ping, ping_mut, ThreadFrame>>

Store(s) ==
  /\ thread[s] = "store"
  /\ success_ping' = reg[s] + 1
  /\ thread' = [thread EXCEPT ![s] = "unlock"]
  /\ UNCHANGED <<ret, reg, ping_mut, ThreadFrame>>

MutexKept     == ping_mut  \* fault: the mutex is not released
MutexReleased == Total

Unlock(s) ==
  /\ thread[s] = "unlock"
  /\ ping_mut' = MutexReleased
  /\ thread' = [thread EXCEPT ![s] = "done"]
  /\ UNCHANGED <<ret, reg, success_ping, ThreadFrame>>

single_ping(s) ==
  PingAnswered(s) \/ PingSilent(s) \/ Lock(s) \/ Load(s) \/ Store(s) \/ Unlock(s)

-----------------------------------------------------------------------------
(* ping                                                                    *)

AnyAnswer == success_ping # 0

(* Answered, or the user asked for no switch: the loop is left.            *)
DecideStop ==
  /\ pc = "decide" /\ (AnyAnswer \/ no_switch)
  /\ pc' = "exit"
  /\ UNCHANGED <<round, i, undefined, probe, bond>>

DecideSwitch ==
  /\ pc = "decide" /\ ~AnyAnswer /\ ~no_switch
  /\ pc' = "slaves"
  /\ UNCHANGED <<round, i, undefined, probe, bond>>

ThirdRound == round <= 2  \* fault: off by one
MoreRounds == round < 2

(* back_switch returns, and the loop of ping() goes on for two rounds.     *)
SwitchReturns ==
  /\ round' = round + 1
  /\ pc' = IF MoreRounds THEN "reset" ELSE "exit"

-----------------------------------------------------------------------------
(* back_switch                                                             *)

ReadSlaves ==
  /\ pc = "slaves"
  /\ \/ list' = slaves
     \/ "sysfs" \in faults /\ list' = <<>>
  /\ pc' = "active"
  /\ UNCHANGED <<round, i, undefined, was_active, active, probe>>

ReadActive ==
  /\ pc = "active"
  /\ was_active' = active /\ pc' = "write"
  /\ UNCHANGED <<round, i, undefined, list, active, probe>>

OpenActiveFails ==
  /\ "sysfs" \in faults
  /\ pc = "active"
  /\ SwitchReturns
  /\ UNCHANGED <<i, undefined, bond, probe>>

(* strncmp(ptr, active_slave, strlen(active_slave)) == 0                   *)
OtherName(s, a) == ~(s = a \/ a = NoActive \/ <<a, s>> \in PrefixOf)  \* fault: inverted
SameName(s, a) == s = a \/ a = NoActive \/ <<a, s>> \in PrefixOf

Others     == {k \in 1 .. Len(list) : ~SameName(list[k], was_active)}
FirstOther == list[CHOOSE k \in Others : \A l \in Others : k <= l]

WriteActive ==
  /\ pc = "write" /\ Others # {}
  /\ \/ active' = FirstOther
     \/ "sysfs" \in faults /\ UNCHANGED active
  /\ SwitchReturns
  /\ UNCHANGED <<i, undefined, list, was_active, probe>>

NothingToSwitchTo ==
  /\ pc = "write" /\ Others = {}
  /\ SwitchReturns
  /\ UNCHANGED <<i, undefined, bond, probe>>

-----------------------------------------------------------------------------
(* The kernel moves to another slave, or to none, on its own.              *)
KernelFailover ==
  /\ "failover" \in faults
  /\ pc \notin {"exit", "stuck"}
  /\ \E a \in SlaveSet \cup {NoActive} : a # active /\ active' = a
  /\ UNCHANGED <<pc, round, i, undefined, list, was_active, probe>>

Init ==
  /\ no_switch \in BOOLEAN /\ slaves \in Bonds /\ faults \in FaultSets
  /\ pc = "reset" /\ round = 1 /\ i = 0
  /\ create_ret = 0 /\ undefined = FALSE
  /\ ptid   = [s \in Slots |-> "none"]
  /\ thread = [s \in Slots |-> "none"]
  /\ ret    = [s \in Slots |-> 0]
  /\ reg    = [s \in Slots |-> 0]
  /\ success_ping = 0 /\ ping_mut = Total
  /\ list = <<>> /\ was_active = NoActive
  /\ active \in SlaveSet

main ==
  \/ StartRound \/ CreateSkip \/ Create \/ CreateFails
  \/ JoinSkip \/ Join \/ JoinStale
  \/ DecideStop \/ DecideSwitch
  \/ ReadSlaves \/ ReadActive \/ OpenActiveFails
  \/ WriteActive \/ NothingToSwitchTo

(* The process is gone, or blocked in a join that never returns.           *)
Ending == pc \in {"exit", "stuck"} /\ UNCHANGED vars

Next ==
  /\ UNCHANGED given
  /\ \/ main
     \/ \E s \in Slots : single_ping(s)
     \/ KernelFailover
     \/ Ending

Spec == Init /\ [][Next]_vars

(* The scheduler runs every thread, and ping -w 8 gives up on its own.     *)
FairSpec ==
  Spec /\ WF_vars(main /\ UNCHANGED given)
       /\ \A s \in Slots : WF_vars(single_ping(s) /\ UNCHANGED given)

-----------------------------------------------------------------------------
ProbeTypes ==
  /\ pc \in MainPc
  /\ i \in Slots
  /\ create_ret \in {0, 1}
  /\ ptid \in [Slots -> {"none", "live", "stale"}]
  /\ thread \in [Slots -> ThreadPc]
  /\ ret \in [Slots -> {0, 1}]
  /\ reg \in [Slots -> Nat]
  /\ success_ping \in Nat
  /\ ping_mut \in Slots \cup {Total}

SwitchTypes ==
  /\ slaves \in Bonds /\ round \in 1 .. 3
  /\ list \in {<<>>, slaves}
  /\ {was_active, active} \subseteq SlaveSet \cup {NoActive}
  /\ undefined \in BOOLEAN

TypeOK == ProbeTypes /\ SwitchTypes

(* ping_mut works: between lock and unlock a thread is alone.              *)
MutualExclusion ==
  \A s, t \in Slots : Critical(s) /\ Critical(t) => s = t

(* No increment of success_ping is lost: at every moment it is the number  *)
(* of threads of this round that got past their increment.                 *)
CountExact == success_ping = Cardinality(Counted)

(* back_switch runs only when every thread that was started in this round  *)
(* has been waited for and none of them got an answer.                     *)
FailoverJustified ==
  pc \in {"slaves", "active", "write"} =>
    /\ ~no_switch
    /\ \A s \in Slots : thread[s] = "none" \/ (thread[s] = "joined" /\ ret[s] = 1)

(* A handle is joined without a thread behind it only after pthread_create *)
(* failed in that round: the rounds themselves never mix their handles up. *)
StaleJoinNeedsFailure ==
  [][pc = "join" /\ undefined' # undefined => create_ret # 0]_vars

(* After a round without an answer the next round goes out over another    *)
(* slave, when sysfs works and the kernel keeps still; the exception is a  *)
(* bond whose slaves' names all begin with the name of the active one      *)
(* (eth1 and eth10), or that has no active slave.                          *)
NextRoundOtherPath ==
  [][/\ pc = "write" /\ pc' # pc
     /\ faults \cap {"sysfs", "failover"} = {}
     /\ \E s \in SlaveSet : s # active /\ <<active, s>> \notin PrefixOf
     => active' # active]_vars

(* With two slaves, neither name beginning with the other, a host that     *)
(* answers and nothing else failing, ping() leaves the bond on a slave     *)
(* over which the hosts can be reached.                                    *)
OneIsEnough ==
  /\ ~no_switch /\ faults = {}
  /\ Len(slaves) = 2 /\ SlaveSet \cap Works # {}
  /\ PrefixOf \cap (SlaveSet \X SlaveSet) = {} /\ (HostUp \cap Slots) \ {self} # {}

EndsOnWorkingPath == pc = "exit" /\ OneIsEnough => active \in Works

(* The check ends: two rounds at most, every thread is waited for, and no  *)
(* thread waits for the mutex for ever.                                    *)
Finishes == <>(pc = "exit" \/ undefined)
=============================================================================
