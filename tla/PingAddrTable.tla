--------------------------- MODULE PingAddrTable ---------------------------
(***************************************************************************)
(* The table of probed addresses of ping2.c (struct v4_ping: num, offset,  *)
(* ping_addr): an array kept sorted by address, doubled when full, looked  *)
(* up by binary search.  ping3.c and ping_client.c hold the same code.     *)
(*                                                                         *)
(* The program is sequential; a call is the sequence of steps enter, one   *)
(* step per round of the search loop, exit.  An address is a natural       *)
(* number: s_addr is compared as an unsigned integer.                      *)
(***************************************************************************)
EXTENDS Integers

CONSTANTS
  Addr,     \* the addresses callers pass
  Bcast,    \* what inet_aton("255.255.255.255") stores, the largest s_addr
  InitNum,  \* capacity asked of ping_addr_init
  MaxNum    \* bound: calloc fails for more than MaxNum entries

ASSUME TableAssumption ==
  /\ Addr \subseteq Nat
  /\ Bcast \in Nat
  /\ \A a \in Addr : a <= Bcast
  /\ InitNum \in Nat \ {0}
  /\ MaxNum \in Nat

VARIABLES
  num,        \* capacity of the array
  offset,     \* entries in use
  ping_addr,  \* the array, 0..num-1
  pc,         \* "idle", "search" (in the loop) or "exit" (search returned)
  op,         \* which function was called
  target,     \* its address argument
  verdict,    \* for ping_recv: the result it would store
  left, right, \* the search window
  index,      \* what the search returned
  ret         \* return code of the last call

frame == <<pc, op, target, verdict, left, right, index>>
vars  == <<num, offset, ping_addr, pc, op, target, verdict, left, right, index, ret>>

PING_OK          == 1
PING_SEND_FAIL   == 2
PING_ERROR_OCCUR == 3
Res     == {0, PING_OK, PING_SEND_FAIL, PING_ERROR_OCCUR}
Verdict == {PING_OK, PING_ERROR_OCCUR}

ZeroEntry == [ia |-> 0, res |-> 0]
InUse     == 0 .. offset-1

-----------------------------------------------------------------------------
(* qsort with the comparison ping_addr_cmp: any rearrangement of the first *)
(* n entries that the comparison accepts as ascending.  Entries that       *)
(* compare equal may come out in either order.                             *)

ping_addr_cmp(e, f) == IF e.ia > f.ia THEN 1 ELSE 0

Perms(n) == {p \in [0..n-1 -> 0..n-1] :
               \A i, j \in 0..n-1 : p[i] = p[j] => i = j}

Permuted(a, n, p) == [i \in DOMAIN a |-> IF i \in 0..n-1 THEN a[p[i]] ELSE a[i]]

Ascending(a, n) == \A i, j \in 0..n-1 : i < j => ping_addr_cmp(a[i], a[j]) <= 0

SortSkipped(a, n) == {a}  \* fault: a caller forgets to sort

ping_addr_sort(a, n) ==
  {b \in {Permuted(a, n, p) : p \in Perms(n)} : Ascending(b, n)}

-----------------------------------------------------------------------------
(* ping_addr_binary_search                                                 *)

Enter(f, a, v) ==
  /\ pc' = "search" /\ op' = f /\ target' = a /\ verdict' = v
  /\ left' = 0 /\ right' = offset - 1 /\ index' = -1

Mid == left + (right - left) \div 2

WindowOpenStrict == left < right  \* fault: the loop stops one entry early
WindowOpen       == left <= right

AboveStuck(mid) == mid            \* fault: the window need not shrink
Above(mid)      == mid + 1

SearchHit ==
  /\ pc = "search" /\ WindowOpen
  /\ ping_addr[Mid].ia = target
  /\ index' = Mid /\ pc' = "exit"
  /\ UNCHANGED <<num, offset, ping_addr, op, target, verdict, left, right, ret>>

SearchLower ==
  /\ pc = "search" /\ WindowOpen
  /\ ping_addr[Mid].ia > target
  /\ right' = Mid - 1
  /\ UNCHANGED <<num, offset, ping_addr, pc, op, target, verdict, left, index, ret>>

SearchUpper ==
  /\ pc = "search" /\ WindowOpen
  /\ ping_addr[Mid].ia < target
  /\ left' = Above(Mid)
  /\ UNCHANGED <<num, offset, ping_addr, pc, op, target, verdict, right, index, ret>>

SearchMiss ==
  /\ pc = "search" /\ ~WindowOpen
  /\ index' = -1 /\ pc' = "exit"
  /\ UNCHANGED <<num, offset, ping_addr, op, target, verdict, left, right, ret>>

Search == SearchHit \/ SearchLower \/ SearchUpper \/ SearchMiss

(* A function returns r; its locals are gone.                              *)
Return(r) ==
  /\ ret' = r
  /\ pc' = "idle" /\ op' = "none" /\ target' = 0 /\ verdict' = 0
  /\ left' = 0 /\ right' = -1 /\ index' = -1

-----------------------------------------------------------------------------
(* ping_addr_add: grow if full, search, append and sort if absent.         *)

TableFullLate == offset > num   \* fault: off by one
TableFull     == offset >= num

Doubled == [i \in 0 .. 2*num - 1 |-> IF i < num THEN ping_addr[i] ELSE ZeroEntry]

AddEnter(a) ==
  /\ pc = "idle"
  /\ IF TableFull
     THEN /\ 2*num <= MaxNum
          /\ num' = 2*num /\ ping_addr' = Doubled
     ELSE UNCHANGED <<num, ping_addr>>
  /\ Enter("add", a, 0)
  /\ UNCHANGED <<offset, ret>>

(* ping_addr_double returned -1: calloc may fail at any size.              *)
AddNoMemory(a) ==
  /\ pc = "idle" /\ TableFull
  /\ ret' = -1
  /\ UNCHANGED <<num, offset, ping_addr, frame>>

AddExit ==
  /\ pc = "exit" /\ op = "add"
  /\ \/ index >= 0 /\ UNCHANGED <<ping_addr, offset>>
     \/ /\ index < 0
        /\ offset' = offset + 1
        /\ ping_addr' \in
             ping_addr_sort([ping_addr EXCEPT ![offset].ia = target], offset + 1)
  /\ Return(0)
  /\ UNCHANGED num

(* ping_addr_del: the entry becomes the largest address, the sort moves it *)
(* behind the others, and offset leaves it outside the table.  Its result  *)
(* field is not touched.                                                   *)
DelEnter(a) ==
  /\ pc = "idle"
  /\ Enter("del", a, 0)
  /\ UNCHANGED <<num, offset, ping_addr, ret>>

DelExit ==
  /\ pc = "exit" /\ op = "del"
  /\ \/ index < 0 /\ UNCHANGED <<ping_addr, offset>>
     \/ /\ index >= 0
        /\ ping_addr' \in
             ping_addr_sort([ping_addr EXCEPT ![index].ia = Bcast], offset)
        /\ offset' = offset - 1
  /\ Return(0)
  /\ UNCHANGED num

GetEnter(a) ==
  /\ pc = "idle"
  /\ Enter("get", a, 0)
  /\ UNCHANGED <<num, offset, ping_addr, ret>>

GetExit ==
  /\ pc = "exit" /\ op = "get"
  /\ Return(IF index < 0 THEN -1
            ELSE IF ping_addr[index].res = PING_OK THEN 1 ELSE 0)
  /\ UNCHANGED <<num, offset, ping_addr>>

(* ping_recv from the point where a packet from address a is in the        *)
(* buffer and v is what its ICMP header says about the probe.              *)
RecvEnter(a, v) ==
  /\ pc = "idle"
  /\ Enter("recv", a, v)
  /\ UNCHANGED <<num, offset, ping_addr, ret>>

RecvExit ==
  /\ pc = "exit" /\ op = "recv"
  /\ \/ /\ index < 0
        /\ Return(-1) /\ UNCHANGED ping_addr
     \/ /\ index >= 0
        /\ Return(0) /\ ping_addr' = [ping_addr EXCEPT ![index].res = verdict]
  /\ UNCHANGED <<num, offset>>

(* ping_send: one sendto per entry in use, any of which may fail.          *)
ping_send ==
  /\ pc = "idle"
  /\ \E failed \in SUBSET InUse :
       ping_addr' = [i \in DOMAIN ping_addr |->
                       IF i \in failed THEN [ping_addr[i] EXCEPT !.res = PING_SEND_FAIL]
                                       ELSE ping_addr[i]]
  /\ ret' = 0
  /\ UNCHANGED <<num, offset, frame>>

ClearedShort == 0 .. offset-2     \* fault: the last entry is not cleared
Cleared      == 0 .. offset-1

ping_clear_addr_resp ==
  /\ pc = "idle"
  /\ ping_addr' = [i \in DOMAIN ping_addr |->
                     IF i \in Cleared THEN [ping_addr[i] EXCEPT !.res = 0] ELSE ping_addr[i]]
  /\ UNCHANGED <<num, offset, ret, frame>>

-----------------------------------------------------------------------------
Init ==  \* ping_addr_init
  /\ num = InitNum /\ offset = 0
  /\ ping_addr = [i \in 0 .. InitNum-1 |-> ZeroEntry]
  /\ pc = "idle" /\ op = "none" /\ target = 0 /\ verdict = 0
  /\ left = 0 /\ right = -1 /\ index = -1
  /\ ret = 0

Exit == AddExit \/ DelExit \/ GetExit \/ RecvExit

Next ==
  \/ \E a \in Addr : AddEnter(a) \/ AddNoMemory(a) \/ DelEnter(a) \/ GetEnter(a)
  \/ \E a \in Addr, v \in Verdict : RecvEnter(a, v)
  \/ Search
  \/ Exit
  \/ ping_send
  \/ ping_clear_addr_resp

Spec == Init /\ [][Next]_vars

(* A call that was entered is run: nothing in it blocks.                   *)
FairSpec == Spec /\ WF_vars(Search) /\ WF_vars(Exit)

-----------------------------------------------------------------------------
Entry == [ia : Addr \cup {0, Bcast}, res : Res]

(* Types, and the bounds every array access relies on: the entries in use  *)
(* fit in the array, and a call that may append has room for one more.     *)
TypeOK ==
  /\ num \in Nat \ {0}
  /\ offset \in 0 .. num
  /\ ping_addr \in [0 .. num-1 -> Entry]
  /\ pc \in {"idle", "search", "exit"}
  /\ op \in {"none", "add", "del", "get", "recv"}
  /\ target \in Addr \cup {0}
  /\ verdict \in Verdict \cup {0}
  /\ left \in Nat /\ right \in Int /\ index \in Int
  /\ ret \in {-1, 0, 1}
  /\ pc # "idle" => op # "none" /\ target \in Addr
  /\ op = "recv" => verdict \in Verdict
  /\ op = "add" => offset < num

(* The entries in use are strictly ascending, so no address is tracked     *)
(* twice: the sort at the end of ping_addr_add and ping_addr_del restores  *)
(* what the next binary search assumes.                                    *)
Sorted == \A i, j \in InUse : i < j => ping_addr[i].ia < ping_addr[j].ia

(* When the binary search returns, its answer is exact: a non-negative     *)
(* index points at the address asked for, and -1 means it is not tracked.  *)
SearchCorrect ==
  pc = "exit" =>
    \/ index \in InUse /\ ping_addr[index].ia = target
    \/ index = -1 /\ \A i \in InUse : ping_addr[i].ia # target

-----------------------------------------------------------------------------
(* The table implements the set of PingAddrSet: every completed call has   *)
(* the effect and the return code the abstract operation allows.           *)
TrackedAddrs == {ping_addr[i].ia : i \in InUse}
RespOf(a)    == ping_addr[CHOOSE i \in InUse : ping_addr[i].ia = a].res

Held         == [a \in TrackedAddrs |-> RespOf(a)]

AbstractSet == INSTANCE PingAddrSet WITH resp <- Held

(* Every call of add, del, get_resp and recv has the effect and the return *)
(* code that PingAddrSet promises, whatever the calls before it were.      *)
ImplementsSet == AbstractSet!Spec

(* The search loop always ends and its caller returns.                     *)
CallReturns == (pc = "search") ~> (pc = "idle")
=============================================================================
