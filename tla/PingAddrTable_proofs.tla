------------------------ MODULE PingAddrTable_proofs ------------------------
(***************************************************************************)
(* The address table keeps its types and bounds, stays strictly sorted,    *)
(* and its binary search is exact, for every set of addresses and every    *)
(* capacity.  IInv is the inductive invariant: the sort makes the search   *)
(* right, and the search is what keeps the table free of duplicates, so    *)
(* neither can be proved without the other.                                *)
(***************************************************************************)
EXTENDS PingAddrTable, FiniteSetTheorems, TLAPS

-----------------------------------------------------------------------------
(* Why.  While the loop runs, the address asked for can only be inside the *)
(* window, and the window lies inside the entries in use.                  *)
SearchWindow ==
  pc = "search" =>
    /\ left <= offset /\ right < offset /\ right >= -1
    /\ \A i \in InUse : ping_addr[i].ia = target => left <= i /\ i <= right

IInv == TypeOK /\ Sorted /\ SearchCorrect /\ SearchWindow

-----------------------------------------------------------------------------

(* Every address in an entry is a natural number no larger than the        *)
(* deletion mark.                                                          *)
LEMMA EntryKey ==
  ASSUME NEW e \in Entry
  PROVE  e.ia \in Nat /\ e.ia <= Bcast
<1>1. e.ia \in Addr \/ e.ia = 0 \/ e.ia = Bcast
  BY DEF Entry
<1>2. CASE e.ia \in Addr
  BY <1>2, TableAssumption DEF TableAssumption
<1>3. CASE e.ia = 0
  BY <1>3, TableAssumption DEF TableAssumption
<1>4. CASE e.ia = Bcast
  BY <1>4, TableAssumption DEF TableAssumption
<1>5. QED
  BY <1>1, <1>2, <1>3, <1>4

(* What ping_addr_sort may return is a table again, its first n entries in *)
(* ascending order of address.                                             *)
LEMMA SortFacts ==
  ASSUME NEW m \in Nat, NEW n \in 0..m, NEW a \in [0..m-1 -> Entry],
         NEW b \in ping_addr_sort(a, n)
  PROVE  /\ b \in [0..m-1 -> Entry]
         /\ \A i, j \in 0..n-1 : i < j => b[i].ia <= b[j].ia
<1>1. PICK p \in Perms(n) : b = Permuted(a, n, p)
  BY DEF ping_addr_sort
<1>2. p \in [0..n-1 -> 0..n-1]
  BY DEF Perms
<1>3. 0..n-1 \subseteq 0..m-1
  OBVIOUS
<1>4. b \in [0..m-1 -> Entry]
  BY <1>1, <1>2, <1>3 DEF Permuted
<1>5. \A i, j \in 0..n-1 : i < j => b[i].ia <= b[j].ia
  <2>1. SUFFICES ASSUME NEW i \in 0..n-1, NEW j \in 0..n-1, i < j
                 PROVE  b[i].ia <= b[j].ia
    OBVIOUS
  <2>2. ping_addr_cmp(b[i], b[j]) <= 0
    BY <2>1 DEF ping_addr_sort, Ascending
  <2>3. b[i].ia \in Nat /\ b[j].ia \in Nat
    BY <1>3, <1>4, EntryKey
  <2>4. QED
    BY <2>2, <2>3 DEF ping_addr_cmp
<1>6. QED
  BY <1>4, <1>5

(* The middle of a non-empty window is inside it.                          *)
LEMMA MidInWindow ==
  ASSUME left \in Nat, right \in Int, left <= right
  PROVE  Mid \in Nat /\ left <= Mid /\ Mid <= right
BY DEF Mid

-----------------------------------------------------------------------------
(* The search loop keeps the invariant: it changes only the window, and    *)
(* sorting tells which half can be given up.                               *)
LEMMA SearchKeepsIInv == IInv /\ Search => IInv'
<1> SUFFICES ASSUME IInv, Search PROVE IInv'
  OBVIOUS
<1> USE DEF IInv
<1>1. /\ UNCHANGED <<num, offset, ping_addr, op, target, verdict, ret>>
      /\ pc = "search"
  BY DEF Search, SearchHit, SearchLower, SearchUpper, SearchMiss
<1>2. Sorted'
  BY <1>1 DEF Sorted, InUse
<1>3. \A i \in InUse : ping_addr[i].ia \in Nat
  BY EntryKey DEF TypeOK, InUse
<1>4. target \in Nat /\ offset \in Nat /\ left \in Nat /\ right \in Int
  BY <1>1, TableAssumption DEF TableAssumption, TypeOK
<1>5. CASE SearchHit
  <2>1. Mid \in Nat /\ left <= Mid /\ Mid <= right
    BY <1>5, <1>4, MidInWindow DEF SearchHit, WindowOpen
  <2>2. Mid \in InUse
    BY <2>1, <1>1, <1>4 DEF SearchWindow, InUse
  <2>3. TypeOK'
    BY <1>1, <1>5, <2>1 DEF TypeOK, SearchHit
  <2>4. SearchCorrect' /\ SearchWindow'
    BY <1>1, <1>5, <2>2 DEF SearchHit, SearchCorrect, SearchWindow, InUse
  <2>5. QED
    BY <1>2, <2>3, <2>4
<1>6. CASE SearchLower
  <2>1. Mid \in Nat /\ left <= Mid /\ Mid <= right
    BY <1>6, <1>4, MidInWindow DEF SearchLower, WindowOpen
  <2>2. Mid \in InUse
    BY <2>1, <1>1, <1>4 DEF SearchWindow, InUse
  <2>3. TypeOK'
    BY <1>1, <1>6, <2>1 DEF TypeOK, SearchLower
  <2>4. ASSUME NEW i \in InUse, ping_addr[i].ia = target
        PROVE  i <= Mid - 1
    <3>1. i \in Nat /\ ping_addr[Mid].ia > ping_addr[i].ia
      BY <2>4, <1>6, <1>4 DEF SearchLower, InUse
    <3>2. ~(Mid <= i)
      BY <3>1, <2>1, <2>2, <1>3 DEF Sorted
    <3>3. QED
      BY <3>1, <3>2, <2>1
  <2>5. SearchWindow'
    BY <1>1, <1>4, <1>6, <2>1, <2>2, <2>4 DEF SearchLower, SearchWindow, InUse
  <2>6. SearchCorrect'
    BY <1>1, <1>6 DEF SearchLower, SearchCorrect
  <2>7. QED
    BY <1>2, <2>3, <2>5, <2>6
<1>7. CASE SearchUpper
  <2>1. Mid \in Nat /\ left <= Mid /\ Mid <= right
    BY <1>7, <1>4, MidInWindow DEF SearchUpper, WindowOpen
  <2>2. Mid \in InUse
    BY <2>1, <1>1, <1>4 DEF SearchWindow, InUse
  <2>3. TypeOK'
    BY <1>1, <1>7, <2>1 DEF TypeOK, SearchUpper, Above
  <2>4. ASSUME NEW i \in InUse, ping_addr[i].ia = target
        PROVE  Mid + 1 <= i
    <3>1. i \in Nat /\ ping_addr[Mid].ia < ping_addr[i].ia
      BY <2>4, <1>7, <1>4 DEF SearchUpper, InUse
    <3>2. ~(i <= Mid)
      BY <3>1, <2>1, <2>2, <1>3 DEF Sorted
    <3>3. QED
      BY <3>1, <3>2, <2>1
  <2>5. SearchWindow'
    BY <1>1, <1>4, <1>7, <2>1, <2>2, <2>4 DEF SearchUpper, SearchWindow, InUse, Above
  <2>6. SearchCorrect'
    BY <1>1, <1>7 DEF SearchUpper, SearchCorrect
  <2>7. QED
    BY <1>2, <2>3, <2>5, <2>6
<1>8. CASE SearchMiss
  <2>1. TypeOK'
    BY <1>1, <1>8 DEF TypeOK, SearchMiss
  <2>2. \A i \in InUse : ping_addr[i].ia # target
    BY <1>1, <1>4, <1>8 DEF SearchMiss, SearchWindow, WindowOpen, InUse
  <2>3. SearchCorrect' /\ SearchWindow'
    BY <1>1, <1>8, <2>2 DEF SearchMiss, SearchCorrect, SearchWindow, InUse
  <2>4. QED
    BY <1>2, <2>1, <2>3
<1>9. QED
  BY <1>5, <1>6, <1>7, <1>8 DEF Search
-----------------------------------------------------------------------------
(* Steps that leave the addresses, the number of entries and the frame of  *)
(* the call alone keep the invariant: only results and ret may change.     *)
LEMMA ResultsKeepIInv ==
  ASSUME IInv, UNCHANGED <<num, offset, frame>>,
         ret' \in {-1, 0, 1},
         ping_addr' \in [0 .. num-1 -> Entry],
         \A i \in 0 .. num-1 : ping_addr'[i].ia = ping_addr[i].ia
  PROVE  IInv'
<1>1. InUse' = InUse /\ InUse \subseteq 0 .. num-1
  BY DEF InUse, IInv, TypeOK
<1>2. TypeOK'
  BY DEF IInv, TypeOK, frame
<1>3. Sorted' /\ SearchCorrect' /\ SearchWindow'
  BY <1>1 DEF IInv, Sorted, SearchCorrect, SearchWindow, frame
<1>4. QED
  BY <1>2, <1>3 DEF IInv

(* ping_send changes results only.                                         *)
LEMMA SendKeepsIInv == IInv /\ ping_send => IInv'
<1> SUFFICES ASSUME IInv, ping_send PROVE IInv'
  OBVIOUS
<1>1. PICK failed \in SUBSET InUse :
        ping_addr' = [i \in DOMAIN ping_addr |->
                        IF i \in failed THEN [ping_addr[i] EXCEPT !.res = PING_SEND_FAIL]
                                        ELSE ping_addr[i]]
  BY DEF ping_send
<1>2. ping_addr \in [0 .. num-1 -> Entry]
  BY DEF IInv, TypeOK
<1>3. \A i \in 0 .. num-1 :
        /\ [ping_addr[i] EXCEPT !.res = PING_SEND_FAIL] \in Entry
        /\ [ping_addr[i] EXCEPT !.res = PING_SEND_FAIL].ia = ping_addr[i].ia
  BY <1>2 DEF Entry, Res
<1>4. /\ ping_addr' \in [0 .. num-1 -> Entry]
      /\ \A i \in 0 .. num-1 : ping_addr'[i].ia = ping_addr[i].ia
  BY <1>1, <1>2, <1>3
<1>5. UNCHANGED <<num, offset, frame>> /\ ret' \in {-1, 0, 1}
  BY DEF ping_send
<1>6. QED
  BY <1>4, <1>5, ResultsKeepIInv

(* ping_clear_addr_resp changes results only.                              *)
LEMMA ClearKeepsIInv == IInv /\ ping_clear_addr_resp => IInv'
<1> SUFFICES ASSUME IInv, ping_clear_addr_resp PROVE IInv'
  OBVIOUS
<1>1. ping_addr \in [0 .. num-1 -> Entry]
  BY DEF IInv, TypeOK
<1>2. \A i \in 0 .. num-1 : /\ [ping_addr[i] EXCEPT !.res = 0] \in Entry
                            /\ [ping_addr[i] EXCEPT !.res = 0].ia = ping_addr[i].ia
  BY <1>1 DEF Entry, Res
<1>3. /\ ping_addr' \in [0 .. num-1 -> Entry]
      /\ \A i \in 0 .. num-1 : ping_addr'[i].ia = ping_addr[i].ia
  BY <1>1, <1>2 DEF ping_clear_addr_resp
<1>4. UNCHANGED <<num, offset, frame>> /\ ret' \in {-1, 0, 1}
  BY DEF ping_clear_addr_resp, IInv, TypeOK
<1>5. QED
  BY <1>3, <1>4, ResultsKeepIInv

-----------------------------------------------------------------------------
(* Entering a call opens the window over all entries in use.               *)
LEMMA EnterKeepsIInv ==
  ASSUME IInv, NEW f \in {"add", "del", "get", "recv"},
         NEW a \in Addr, NEW v \in Verdict \cup {0},
         f = "recv" => v \in Verdict,
         Enter(f, a, v), UNCHANGED <<offset, ret>>,
         num' \in Nat \ {0}, offset <= num',
         f = "add" => offset < num',
         ping_addr' \in [0 .. num'-1 -> Entry],
         \A i \in InUse : ping_addr'[i] = ping_addr[i]
  PROVE  IInv'
<1>1. InUse' = InUse /\ offset \in Nat
  BY DEF InUse, IInv, TypeOK
<1>2. TypeOK'
  <2>1. /\ pc' = "search" /\ op' = f /\ target' = a /\ verdict' = v
        /\ left' = 0 /\ right' = offset - 1 /\ index' = -1
    BY DEF Enter
  <2>2. /\ num' \in Nat \ {0} /\ offset' \in 0 .. num'
        /\ left' \in Nat /\ right' \in Int /\ index' \in Int
    BY <1>1, <2>1
  <2>3. /\ op' \in {"none", "add", "del", "get", "recv"} /\ op' # "none"
        /\ target' \in Addr /\ verdict' \in Verdict \cup {0}
        /\ op' = "recv" => verdict' \in Verdict
        /\ op' = "add" => offset' < num'
    BY <2>1
  <2>4. ret' \in {-1, 0, 1} /\ Entry' = Entry
    BY DEF IInv, TypeOK, Entry, Res
  <2>5. QED
    BY <2>1, <2>2, <2>3, <2>4 DEF TypeOK
<1>3. Sorted'
  BY <1>1 DEF IInv, Sorted
<1>4. SearchCorrect' /\ SearchWindow'
  <2>1. pc' = "search" /\ left' = 0 /\ right' = offset' - 1 /\ offset' \in Nat
    BY <1>1 DEF Enter
  <2>2. \A i \in InUse' : left' <= i /\ i <= right'
    BY <2>1 DEF InUse
  <2>3. left' <= offset' /\ right' < offset' /\ right' >= -1
    BY <2>1
  <2>4. QED
    BY <2>1, <2>2, <2>3 DEF SearchCorrect, SearchWindow
<1>5. QED
  BY <1>2, <1>3, <1>4 DEF IInv

(* Doubling the array leaves room for the entry that may be appended.      *)
LEMMA AddEnterKeepsIInv ==
  ASSUME IInv, NEW a \in Addr, AddEnter(a)
  PROVE  IInv'
<1>1. /\ num \in Nat \ {0} /\ offset \in 0 .. num
      /\ ping_addr \in [0 .. num-1 -> Entry]
  BY DEF IInv, TypeOK
<1>2. /\ Enter("add", a, 0) /\ UNCHANGED <<offset, ret>>
      /\ 0 \in Verdict \cup {0} /\ "add" \in {"add", "del", "get", "recv"}
  BY DEF AddEnter
<1>3. CASE TableFull
  <2>1. num' = 2*num /\ ping_addr' = Doubled
    BY <1>3 DEF AddEnter
  <2>2. ZeroEntry \in Entry
    BY DEF ZeroEntry, Entry, Res
  <2>3. ping_addr' \in [0 .. num'-1 -> Entry]
    BY <1>1, <2>1, <2>2 DEF Doubled
  <2>4. \A i \in InUse : ping_addr'[i] = ping_addr[i]
    BY <1>1, <2>1 DEF Doubled, InUse
  <2>5. num' \in Nat \ {0} /\ offset <= num' /\ offset < num'
    BY <1>1, <2>1
  <2>6. QED
    BY <1>2, <2>3, <2>4, <2>5, EnterKeepsIInv
<1>4. CASE ~TableFull
  <2>1. UNCHANGED <<num, ping_addr>>
    BY <1>4 DEF AddEnter
  <2>2. num' \in Nat \ {0} /\ offset <= num' /\ offset < num'
    BY <1>1, <1>4, <2>1 DEF TableFull
  <2>3. QED
    BY <1>1, <1>2, <2>1, <2>2, EnterKeepsIInv
<1>5. QED
  BY <1>3, <1>4

(* The calls that enter without touching the array.                        *)
LEMMA PlainEnterKeepsIInv ==
  ASSUME IInv, NEW f \in {"del", "get", "recv"},
         NEW a \in Addr, NEW v \in Verdict \cup {0},
         f = "recv" => v \in Verdict,
         Enter(f, a, v), UNCHANGED <<num, offset, ping_addr, ret>>
  PROVE  IInv'
<1>1. /\ num \in Nat \ {0} /\ offset \in 0 .. num
      /\ ping_addr \in [0 .. num-1 -> Entry]
  BY DEF IInv, TypeOK
<1>2. /\ num' \in Nat \ {0} /\ offset <= num'
      /\ ping_addr' \in [0 .. num'-1 -> Entry]
  BY <1>1
<1>3. f # "add" /\ f \in {"add", "del", "get", "recv"}
  OBVIOUS
<1>4. QED
  BY <1>2, <1>3, EnterKeepsIInv

-----------------------------------------------------------------------------
(* A call that returns with the array sorted, in bounds and typed leaves   *)
(* the invariant true: its locals are gone, so nothing else is claimed.    *)
LEMMA ReturnKeepsIInv ==
  ASSUME IInv, NEW r \in {-1, 0, 1}, Return(r),
         UNCHANGED num, offset' \in 0 .. num,
         ping_addr' \in [0 .. num-1 -> Entry], Sorted'
  PROVE  IInv'
<1>1. /\ pc' = "idle" /\ op' = "none" /\ target' = 0 /\ verdict' = 0
      /\ left' = 0 /\ right' = -1 /\ index' = -1 /\ ret' = r
  BY DEF Return
<1>2. num' \in Nat \ {0} /\ Entry' = Entry
  BY DEF IInv, TypeOK, Entry, Res
<1>3. TypeOK'
  BY <1>1, <1>2 DEF TypeOK
<1>4. SearchCorrect' /\ SearchWindow'
  BY <1>1 DEF SearchCorrect, SearchWindow
<1>5. QED
  BY <1>3, <1>4 DEF IInv

(* In a sorted table different entries hold different addresses.           *)
LEMMA SortedDistinct ==
  ASSUME TypeOK, Sorted, NEW i \in InUse, NEW j \in InUse, i # j
  PROVE  ping_addr[i].ia # ping_addr[j].ia
<1>1. i \in Nat /\ j \in Nat /\ i \in 0 .. num-1 /\ j \in 0 .. num-1
  BY DEF InUse, TypeOK
<1>2. ping_addr[i].ia \in Nat /\ ping_addr[j].ia \in Nat
  BY <1>1, EntryKey DEF TypeOK
<1>3. CASE i < j
  BY <1>2, <1>3 DEF Sorted
<1>4. CASE j < i
  BY <1>2, <1>4 DEF Sorted
<1>5. QED
  BY <1>1, <1>3, <1>4

(* Sorting entries whose addresses differ gives a strictly ascending array.*)
LEMMA SortDistinct ==
  ASSUME NEW m \in Nat, NEW n \in 0..m, NEW a \in [0..m-1 -> Entry],
         NEW b \in ping_addr_sort(a, n),
         \A i, j \in 0..n-1 : i # j => a[i].ia # a[j].ia
  PROVE  \A i, j \in 0..n-1 : i < j => b[i].ia < b[j].ia
<1>1. PICK p \in Perms(n) : b = Permuted(a, n, p)
  BY DEF ping_addr_sort
<1>2. /\ p \in [0..n-1 -> 0..n-1]
      /\ \A i, j \in 0..n-1 : p[i] = p[j] => i = j
      /\ \A i \in 0..n-1 : b[i] = a[p[i]]
  BY <1>1 DEF Perms, Permuted
<1> SUFFICES ASSUME NEW i \in 0..n-1, NEW j \in 0..n-1, i < j
             PROVE  b[i].ia < b[j].ia
  OBVIOUS
<1>3. b[i].ia # b[j].ia
  <2>1. /\ p[i] \in 0..n-1 /\ p[j] \in 0..n-1 /\ i # j
        /\ b[i] = a[p[i]] /\ b[j] = a[p[j]]
    BY <1>2
  <2>2. p[i] # p[j]
    BY <1>2, <2>1
  <2>3. QED
    BY <2>1, <2>2
<1>4. b[i].ia <= b[j].ia
  BY SortFacts
<1>5. b[i].ia \in Nat /\ b[j].ia \in Nat
  <2>1. i \in 0..m-1 /\ j \in 0..m-1
    OBVIOUS
  <2>2. b \in [0..m-1 -> Entry]
    BY SortFacts
  <2>3. QED
    BY <2>1, <2>2, EntryKey
<1>6. ASSUME NEW x \in Nat, NEW y \in Nat, x <= y, x # y
      PROVE  x < y
  BY <1>6
<1>7. QED
  BY <1>3, <1>4, <1>5, <1>6

(* ping_addr_add: the search found no such address, so the appended entry  *)
(* differs from all others and the sort cannot leave two equal ones.       *)
LEMMA AddExitKeepsIInv == IInv /\ AddExit => IInv'
<1> SUFFICES ASSUME IInv, AddExit PROVE IInv'
  OBVIOUS
<1>1. /\ num \in Nat \ {0} /\ offset \in 0 .. num /\ offset < num
      /\ ping_addr \in [0 .. num-1 -> Entry]
      /\ target \in Addr
  BY DEF IInv, TypeOK, AddExit
<1>2. Return(0) /\ UNCHANGED num /\ 0 \in {-1, 0, 1}
  BY DEF AddExit
<1>3. CASE index >= 0 /\ UNCHANGED <<ping_addr, offset>>
  <2>1. Sorted' /\ offset' \in 0 .. num /\ ping_addr' \in [0 .. num-1 -> Entry]
    BY <1>1, <1>3 DEF IInv, Sorted, InUse
  <2>2. QED
    BY <1>2, <2>1, ReturnKeepsIInv
<1>4. CASE /\ index < 0
           /\ offset' = offset + 1
           /\ ping_addr' \in
                ping_addr_sort([ping_addr EXCEPT ![offset].ia = target], offset + 1)
  <2> DEFINE c == [ping_addr EXCEPT ![offset].ia = target]
  <2>1. offset \in 0 .. num-1 /\ offset + 1 \in 0 .. num
    BY <1>1
  <2>2. c \in [0 .. num-1 -> Entry]
    <3>1. [ping_addr[offset] EXCEPT !.ia = target] \in Entry
      BY <1>1, <2>1 DEF Entry
    <3>2. QED
      BY <1>1, <2>1, <3>1
  <2>3. /\ c[offset].ia = target
        /\ \A i \in InUse : c[i] = ping_addr[i]
    BY <1>1, <2>1 DEF InUse, Entry
  <2>4. \A i \in InUse : ping_addr[i].ia # target
    BY <1>1, <1>4 DEF IInv, SearchCorrect, AddExit, InUse
  <2>5. ASSUME NEW i \in 0 .. (offset + 1) - 1, NEW j \in 0 .. (offset + 1) - 1, i # j
        PROVE  c[i].ia # c[j].ia
    <3>1. (i \in InUse \/ i = offset) /\ (j \in InUse \/ j = offset)
      BY <1>1 DEF InUse
    <3>2. CASE i \in InUse /\ j \in InUse
      BY <2>3, <2>5, <3>2, SortedDistinct DEF IInv
    <3>3. CASE i = offset \/ j = offset
      BY <2>3, <2>4, <2>5, <3>1, <3>3
    <3>4. QED
      BY <3>1, <3>2, <3>3
  <2>6. \A i, j \in 0 .. (offset + 1) - 1 : i < j => ping_addr'[i].ia < ping_addr'[j].ia
    <3> HIDE DEF c
    <3>1. ping_addr' \in ping_addr_sort(c, offset + 1)
      BY <1>4 DEF c
    <3>2. num \in Nat
      BY <1>1
    <3>3. QED
      BY <2>1, <2>2, <2>5, <3>1, <3>2, SortDistinct
  <2>7. Sorted'
    BY <1>4, <2>6 DEF Sorted, InUse
  <2>8. ping_addr' \in [0 .. num-1 -> Entry]
    <3> HIDE DEF c
    <3>1. ping_addr' \in ping_addr_sort(c, offset + 1)
      BY <1>4 DEF c
    <3>2. num \in Nat
      BY <1>1
    <3>3. QED
      BY <2>1, <2>2, <3>1, <3>2, SortFacts
  <2>9. QED
    BY <1>2, <1>4, <2>1, <2>7, <2>8, ReturnKeepsIInv
<1>5. QED
  BY <1>3, <1>4 DEF AddExit

(* ping_addr_del: overwriting an entry with the largest address can create *)
(* one pair of equal addresses, when the largest address is itself         *)
(* tracked; the sort puts the pair at the end and offset drops one of it.  *)
LEMMA DelExitKeepsIInv == IInv /\ DelExit => IInv'
<1> SUFFICES ASSUME IInv, DelExit PROVE IInv'
  OBVIOUS
<1>1. /\ num \in Nat \ {0} /\ offset \in 0 .. num /\ num \in Nat
      /\ ping_addr \in [0 .. num-1 -> Entry]
  BY DEF IInv, TypeOK
<1>2. Return(0) /\ UNCHANGED num /\ 0 \in {-1, 0, 1}
  BY DEF DelExit
<1>3. CASE index < 0 /\ UNCHANGED <<ping_addr, offset>>
  <2>1. Sorted' /\ offset' \in 0 .. num /\ ping_addr' \in [0 .. num-1 -> Entry]
    BY <1>1, <1>3 DEF IInv, Sorted, InUse
  <2>2. QED
    BY <1>2, <2>1, ReturnKeepsIInv
<1>4. CASE /\ index >= 0
           /\ ping_addr' \in
                ping_addr_sort([ping_addr EXCEPT ![index].ia = Bcast], offset)
           /\ offset' = offset - 1
  <2> DEFINE c == [ping_addr EXCEPT ![index].ia = Bcast]
  <2>1. index \in InUse /\ index \in 0 .. num-1 /\ offset \in Nat \ {0}
    BY <1>1, <1>4 DEF IInv, SearchCorrect, DelExit, InUse
  <2>2. c \in [0 .. num-1 -> Entry]
    <3>1. [ping_addr[index] EXCEPT !.ia = Bcast] \in Entry
      BY <1>1, <2>1 DEF Entry
    <3>2. QED
      BY <1>1, <2>1, <3>1
  <2>3. /\ c[index].ia = Bcast
        /\ \A i \in InUse \ {index} : c[i] = ping_addr[i]
    BY <1>1, <2>1 DEF InUse, Entry
  <2>4. PICK b : b = ping_addr' /\ b \in ping_addr_sort(c, offset)
    BY <1>4
  <2> HIDE DEF c
  <2>5. /\ b \in [0 .. num-1 -> Entry]
        /\ \A i, j \in InUse : i < j => b[i].ia <= b[j].ia
    BY <1>1, <2>2, <2>4, SortFacts DEF InUse
  <2>6. PICK p \in Perms(offset) : b = Permuted(c, offset, p)
    BY <2>4 DEF ping_addr_sort
  <2>7. /\ \A i \in InUse : p[i] \in InUse /\ b[i] = c[p[i]]
        /\ \A i, j \in InUse : p[i] = p[j] => i = j
    BY <1>1, <2>2, <2>6 DEF Perms, Permuted, InUse
  <2>8. \A i \in InUse : b[i].ia \in Nat /\ b[i].ia <= Bcast
    <3>1. \A i \in InUse : i \in 0 .. num-1
      BY <1>1 DEF InUse
    <3>2. QED
      BY <2>5, <3>1, EntryKey
  <2>9. ASSUME NEW i \in InUse, NEW j \in InUse, i # j, b[i].ia = b[j].ia
        PROVE  (p[i] = index \/ p[j] = index) /\ b[i].ia = Bcast
    <3>1. p[i] \in InUse /\ p[j] \in InUse /\ p[i] # p[j]
      BY <2>7, <2>9
    <3>2. p[i] = index \/ p[j] = index
      BY <2>3, <2>7, <2>9, <3>1, SortedDistinct DEF IInv
    <3>3. QED
      BY <2>3, <2>7, <2>9, <3>2
  <2>10. ASSUME NEW i \in 0 .. offset-2, NEW j \in 0 .. offset-2, i < j
         PROVE  b[i].ia < b[j].ia
    <3> DEFINE last == offset - 1
    <3>1. /\ i \in InUse /\ j \in InUse /\ last \in InUse
          /\ i # j /\ i # last /\ j # last /\ j < last
      BY <2>1, <2>10 DEF InUse
    <3> HIDE DEF last
    <3>2. b[i].ia # b[j].ia
      <4>1. SUFFICES ASSUME b[i].ia = b[j].ia PROVE FALSE
        OBVIOUS
      <4>2. (p[i] = index \/ p[j] = index) /\ b[i].ia = Bcast
        BY <2>9, <3>1, <4>1
      <4>3. b[last].ia = Bcast
        <5>1. b[j].ia <= b[last].ia /\ b[last].ia <= Bcast /\ b[last].ia \in Nat
          BY <2>5, <2>8, <3>1
        <5>2. b[j].ia = Bcast /\ Bcast \in Nat
          BY <4>1, <4>2, TableAssumption DEF TableAssumption
        <5>3. QED
          BY <5>1, <5>2
      <4>4. p[i] = index \/ p[last] = index
        BY <2>9, <3>1, <4>2, <4>3
      <4>5. p[j] = index \/ p[last] = index
        BY <2>9, <3>1, <4>1, <4>2, <4>3
      <4>6. QED
        BY <2>7, <3>1, <4>2, <4>4, <4>5
    <3>3. b[i].ia <= b[j].ia /\ b[i].ia \in Nat /\ b[j].ia \in Nat
      BY <2>5, <2>8, <2>10, <3>1
    <3>4. QED
      BY <3>2, <3>3
  <2>11. Sorted'
    <3>1. InUse' = 0 .. offset-2
      BY <1>1, <1>4, <2>1 DEF InUse
    <3>2. QED
      BY <2>4, <2>10, <3>1 DEF Sorted
  <2>12. offset' \in 0 .. num
    BY <1>1, <1>4, <2>1
  <2>13. ping_addr' \in [0 .. num-1 -> Entry]
    BY <2>4, <2>5
  <2>14. QED
    BY <1>2, <2>11, <2>12, <2>13, ReturnKeepsIInv
<1>5. QED
  BY <1>3, <1>4 DEF DelExit

(* The calls that only read the array, or only write a result.             *)
LEMMA GetExitKeepsIInv == IInv /\ GetExit => IInv'
<1> SUFFICES ASSUME IInv, GetExit PROVE IInv'
  OBVIOUS
<1>1. \E r \in {-1, 0, 1} : Return(r)
  BY DEF GetExit
<1>2. /\ UNCHANGED num /\ offset' \in 0 .. num
      /\ ping_addr' \in [0 .. num-1 -> Entry] /\ Sorted'
  BY DEF GetExit, IInv, TypeOK, Sorted, InUse
<1>3. QED
  BY <1>1, <1>2, ReturnKeepsIInv

(* ping_recv stores a result at an index the search found.                 *)
LEMMA RecvExitKeepsIInv == IInv /\ RecvExit => IInv'
<1> SUFFICES ASSUME IInv, RecvExit PROVE IInv'
  OBVIOUS
<1>1. /\ ping_addr \in [0 .. num-1 -> Entry] /\ offset \in 0 .. num /\ num \in Nat
      /\ verdict \in Verdict
  BY DEF IInv, TypeOK, RecvExit
<1>2. \E r \in {-1, 0, 1} : Return(r)
  BY DEF RecvExit
<1>3. /\ ping_addr' \in [0 .. num-1 -> Entry]
      /\ \A i \in 0 .. num-1 : ping_addr'[i].ia = ping_addr[i].ia
  <2>1. CASE index < 0 /\ UNCHANGED ping_addr
    BY <1>1, <2>1
  <2>2. CASE index >= 0 /\ ping_addr' = [ping_addr EXCEPT ![index].res = verdict]
    <3>1. index \in 0 .. num-1
      BY <1>1, <2>2 DEF IInv, SearchCorrect, RecvExit, InUse
    <3>2. /\ [ping_addr[index] EXCEPT !.res = verdict] \in Entry
          /\ [ping_addr[index] EXCEPT !.res = verdict].ia = ping_addr[index].ia
      BY <1>1, <3>1 DEF Entry, Res, Verdict
    <3>3. QED
      BY <1>1, <2>2, <3>1, <3>2
  <2>3. QED
    BY <2>1, <2>2 DEF RecvExit
<1>4. UNCHANGED <<num, offset>> /\ InUse' = InUse /\ InUse \subseteq 0 .. num-1
  BY <1>1 DEF RecvExit, InUse
<1>5. Sorted'
  BY <1>3, <1>4 DEF IInv, Sorted
<1>6. QED
  BY <1>1, <1>2, <1>3, <1>4, <1>5, ReturnKeepsIInv

-----------------------------------------------------------------------------
(* The table of ping_addr_init is empty.                                   *)
LEMMA InitIInv == Init => IInv
<1> SUFFICES ASSUME Init PROVE IInv
  OBVIOUS
<1>1. InitNum \in Nat \ {0} /\ ZeroEntry \in Entry
  BY TableAssumption DEF TableAssumption, ZeroEntry, Entry, Res
<1>2. num \in Nat \ {0} /\ offset \in 0 .. num
  BY <1>1 DEF Init
<1>3. ping_addr \in [0 .. num-1 -> Entry]
  BY <1>1 DEF Init
<1>4. TypeOK
  BY <1>2, <1>3 DEF Init, TypeOK
<1>5. Sorted /\ SearchCorrect /\ SearchWindow
  BY DEF Init, Sorted, SearchCorrect, SearchWindow, InUse
<1>6. QED
  BY <1>4, <1>5 DEF IInv

(* A step that changes nothing.                                            *)
LEMMA StutterKeepsIInv == IInv /\ UNCHANGED vars => IInv'
<1> SUFFICES ASSUME IInv, UNCHANGED vars PROVE IInv'
  OBVIOUS
<1>1. TypeOK'
  BY DEF IInv, TypeOK, vars
<1>2. Sorted' /\ SearchCorrect' /\ SearchWindow'
  BY DEF IInv, Sorted, SearchCorrect, SearchWindow, InUse, vars
<1>3. QED
  BY <1>1, <1>2 DEF IInv

(* One step per action of Next.                                            *)
LEMMA NextKeepsIInv == IInv /\ [Next]_vars => IInv'
<1> SUFFICES ASSUME IInv, [Next]_vars PROVE IInv'
  OBVIOUS
<1>1. ASSUME NEW a \in Addr, AddEnter(a) PROVE IInv'
  BY <1>1, AddEnterKeepsIInv
<1>2. ASSUME NEW a \in Addr, AddNoMemory(a) PROVE IInv'
  <2>1. UNCHANGED <<num, offset, frame>> /\ ret' \in {-1, 0, 1} /\ ping_addr' = ping_addr
    BY <1>2 DEF AddNoMemory
  <2>2. ping_addr \in [0 .. num-1 -> Entry]
    BY DEF IInv, TypeOK
  <2>3. QED
    BY <2>1, <2>2, ResultsKeepIInv
<1>3. ASSUME NEW a \in Addr, DelEnter(a) PROVE IInv'
  <2>1. Enter("del", a, 0) /\ UNCHANGED <<num, offset, ping_addr, ret>>
    BY <1>3 DEF DelEnter
  <2>2. QED
    BY <2>1, PlainEnterKeepsIInv
<1>4. ASSUME NEW a \in Addr, GetEnter(a) PROVE IInv'
  <2>1. Enter("get", a, 0) /\ UNCHANGED <<num, offset, ping_addr, ret>>
    BY <1>4 DEF GetEnter
  <2>2. QED
    BY <2>1, PlainEnterKeepsIInv
<1>5. ASSUME NEW a \in Addr, NEW v \in Verdict, RecvEnter(a, v) PROVE IInv'
  <2>1. Enter("recv", a, v) /\ UNCHANGED <<num, offset, ping_addr, ret>>
    BY <1>5 DEF RecvEnter
  <2>2. QED
    BY <2>1, PlainEnterKeepsIInv
<1>6. CASE Search
  BY <1>6, SearchKeepsIInv
<1>7. CASE Exit
  BY <1>7, AddExitKeepsIInv, DelExitKeepsIInv, GetExitKeepsIInv, RecvExitKeepsIInv
  DEF Exit
<1>8. CASE ping_send
  BY <1>8, SendKeepsIInv
<1>9. CASE ping_clear_addr_resp
  BY <1>9, ClearKeepsIInv
<1>10. CASE UNCHANGED vars
  BY <1>10, StutterKeepsIInv
<1>11. QED
  BY <1>1, <1>2, <1>3, <1>4, <1>5, <1>6, <1>7, <1>8, <1>9, <1>10 DEF Next

(* The order of the entries, the window of the search and its answer hold  *)
(* in every state of every call.                                           *)
THEOREM IInvAlways == Spec => []IInv
BY InitIInv, NextKeepsIInv, PTL DEF Spec

(* Every variable keeps its type; in particular no call indexes the array  *)
(* outside its capacity, whatever the addresses and the growth.            *)
THEOREM TypeCorrect == Spec => []TypeOK
<1>1. IInv => TypeOK
  BY DEF IInv
<1>2. QED
  BY <1>1, IInvAlways, PTL

(* The table is strictly ascending after every step of every call.         *)
THEOREM TableSorted == Spec => []Sorted
<1>1. IInv => Sorted
  BY DEF IInv
<1>2. QED
  BY <1>1, IInvAlways, PTL

(* The binary search never misses a tracked address and never finds one    *)
(* that is not tracked.                                                    *)
THEOREM SearchExact == Spec => []SearchCorrect
<1>1. IInv => SearchCorrect
  BY DEF IInv
<1>2. QED
  BY <1>1, IInvAlways, PTL

-----------------------------------------------------------------------------
(* The set of PingAddrSet that an array holds in its first n entries.      *)
HeldOf(arr, n) ==
  [a \in {arr[i].ia : i \in 0 .. n-1} |-> arr[CHOOSE i \in 0 .. n-1 : arr[i].ia = a].res]

Distinct(arr, n) == \A i, j \in 0 .. n-1 : i # j => arr[i].ia # arr[j].ia

(* Held is the set of the present array, and Held' of the next.            *)
LEMMA HeldIs == /\ Held = HeldOf(ping_addr, offset)
                /\ Held' = HeldOf(ping_addr', offset')
BY DEF Held, HeldOf, TrackedAddrs, RespOf, InUse

(* The addresses of that set.                                              *)
LEMMA HeldDomain ==
  ASSUME NEW arr, NEW n
  PROVE  DOMAIN HeldOf(arr, n) = {arr[i].ia : i \in 0 .. n-1}
BY DEF HeldOf

(* The result of an address is that of its entry, when no other has it.    *)
LEMMA HeldAt ==
  ASSUME NEW arr, NEW n, Distinct(arr, n), NEW i \in 0 .. n-1
  PROVE  HeldOf(arr, n)[arr[i].ia] = arr[i].res
<1>1. PICK k : k = CHOOSE m \in 0 .. n-1 : arr[m].ia = arr[i].ia
  OBVIOUS
<1>2. k \in 0 .. n-1 /\ arr[k].ia = arr[i].ia
  BY <1>1
<1>3. k = i
  BY <1>2 DEF Distinct
<1>4. HeldOf(arr, n)[arr[i].ia] = arr[k].res
  BY <1>1 DEF HeldOf
<1>5. QED
  BY <1>3, <1>4

(* A function is told by its domain and its values.                        *)
LEMMA HeldSame ==
  ASSUME NEW arr, NEW n, NEW h, NEW S, h = [a \in S |-> h[a]],
         DOMAIN HeldOf(arr, n) = S, \A a \in S : HeldOf(arr, n)[a] = h[a]
  PROVE  HeldOf(arr, n) = h
<1>1. HeldOf(arr, n) = [a \in DOMAIN HeldOf(arr, n) |-> HeldOf(arr, n)[a]]
  BY DEF HeldOf
<1>2. PICK g : g = HeldOf(arr, n)
  OBVIOUS
<1>3. g = [a \in S |-> g[a]] /\ \A a \in S : g[a] = h[a]
  BY <1>1, <1>2
<1>4. QED
  BY <1>2, <1>3

(* An ascending table has no address twice.                                *)
LEMMA SortedHasNone ==
  ASSUME IInv
  PROVE  Distinct(ping_addr, offset)
BY SortedDistinct DEF Distinct, IInv, InUse

(* The permutation of the sort reaches every entry.                        *)
LEMMA PermOnto ==
  ASSUME NEW n \in Nat, NEW p \in Perms(n)
  PROVE  \A k \in 0 .. n-1 : \E i \in 0 .. n-1 : p[i] = k
<1>1. IsFiniteSet(0 .. n-1)
  BY FS_Interval
<1>2. p \in Injection(0 .. n-1, 0 .. n-1)
  BY DEF Perms, Injection, IsInjective
<1>3. p \in Surjection(0 .. n-1, 0 .. n-1)
  BY <1>1, <1>2, FS_Injection
<1>4. QED
  BY <1>3 DEF Surjection

-----------------------------------------------------------------------------
(* What the calls do to the set.                                           *)

(* Steps that leave the entries in use alone.                              *)
LEMMA SameEntries ==
  ASSUME IInv, UNCHANGED offset, \A i \in InUse : ping_addr'[i] = ping_addr[i]
  PROVE  UNCHANGED Held
<1>1. PICK a, b, n : a = ping_addr /\ b = ping_addr' /\ n = offset
  OBVIOUS
<1>2. Distinct(a, n) /\ \A i \in 0 .. n-1 : b[i] = a[i]
  BY <1>1, SortedHasNone DEF InUse
<1>3. Distinct(b, n) /\ {b[i].ia : i \in 0 .. n-1} = {a[i].ia : i \in 0 .. n-1}
  BY <1>2 DEF Distinct
<1>4. PICK h : h = HeldOf(a, n)
  OBVIOUS
<1>5. DOMAIN HeldOf(b, n) = DOMAIN h
  BY <1>3, <1>4, HeldDomain
<1>6. ASSUME NEW x \in DOMAIN h
      PROVE  HeldOf(b, n)[x] = h[x]
  <2>1. PICK i \in 0 .. n-1 : x = a[i].ia
    <3>1. DOMAIN h = {a[i].ia : i \in 0 .. n-1}
      BY <1>4, HeldDomain
    <3>2. QED
      BY <1>6, <3>1
  <2>2. HeldOf(b, n)[b[i].ia] = b[i].res
    BY <1>3, HeldAt
  <2>3. h[a[i].ia] = a[i].res
    BY <1>2, <1>4, HeldAt
  <2>4. QED
    BY <1>2, <2>1, <2>2, <2>3
<1>7. h = [x \in DOMAIN h |-> h[x]]
  BY <1>4 DEF HeldOf
<1>8. HeldOf(b, n) = h
  BY <1>5, <1>6, <1>7, HeldSame
<1>9. QED
  BY <1>1, <1>4, <1>8, HeldIs

(* The set before a call, entry by entry.                                  *)
LEMMA HeldEntry ==
  ASSUME IInv, NEW i \in InUse
  PROVE  ping_addr[i].ia \in DOMAIN Held /\ Held[ping_addr[i].ia] = ping_addr[i].res
<1>1. PICK a, n : a = ping_addr /\ n = offset
  OBVIOUS
<1>2. Distinct(a, n) /\ i \in 0 .. n-1 /\ Held = HeldOf(a, n)
  BY <1>1, SortedHasNone, HeldIs DEF InUse
<1>3. HeldOf(a, n)[a[i].ia] = a[i].res
  BY <1>2, HeldAt
<1>4. a[i].ia \in DOMAIN HeldOf(a, n)
  <2>1. a[i].ia \in {a[k].ia : k \in 0 .. n-1}
    BY <1>2
  <2>2. QED
    BY <2>1, HeldDomain
<1>5. QED
  BY <1>1, <1>2, <1>3, <1>4

(* A tracked address has an entry.                                         *)
LEMMA HeldBy ==
  ASSUME NEW x \in DOMAIN Held
  PROVE  \E i \in InUse : ping_addr[i].ia = x
BY DEF Held, TrackedAddrs

(* Held is what its values make it.                                        *)
LEMMA HeldIsFunction == Held = [x \in DOMAIN Held |-> Held[x]]
BY DEF Held

(* The types of the entries in use.                                        *)
LEMMA InUseTyped ==
  ASSUME IInv
  PROVE  /\ offset \in Nat /\ num \in Nat /\ offset <= num /\ InUse \subseteq 0 .. num-1
         /\ ping_addr \in [0 .. num-1 -> Entry]
         /\ \A i \in InUse : ping_addr[i].ia \in Nat /\ ping_addr[i].res \in Res
<1>1. /\ offset \in Nat /\ num \in Nat /\ offset <= num /\ ping_addr \in [0 .. num-1 -> Entry]
  BY DEF IInv, TypeOK
<1>2. InUse \subseteq 0 .. num-1
  BY <1>1 DEF InUse
<1>3. \A i \in InUse : ping_addr[i] \in Entry
  BY <1>1, <1>2
<1>4. QED
  BY <1>1, <1>2, <1>3, EntryKey DEF Entry

(* The set after a call: b holds S, with the results V.                    *)
LEMMA HeldAfter ==
  ASSUME NEW b, NEW n, NEW S, NEW V, b = ping_addr', n = offset', IInv',
         {b[i].ia : i \in 0 .. n-1} = S, V = [x \in S |-> V[x]],
         \A i \in 0 .. n-1 : V[b[i].ia] = b[i].res
  PROVE  Held' = V
<1>1. Distinct(b, n)
  <2>1. \A i, k \in 0 .. n-1 : i < k => b[i].ia < b[k].ia
    BY DEF IInv, Sorted, InUse
  <2>2. n \in Nat /\ \A i \in 0 .. n-1 : b[i].ia \in Nat
    <3>1. PICK m, E : m = num' /\ E = Entry'
      OBVIOUS
    <3>2. m \in Nat /\ n \in 0 .. m /\ b \in [0 .. m-1 -> E]
      BY <3>1 DEF IInv, TypeOK
    <3>3. E = Entry
      BY <3>1 DEF Entry, Res
    <3>4. \A i \in 0 .. n-1 : b[i] \in Entry
      BY <3>2, <3>3
    <3>5. QED
      BY <3>2, <3>4, EntryKey
  <2>3. SUFFICES ASSUME NEW i \in 0 .. n-1, NEW k \in 0 .. n-1, i # k PROVE b[i].ia # b[k].ia
    BY DEF Distinct
  <2>4. i < k \/ k < i
    BY <2>2, <2>3
  <2>5. PICK x, y : x = b[i].ia /\ y = b[k].ia
    OBVIOUS
  <2>6. x \in Nat /\ y \in Nat /\ (x < y \/ y < x)
    BY <2>1, <2>2, <2>4, <2>5
  <2>7. QED
    BY <2>5, <2>6
<1>2. DOMAIN HeldOf(b, n) = S
  <2>1. DOMAIN HeldOf(b, n) = {b[i].ia : i \in 0 .. n-1}
    BY DEF HeldOf
  <2>2. QED
    BY <2>1
<1>3. ASSUME NEW x \in S PROVE HeldOf(b, n)[x] = V[x]
  <2>1. PICK i \in 0 .. n-1 : x = b[i].ia
    BY <1>3
  <2>2. HeldOf(b, n)[b[i].ia] = b[i].res
    BY <1>1, HeldAt
  <2>3. QED
    BY <2>1, <2>2
<1>4. HeldOf(b, n) = V
  BY <1>2, <1>3, HeldSame
<1>5. QED
  BY <1>4, HeldIs

-----------------------------------------------------------------------------
(* Each call is one of PingAddrSet, when it returns.                       *)

(* What the search has answered, in terms of the set.                      *)
LEMMA SearchAnswers ==
  ASSUME IInv, pc = "exit"
  PROVE  /\ target \in Addr
         /\ index >= 0 => /\ index \in InUse /\ ping_addr[index].ia = target
                          /\ target \in DOMAIN Held /\ Held[target] = ping_addr[index].res
         /\ index < 0 => target \notin DOMAIN Held
<1>1. target \in Addr
  BY DEF IInv, TypeOK
<1>2. CASE index \in InUse /\ ping_addr[index].ia = target
  <2>1. index >= 0 /\ ~(index < 0)
    BY <1>2, InUseTyped DEF InUse
  <2>2. QED
    BY <1>1, <1>2, <2>1, HeldEntry
<1>3. CASE index = -1 /\ \A i \in InUse : ping_addr[i].ia # target
  BY <1>1, <1>3, HeldBy
<1>4. QED
  BY <1>2, <1>3 DEF IInv, SearchCorrect

(* The results of the entries F are set to r, and nothing else is changed. *)
KeysOf(F) == {ping_addr[i].ia : i \in F}

WithResult(G, r) == [a \in DOMAIN Held |-> IF a \in G THEN r ELSE Held[a]]

Stored(F, r) ==
  /\ UNCHANGED offset
  /\ \A i \in InUse : /\ ping_addr'[i].ia = ping_addr[i].ia
                      /\ ping_addr'[i].res = IF i \in F THEN r ELSE ping_addr[i].res

(* Storing results changes the set at their addresses only.                *)
LEMMA ResultsSet ==
  ASSUME IInv, IInv', NEW F \in SUBSET InUse, NEW r, Stored(F, r)
  PROVE  KeysOf(F) \in SUBSET DOMAIN Held /\ Held' = WithResult(KeysOf(F), r)
<1>0. PICK G, V : G = KeysOf(F) /\ V = WithResult(G, r)
  OBVIOUS
<1>1. G \in SUBSET DOMAIN Held
  BY <1>0, HeldEntry DEF KeysOf
<1>2. \A i \in InUse : ping_addr[i].ia \in G <=> i \in F
  BY <1>0, SortedHasNone DEF Distinct, InUse, KeysOf
<1>3. PICK b, n : b = ping_addr' /\ n = offset'
  OBVIOUS
<1>4. InUse = 0 .. n-1
  BY <1>3 DEF InUse, Stored
<1>5. ASSUME NEW i \in 0 .. n-1
      PROVE  b[i].ia \in DOMAIN Held /\ V[b[i].ia] = b[i].res
  <2>1. i \in InUse /\ ping_addr[i].ia \in DOMAIN Held /\ Held[ping_addr[i].ia] = ping_addr[i].res
    BY <1>4, HeldEntry
  <2>2. b[i].ia = ping_addr[i].ia /\ b[i].res = IF i \in F THEN r ELSE ping_addr[i].res
    BY <1>3, <2>1 DEF Stored
  <2>3. V[b[i].ia] = IF ping_addr[i].ia \in G THEN r ELSE Held[ping_addr[i].ia]
    BY <1>0, <2>1, <2>2 DEF WithResult
  <2>4. QED
    BY <1>2, <2>1, <2>2, <2>3
<1>6. {b[i].ia : i \in 0 .. n-1} = DOMAIN Held
  <2>1. ASSUME NEW x \in DOMAIN Held PROVE \E i \in 0 .. n-1 : b[i].ia = x
    <3>1. PICK i \in InUse : ping_addr[i].ia = x
      BY HeldBy
    <3>2. QED
      BY <1>3, <1>4, <3>1 DEF Stored
  <2>2. \A i \in 0 .. n-1 : b[i].ia \in DOMAIN Held
    BY <1>5
  <2>3. QED
    BY <2>1, <2>2
<1>7. V = [x \in DOMAIN Held |-> V[x]]
  BY <1>0 DEF WithResult
<1>8. Held' = V
  BY <1>3, <1>5, <1>6, <1>7, HeldAfter
<1>9. QED
  BY <1>0, <1>1, <1>8

(* The entries whose sendto fails are the addresses that fail.             *)
LEMMA SendIsSend == IInv /\ IInv' /\ ping_send => AbstractSet!Send
<1> SUFFICES ASSUME IInv, IInv', ping_send PROVE AbstractSet!Send
  OBVIOUS
<1>1. PICK failed \in SUBSET InUse :
        ping_addr' = [i \in DOMAIN ping_addr |->
                        IF i \in failed THEN [ping_addr[i] EXCEPT !.res = PING_SEND_FAIL]
                                        ELSE ping_addr[i]]
  BY DEF ping_send
<1>2. \A i \in InUse : ping_addr[i] \in Entry /\ i \in DOMAIN ping_addr
  BY InUseTyped
<1>3. UNCHANGED offset /\ ret' = 0
  BY DEF ping_send
<1>4. Stored(failed, PING_SEND_FAIL)
  BY <1>1, <1>2, <1>3 DEF Entry, Stored
<1>5. PICK G : G \in SUBSET DOMAIN Held /\ Held' = WithResult(G, PING_SEND_FAIL)
  BY <1>4, ResultsSet
<1>6. QED
  BY <1>3, <1>5
  DEF WithResult, AbstractSet!Send, AbstractSet!Tracked, PING_SEND_FAIL, AbstractSet!PING_SEND_FAIL

(* Every address in use loses its result.                                  *)
LEMMA ClearIsClear == IInv /\ IInv' /\ ping_clear_addr_resp => AbstractSet!Clear
<1> SUFFICES ASSUME IInv, IInv', ping_clear_addr_resp PROVE AbstractSet!Clear
  OBVIOUS
<1>1. \A i \in InUse : ping_addr[i] \in Entry /\ i \in DOMAIN ping_addr
  BY InUseTyped
<1>2. UNCHANGED <<offset, ret>>
  BY DEF ping_clear_addr_resp
<1>3. Stored(InUse, 0)
  BY <1>1, <1>2 DEF ping_clear_addr_resp, Cleared, InUse, Entry, Stored
<1>4. Held' = WithResult(KeysOf(InUse), 0)
  BY <1>3, ResultsSet
<1>5. \A a \in DOMAIN Held : a \in KeysOf(InUse)
  BY HeldBy DEF KeysOf
<1>6. Held' = [a \in DOMAIN Held |-> 0]
  BY <1>4, <1>5 DEF WithResult
<1>7. QED
  BY <1>2, <1>6 DEF AbstractSet!Clear, AbstractSet!Tracked

(* get_resp answers from the entry that the search found.                  *)
LEMMA GetIsGet == IInv /\ IInv' /\ GetExit => \E a \in Addr : AbstractSet!GetResp(a)
<1> SUFFICES ASSUME IInv, IInv', GetExit PROVE AbstractSet!GetResp(target) /\ target \in Addr
  OBVIOUS
<1>1. /\ ret' = IF index < 0 THEN -1 ELSE IF ping_addr[index].res = PING_OK THEN 1 ELSE 0
      /\ pc = "exit" /\ UNCHANGED <<offset, ping_addr>>
  BY DEF GetExit, Return
<1>2. UNCHANGED Held
  BY <1>1, SameEntries
<1>3. index \in Int
  BY DEF IInv, TypeOK
<1>4. ret' = IF target \notin DOMAIN Held THEN -1 ELSE IF Held[target] = PING_OK THEN 1 ELSE 0
  <2>1. CASE index < 0
    BY <1>1, <2>1, SearchAnswers
  <2>2. CASE index >= 0
    <3>1. ~(index < 0)
      BY <1>3, <2>2
    <3>2. QED
      BY <1>1, <2>2, <3>1, SearchAnswers
  <2>3. QED
    BY <1>3, <2>1, <2>2
<1>5. QED
  BY <1>1, <1>2, <1>4, SearchAnswers
  DEF AbstractSet!GetResp, AbstractSet!Tracked, PING_OK, AbstractSet!PING_OK

(* ping_recv stores at the tracked address, and says so when there is      *)
(* none.                                                                   *)
LEMMA RecvIsReceive ==
  IInv /\ IInv' /\ RecvExit =>
    \E a \in Addr, v \in {PING_OK, PING_ERROR_OCCUR} : AbstractSet!Receive(a, v)
<1> SUFFICES ASSUME IInv, IInv', RecvExit
             PROVE  AbstractSet!Receive(target, verdict) /\ target \in Addr /\ verdict \in Verdict
  BY DEF Verdict
<1>1. pc = "exit" /\ UNCHANGED offset /\ verdict \in Verdict
  BY DEF RecvExit, IInv, TypeOK
<1>2. CASE index < 0 /\ ret' = -1 /\ UNCHANGED ping_addr
  <2>1. UNCHANGED Held
    BY <1>1, <1>2, SameEntries
  <2>2. QED
    BY <1>1, <1>2, <2>1, SearchAnswers DEF AbstractSet!Receive, AbstractSet!Tracked
<1>3. CASE index >= 0 /\ ret' = 0 /\ ping_addr' = [ping_addr EXCEPT ![index].res = verdict]
  <2>1. index \in InUse /\ ping_addr[index].ia = target /\ target \in DOMAIN Held
    BY <1>1, <1>3, SearchAnswers
  <2>2. \A i \in InUse : ping_addr[i] \in Entry /\ i \in DOMAIN ping_addr
    BY InUseTyped
  <2>3. Stored({index}, verdict)
    BY <1>1, <1>3, <2>1, <2>2 DEF Entry, Stored
  <2>4. {index} \in SUBSET InUse /\ KeysOf({index}) = {target}
    BY <2>1 DEF KeysOf
  <2>5. Held' = WithResult({target}, verdict)
    BY <2>3, <2>4, ResultsSet
  <2>6. Held' = [Held EXCEPT ![target] = verdict]
    BY <2>5, HeldIsFunction DEF WithResult
  <2>7. QED
    BY <1>1, <1>3, <2>1, <2>6, SearchAnswers DEF AbstractSet!Receive, AbstractSet!Tracked
<1>4. QED
  BY <1>1, <1>2, <1>3, SearchAnswers DEF RecvExit, Return

(* What the sort returns holds the entries it was given, each once.        *)
Rearranges(b, c, n, p) ==
  /\ \A i \in 0 .. n-1 : p[i] \in 0 .. n-1 /\ b[i] = c[p[i]]
  /\ \A i, k \in 0 .. n-1 : p[i] = p[k] => i = k
  /\ \A k \in 0 .. n-1 : \E i \in 0 .. n-1 : p[i] = k

(* A sort is such a rearrangement.                                         *)
LEMMA SortHolds ==
  ASSUME NEW n \in Nat, NEW c, NEW b \in ping_addr_sort(c, n),
         \A i \in 0 .. n-1 : i \in DOMAIN c
  PROVE  \E p : Rearranges(b, c, n, p)
<1>1. PICK p \in Perms(n) : b = Permuted(c, n, p)
  BY DEF ping_addr_sort
<1>2. /\ p \in [0 .. n-1 -> 0 .. n-1]
      /\ \A i, k \in 0 .. n-1 : p[i] = p[k] => i = k
      /\ \A i \in 0 .. n-1 : b[i] = c[p[i]]
  BY <1>1 DEF Perms, Permuted
<1>3. \A k \in 0 .. n-1 : \E i \in 0 .. n-1 : p[i] = k
  BY PermOnto
<1>4. Rearranges(b, c, n, p)
  BY <1>2, <1>3 DEF Rearranges
<1>5. QED
  BY <1>4

(* The entry that add appends has the new address, and the result that its *)
(* slot held before.                                                       *)
LEMMA AddIsAdd == IInv /\ IInv' /\ AddExit => \E a \in Addr : AbstractSet!Add(a)
<1> SUFFICES ASSUME IInv, IInv', AddExit PROVE AbstractSet!Add(target) /\ target \in Addr
  OBVIOUS
<1>1. pc = "exit" /\ ret' = 0 /\ offset < num /\ target \in Addr
  BY DEF AddExit, Return, IInv, TypeOK
<1>2. CASE index >= 0 /\ UNCHANGED <<ping_addr, offset>>
  <2>1. UNCHANGED Held
    BY <1>2, SameEntries
  <2>2. QED
    BY <1>1, <1>2, <2>1, SearchAnswers DEF AbstractSet!Add, AbstractSet!Tracked
<1>3. CASE /\ index < 0
           /\ offset' = offset + 1
           /\ ping_addr' \in
                ping_addr_sort([ping_addr EXCEPT ![offset].ia = target], offset + 1)
  <2>1. PICK b, c, n : /\ b = ping_addr' /\ n = offset + 1
                       /\ c = [ping_addr EXCEPT ![offset].ia = target]
    OBVIOUS
  <2>2. /\ offset \in 0 .. num-1 /\ n \in 0 .. num /\ num \in Nat /\ n = offset'
        /\ 0 .. n-1 = InUse \cup {offset} /\ offset \notin InUse
    BY <1>1, <1>3, <2>1, InUseTyped DEF InUse
  <2>3. ping_addr[offset] \in Entry
    BY <2>2, InUseTyped
  <2>4. PICK r \in Res : r = ping_addr[offset].res
    BY <2>3 DEF Entry
  <2>5. /\ c[offset].ia = target /\ c[offset].res = r
        /\ \A k \in InUse : c[k] = ping_addr[k]
    BY <2>1, <2>2, <2>3, <2>4, InUseTyped DEF Entry
  <2>6. c \in [0 .. num-1 -> Entry]
    <3>1. [ping_addr[offset] EXCEPT !.ia = target] \in Entry
      BY <1>1, <2>3 DEF Entry
    <3>2. QED
      BY <2>1, <2>2, <3>1, InUseTyped
  <2>7. b \in ping_addr_sort(c, n)
    BY <1>3, <2>1
  <2>8. PICK p : /\ \A i \in 0 .. n-1 : p[i] \in 0 .. n-1 /\ b[i] = c[p[i]]
                 /\ \A k \in 0 .. n-1 : \E i \in 0 .. n-1 : p[i] = k
    <3>1. n \in Nat /\ \A i \in 0 .. n-1 : i \in DOMAIN c
      <4>1. n \in Nat /\ DOMAIN c = 0 .. num-1 /\ num \in Nat /\ n <= num
        BY <2>2, <2>6
      <4>2. QED
        BY <4>1
    <3>2. PICK p : Rearranges(b, c, n, p)
      BY <2>7, <3>1, SortHolds
    <3>3. QED
      BY <3>2 DEF Rearranges
  <2>9. target \notin DOMAIN Held
    BY <1>1, <1>3, SearchAnswers
  <2>10. PICK S, V : /\ S = DOMAIN Held \cup {target}
                     /\ V = [x \in S |-> IF x = target THEN r ELSE Held[x]]
    OBVIOUS
  <2>11. ASSUME NEW i \in 0 .. n-1 PROVE b[i].ia \in S /\ V[b[i].ia] = b[i].res
    <3>1. PICK k : k = p[i]
      OBVIOUS
    <3>2. b[i] = c[k] /\ (k \in InUse \/ k = offset)
      BY <2>2, <2>8, <3>1
    <3>3. CASE k = offset
      BY <2>5, <2>10, <3>2, <3>3
    <3>4. CASE k \in InUse
      <4>1. c[k] = ping_addr[k] /\ c[k].ia \in DOMAIN Held /\ Held[c[k].ia] = c[k].res
        BY <2>5, <3>4, HeldEntry
      <4>2. QED
        BY <2>9, <2>10, <3>2, <4>1
    <3>5. QED
      BY <3>2, <3>3, <3>4
  <2>12. ASSUME NEW x \in S PROVE \E i \in 0 .. n-1 : b[i].ia = x
    <3>1. PICK k \in 0 .. n-1 : c[k].ia = x
      <4>1. CASE x = target
        BY <2>2, <2>5, <4>1
      <4>2. CASE x \in DOMAIN Held
        BY <2>2, <2>5, <4>2, HeldBy
      <4>3. QED
        BY <2>10, <4>1, <4>2
    <3>2. QED
      BY <2>8, <3>1
  <2>13. {b[i].ia : i \in 0 .. n-1} = S
    <3>1. \A i \in 0 .. n-1 : b[i].ia \in S
      BY <2>11
    <3>2. QED
      BY <2>12, <3>1
  <2>14. V = [x \in S |-> V[x]]
    BY <2>10
  <2>15. Held' = V
    BY <2>1, <2>2, <2>11, <2>13, <2>14, HeldAfter
  <2>16. \E q \in Res : Held' = [x \in DOMAIN Held \cup {target} |-> IF x = target THEN q ELSE Held[x]]
    BY <2>10, <2>15
  <2>17. Res = AbstractSet!Res
    BY DEF Res, AbstractSet!Res, PING_OK, PING_SEND_FAIL, PING_ERROR_OCCUR,
       AbstractSet!PING_OK, AbstractSet!PING_SEND_FAIL, AbstractSet!PING_ERROR_OCCUR
  <2>18. QED
    BY <1>1, <2>9, <2>16, <2>17 DEF AbstractSet!Add, AbstractSet!Tracked
<1>4. QED
  BY <1>2, <1>3 DEF AddExit

(* The entry that del drops is the one it marked, or the entry of the      *)
(* largest address, when that is tracked and the mark took its place.      *)
LEMMA DelIsDel == IInv /\ IInv' /\ DelExit => \E a \in Addr : AbstractSet!Del(a)
<1> SUFFICES ASSUME IInv, IInv', DelExit PROVE AbstractSet!Del(target) /\ target \in Addr
  OBVIOUS
<1>1. pc = "exit" /\ ret' = 0 /\ target \in Addr
  BY DEF DelExit, Return, IInv, TypeOK
<1>2. PICK rest : rest = DOMAIN Held \ {target}
  OBVIOUS
<1>3. CASE index < 0 /\ UNCHANGED <<ping_addr, offset>>
  <2>1. UNCHANGED Held
    BY <1>3, SameEntries
  <2>2. rest = DOMAIN Held
    BY <1>1, <1>2, <1>3, SearchAnswers
  <2>3. Held' = [b \in rest |-> Held[b]]
    BY <2>1, <2>2, HeldIsFunction
  <2>4. QED
    BY <1>1, <1>2, <2>3 DEF AbstractSet!Del, AbstractSet!Tracked
<1>4. CASE /\ index >= 0
           /\ ping_addr' \in
                ping_addr_sort([ping_addr EXCEPT ![index].ia = Bcast], offset)
           /\ offset' = offset - 1
  <2>1. PICK b, c, n, last : /\ b = ping_addr' /\ n = offset /\ last = offset - 1
                             /\ c = [ping_addr EXCEPT ![index].ia = Bcast]
    OBVIOUS
  <2>2. /\ index \in InUse /\ ping_addr[index].ia = target
        /\ target \in DOMAIN Held /\ Held[target] = ping_addr[index].res
    BY <1>1, <1>4, SearchAnswers
  <2>3. /\ n \in 0 .. num /\ num \in Nat /\ InUse = 0 .. n-1 /\ last \in InUse /\ last = offset'
        /\ 0 .. last-1 = InUse \ {last} /\ \A i \in InUse : i \in Nat /\ i <= last
    BY <1>4, <2>1, <2>2, InUseTyped DEF InUse
  <2>4. ping_addr[index] \in Entry /\ index \in 0 .. num-1
    BY <2>2, InUseTyped
  <2>5. /\ c[index].ia = Bcast /\ c[index].res = ping_addr[index].res
        /\ \A k \in InUse \ {index} : c[k] = ping_addr[k]
    BY <2>1, <2>4, InUseTyped DEF Entry
  <2>6. c \in [0 .. num-1 -> Entry]
    <3>1. [ping_addr[index] EXCEPT !.ia = Bcast] \in Entry
      BY <2>4 DEF Entry
    <3>2. QED
      BY <2>1, <2>4, <3>1, InUseTyped
  <2>7. b \in ping_addr_sort(c, n)
    BY <1>4, <2>1
  <2>8. PICK p : /\ \A i \in InUse : p[i] \in InUse /\ b[i] = c[p[i]]
                 /\ \A i, k \in InUse : p[i] = p[k] => i = k
                 /\ \A k \in InUse : \E i \in InUse : p[i] = k
    <3>1. n \in Nat /\ \A i \in 0 .. n-1 : i \in DOMAIN c
      BY <2>3, <2>6
    <3>2. PICK p : Rearranges(b, c, n, p)
      BY <2>7, <3>1, SortHolds
    <3>3. /\ \A i \in 0 .. n-1 : p[i] \in 0 .. n-1 /\ b[i] = c[p[i]]
          /\ \A i, k \in 0 .. n-1 : p[i] = p[k] => i = k
          /\ \A k \in 0 .. n-1 : \E i \in 0 .. n-1 : p[i] = k
      BY <3>2 DEF Rearranges
    <3>4. InUse = 0 .. n-1
      BY <2>3
    <3>5. QED
      BY <3>3, <3>4
  <2>9. PICK q : q = p[last]
    OBVIOUS
  <2>10. q \in InUse /\ c[q].ia = Bcast
    <3>1. /\ b \in [0 .. num-1 -> Entry]
          /\ \A i, k \in 0 .. n-1 : i < k => b[i].ia <= b[k].ia
      BY <2>3, <2>6, <2>7, SortFacts
    <3>2. PICK i \in InUse : p[i] = index
      BY <2>2, <2>8
    <3>3. b[i].ia = Bcast
      BY <2>5, <2>8, <3>2
    <3>4. b[last].ia \in Nat /\ b[last].ia <= Bcast
      <4>1. b[last] \in Entry
        BY <2>3, <3>1, InUseTyped
      <4>2. QED
        BY <4>1, EntryKey
    <3>5. i = last \/ b[i].ia <= b[last].ia
      BY <2>3, <3>1
    <3>6. PICK x : x = b[last].ia
      OBVIOUS
    <3>7. x \in Nat /\ Bcast \in Nat /\ x <= Bcast /\ Bcast <= x
      BY <3>3, <3>4, <3>5, <3>6, TableAssumption DEF TableAssumption
    <3>8. b[last].ia = Bcast
      BY <3>6, <3>7
    <3>9. QED
      BY <2>3, <2>8, <2>9, <3>8
  <2>11. \A i \in InUse \ {last} : p[i] \in InUse \ {q} /\ b[i] = c[p[i]]
    BY <2>3, <2>8, <2>9
  <2>12. \A k \in InUse \ {q} : \E i \in InUse \ {last} : p[i] = k
    BY <2>8, <2>9
  <2>13. \A k \in InUse \ {index} : ping_addr[k].ia # target
    BY <2>2, SortedHasNone DEF Distinct, InUse
  <2>14. ASSUME NEW V, V = [x \in rest |-> V[x]],
                \A k \in InUse \ {q} : c[k].ia \in rest /\ V[c[k].ia] = c[k].res,
                \A x \in rest : \E k \in InUse \ {q} : c[k].ia = x
         PROVE  Held' = V
    <3>1. \A i \in 0 .. last-1 : b[i].ia \in rest /\ V[b[i].ia] = b[i].res
      BY <2>3, <2>11, <2>14
    <3>2. \A x \in rest : \E i \in 0 .. last-1 : b[i].ia = x
      BY <2>3, <2>11, <2>12, <2>14
    <3>3. {b[i].ia : i \in 0 .. last-1} = rest
      BY <3>1, <3>2
    <3>4. \A i \in 0 .. last-1 : V[b[i].ia] = b[i].res
      BY <3>1
    <3>5. b = ping_addr' /\ last = offset' /\ V = [x \in rest |-> V[x]]
      BY <2>1, <2>3, <2>14
    <3>6. IInv'
      OBVIOUS
    <3>7. QED
      BY ONLY <3>3, <3>4, <3>5, <3>6, HeldAfter
  <2>15. ASSUME NEW k \in InUse \ {index}
         PROVE  /\ c[k] = ping_addr[k] /\ c[k].ia \in rest
                /\ Held[c[k].ia] = c[k].res
    BY <1>2, <2>5, <2>13, <2>15, HeldEntry
  <2>16. ASSUME NEW x \in rest
         PROVE  \E k \in InUse \ {index} : c[k].ia = x
    <3>1. PICK k \in InUse : ping_addr[k].ia = x
      BY <1>2, <2>16, HeldBy
    <3>2. k # index
      BY <1>2, <2>2, <2>16, <3>1
    <3>3. QED
      BY <2>5, <3>1, <3>2
  <2>17. CASE q = index
    <3>1. PICK V : V = [x \in rest |-> Held[x]]
      OBVIOUS
    <3>2. Held' = V
      BY <2>14, <2>15, <2>16, <2>17, <3>1
    <3>3. QED
      BY <1>1, <1>2, <3>1, <3>2 DEF AbstractSet!Del, AbstractSet!Tracked
  <2>18. CASE q # index
    <3>1. c[q] = ping_addr[q] /\ Bcast \in rest /\ ping_addr[q].ia = Bcast
      BY <2>10, <2>15, <2>18
    <3>2. PICK V : V = [x \in rest |-> IF x = Bcast THEN Held[target] ELSE Held[x]]
      OBVIOUS
    <3>3. ASSUME NEW k \in InUse \ {q}
          PROVE  c[k].ia \in rest /\ V[c[k].ia] = c[k].res
      <4>1. CASE k = index
        BY <2>2, <2>5, <3>1, <3>2, <4>1
      <4>2. CASE k # index
        <5>1. ping_addr[k].ia # ping_addr[q].ia
          BY <2>10, <3>3, SortedHasNone DEF Distinct, InUse
        <5>2. c[k] = ping_addr[k] /\ c[k].ia \in rest /\ Held[c[k].ia] = c[k].res
          BY <2>15, <3>3, <4>2
        <5>3. QED
          BY <3>1, <3>2, <5>1, <5>2
      <4>3. QED
        BY <4>1, <4>2
    <3>4. ASSUME NEW x \in rest
          PROVE  \E k \in InUse \ {q} : c[k].ia = x
      <4>1. CASE x = Bcast
        BY <2>2, <2>5, <2>18, <4>1
      <4>2. CASE x # Bcast
        <5>1. PICK k \in InUse \ {index} : c[k].ia = x
          BY <2>16
        <5>2. k # q
          BY <2>10, <4>2, <5>1
        <5>3. QED
          BY <5>1, <5>2
      <4>3. QED
        BY <4>1, <4>2
    <3>5. V = [x \in rest |-> V[x]]
      BY <3>2
    <3>6. Held' = V
      BY <2>14, <3>3, <3>4, <3>5
    <3>7. QED
      BY <1>1, <1>2, <2>2, <3>1, <3>2, <3>6 DEF AbstractSet!Del, AbstractSet!Tracked
  <2>19. QED
    BY <2>17, <2>18
<1>5. QED
  BY <1>3, <1>4 DEF DelExit

-----------------------------------------------------------------------------
(* The step of a call that does not end it shows nothing.                  *)
LEMMA EnterShowsNothing ==
  ASSUME IInv, NEW a \in Addr, NEW v,
         AddEnter(a) \/ DelEnter(a) \/ GetEnter(a) \/ RecvEnter(a, v)
  PROVE  UNCHANGED <<Held, ret>>
<1>1. UNCHANGED <<offset, ret>>
  BY DEF AddEnter, DelEnter, GetEnter, RecvEnter
<1>2. UNCHANGED ping_addr \/ ping_addr' = Doubled
  BY DEF AddEnter, DelEnter, GetEnter, RecvEnter
<1>3. \A i \in InUse : ping_addr'[i] = ping_addr[i]
  <2>1. CASE UNCHANGED ping_addr
    BY <2>1
  <2>2. CASE ping_addr' = Doubled
    <3>1. \A i \in InUse : i \in 0 .. 2*num - 1 /\ i < num
      BY InUseTyped DEF InUse
    <3>2. QED
      BY <2>2, <3>1 DEF Doubled
  <2>3. QED
    BY <1>2, <2>1, <2>2
<1>4. QED
  BY <1>1, <1>3, SameEntries

(* A round of the search changes its window only.                          *)
LEMMA SearchShowsNothing ==
  ASSUME IInv, Search \/ UNCHANGED vars
  PROVE  UNCHANGED <<Held, ret>>
<1>1. UNCHANGED <<offset, ping_addr, ret>>
  BY DEF Search, SearchHit, SearchLower, SearchUpper, SearchMiss, vars
<1>2. QED
  BY <1>1, SameEntries

(* An add that finds no memory changes nothing.                            *)
LEMMA AddFailsShown ==
  ASSUME IInv, NEW a \in Addr, AddNoMemory(a)
  PROVE  AbstractSet!AddFails
<1>1. UNCHANGED <<offset, ping_addr>> /\ ret' = -1
  BY DEF AddNoMemory
<1>2. UNCHANGED Held
  BY <1>1, SameEntries
<1>3. QED
  BY <1>1, <1>2 DEF AbstractSet!AddFails

(* Every step of the table is a step of the set, or shows nothing.         *)
LEMMA StepRefines == IInv /\ IInv' /\ [Next]_vars => [AbstractSet!Next]_(AbstractSet!vars)
<1> SUFFICES ASSUME IInv, IInv', [Next]_vars
             PROVE  AbstractSet!Next \/ UNCHANGED <<Held, ret>>
  BY DEF AbstractSet!vars
<1>1. CASE \E a \in Addr : AddEnter(a) \/ AddNoMemory(a) \/ DelEnter(a) \/ GetEnter(a)
  BY <1>1, EnterShowsNothing, AddFailsShown DEF AbstractSet!Next
<1>2. CASE \E a \in Addr, v \in Verdict : RecvEnter(a, v)
  BY <1>2, EnterShowsNothing
<1>3. CASE Search \/ UNCHANGED vars
  BY <1>3, SearchShowsNothing
<1>4. CASE Exit
  <2>1. CASE AddExit
    BY <2>1, AddIsAdd DEF AbstractSet!Next
  <2>2. CASE DelExit
    BY <2>2, DelIsDel DEF AbstractSet!Next
  <2>3. CASE GetExit
    BY <2>3, GetIsGet DEF AbstractSet!Next
  <2>4. CASE RecvExit
    BY <2>4, RecvIsReceive
    DEF AbstractSet!Next, PING_OK, PING_ERROR_OCCUR, AbstractSet!PING_OK,
        AbstractSet!PING_ERROR_OCCUR
  <2>5. QED
    BY <1>4, <2>1, <2>2, <2>3, <2>4 DEF Exit
<1>5. CASE ping_send
  BY <1>5, SendIsSend DEF AbstractSet!Next
<1>6. CASE ping_clear_addr_resp
  BY <1>6, ClearIsClear DEF AbstractSet!Next
<1>7. QED
  BY <1>1, <1>2, <1>3, <1>4, <1>5, <1>6 DEF Next

(* ping_addr_init leaves the empty set.                                    *)
LEMMA InitRefines == Init => AbstractSet!Init
<1> SUFFICES ASSUME Init PROVE AbstractSet!Init
  OBVIOUS
<1>1. InUse = {} /\ ret = 0
  BY DEF Init, InUse
<1>2. TrackedAddrs = {}
  BY <1>1 DEF TrackedAddrs
<1>3. Held = [a \in {} |-> 0]
  BY <1>2 DEF Held
<1>4. QED
  BY <1>1, <1>3 DEF AbstractSet!Init

(* The sorted array with its binary search does for its callers what the   *)
(* set of tracked addresses does, call by call.                            *)
THEOREM TableIsSet == Spec => ImplementsSet
<1>1. Spec => []IInv
  BY IInvAlways
<1>2. QED
  BY <1>1, InitRefines, StepRefines, PTL DEF Spec, ImplementsSet, AbstractSet!Spec

=============================================================================
