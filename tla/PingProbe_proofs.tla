--------------------------- MODULE PingProbe_proofs ---------------------------
(***************************************************************************)
(* The two programs that probe once, on any network: the search of their   *)
(* table is exact and its sort keeps it so, the last packet from an        *)
(* address decides its result, and the report accounts for every address.  *)
(* The invariant behind it is ProbeInv.                                    *)
(***************************************************************************)
EXTENDS PingProbe, FiniteSetTheorems, WellFoundedInduction, TLAPS

-----------------------------------------------------------------------------
(* Why.  The entries in use are ascending, so the search is exact, and     *)
(* nothing but a result is written to them after the send.  Until then     *)
(* there is no result; from then on an entry holds what the last packet    *)
(* from its address says.  With one address and no other traffic, the one  *)
(* packet ping3 reads is the reply.                                        *)
Packets   == {Packet(a, k) : a \in Hosts \cup Strangers, k \in {"reply", "request", "other"}}
Waiting   == {queue[n] : n \in DOMAIN queue}
Ascending == \A k, l \in InUse : k < l => ping_addr[k].ia < ping_addr[l].ia
Adding    == pc \in {"init", "add", "send"}

ProbeTypes ==
  /\ pc \in {"init", "add", "send", "recv", "set", "show", "free", "done", "exit"}
  /\ prog \in {"ping_main", "ping3"} /\ todo \subseteq Hosts /\ offset \in 0 .. Num
  /\ ping_addr \in [Array -> [ia : Nat, res : -1 .. 4]]
  /\ shown \in [{"total", "ok", "error", "send_fail", "not_recv"} -> 0 .. Num]
  /\ queue \in Seq(Packets) /\ log \in Seq(Packets)
  /\ net \in [out : SUBSET Hosts, strays : Nat, dups : Nat]

InTable ==
  /\ Ascending /\ \A k \in InUse : ping_addr[k].ia \in Hosts /\ ping_addr[k].res \in 0 .. 4
  /\ todo \cap Tracked = {} /\ (prog = "ping_main" => Own \notin Tracked \cup todo)
  /\ Adding =>
       /\ queue = <<>> /\ log = <<>> /\ net.out = {} /\ net.strays = 0 /\ net.dups = 0
       /\ \A k \in InUse : ping_addr[k].res = 0
       /\ \A k \in Array \ InUse : ping_addr[k] = IF k = -1 THEN Heap ELSE Zero
       /\ pc = "send" => todo = {}

(* n is the last packet from a.                                            *)
LastFrom(a, n) ==
  /\ n \in DOMAIN log /\ log[n].from = a
  /\ \A k \in DOMAIN log : log[k].from = a => k <= n

Decided ==
  pc \in {"recv", "set", "show"} /\ Pid < 2^16 =>
    \A k \in InUse :
      \/ /\ \A n \in DOMAIN log : log[n].from # ping_addr[k].ia
         /\ ping_addr[k].res \in {0, PING_SEND_FAIL, PING_NOT_RECEIVE}
      \/ \E n \in DOMAIN log :
           /\ LastFrom(ping_addr[k].ia, n)
           /\ ping_addr[k].res =
                IF log[n] = Packet(ping_addr[k].ia, "reply") THEN PING_OK ELSE PING_ERROR_OCCUR

Marked ==
  /\ prog = "ping_main" /\ pc = "show" => \A k \in InUse : ping_addr[k].res \in 1 .. 4
  /\ prog = "ping3" => pc # "set"
  /\ prog = "ping_main" => pc # "free"

OneAsked ==
  prog = "ping3" =>
    /\ pc \in {"init", "add"} => offset = 0 /\ \E a \in Targets : todo = {a}
    /\ pc \in {"send", "recv", "show", "free"} => offset = 1
    /\ net.strays = 0 /\ Own \notin Tracked /\ Pid < 2^16 =>
         /\ pc = "recv" => /\ net.out \subseteq Tracked
                           /\ \A p \in Waiting : IsReply(p) /\ p.from \in Tracked
         /\ pc = "show" => ping_addr[0].res = PING_OK
         /\ pc = "free" => shown.ok = 1

ProbeInv ==
  /\ ProbeTypes /\ InTable /\ Decided /\ Marked /\ OneAsked
  /\ CountsAddUp /\ OutsideOnlyByStranger

-----------------------------------------------------------------------------
(* The binary search.  The recursive function exists, because each call is *)
(* for a smaller window, and by the same argument it is exact: a window    *)
(* on which it were not would contain a smaller one.                       *)

(* Every set of naturals that is not empty has a least element.            *)
LEMMA LeastNatural ==
  ASSUME NEW S \in SUBSET Nat, S # {}
  PROVE  \E n \in S : \A m \in S : n <= m
<1> DEFINE R == OpToRel(<, Nat)
<1>1. IsWellFoundedOn(R, Nat)
  BY NatLessThanWellFounded
<1>2. \A x, y \in Nat : <<x, y>> \in R <=> x < y
  BY DEF OpToRel
<1> HIDE DEF R
<1>3. PICK x \in S : \A y \in S : <<y, x>> \notin R
  BY <1>1, WFMin
<1>4. \A y \in S : x \in Nat /\ y \in Nat /\ ~(y < x)
  BY <1>2, <1>3
<1>5. \A y \in S : x <= y
  BY <1>4
<1>6. QED
  BY <1>3, <1>5

(* The middle of a window is in it.                                        *)
LEMMA MidInWindow ==
  ASSUME NEW l \in Int, NEW r \in Int, l <= r
  PROVE  mid(l, r) \in Int /\ l <= mid(l, r) /\ mid(l, r) <= r
  BY DEF mid

(* One turn of the loop, f being what the turns on smaller windows return. *)
Turn(f, t, target, w) ==
  LET m == mid(w[1], w[2]) IN
    IF w[1] > w[2] THEN -1
    ELSE IF t[m].ia = target THEN m
    ELSE IF t[m].ia > target THEN f[<<w[1], m - 1>>]
    ELSE f[<<m + 1, w[2]>>]

(* A turn looks at smaller windows only.                                   *)
LEMMA TurnLooksInside ==
  ASSUME NEW f, NEW g, NEW t, NEW target, NEW w \in Windows,
         \A v \in Windows : v[2] - v[1] < w[2] - w[1] => f[v] = g[v]
  PROVE  Turn(f, t, target, w) = Turn(g, t, target, w)
<1>1. Num \in Nat /\ w[1] \in 0 .. Num /\ w[2] \in -1 .. Num - 1
  BY ProbeAssumption DEF ProbeAssumption, Windows, Array
<1>2. CASE w[1] > w[2]
  BY <1>2 DEF Turn
<1>3. CASE w[1] <= w[2]
  <2> DEFINE m == mid(w[1], w[2])
  <2>1. m \in Int /\ w[1] <= m /\ m <= w[2]
    <3>1. w[1] \in Int /\ w[2] \in Int
      BY <1>1
    <3>2. QED
      BY <1>3, <3>1, MidInWindow
  <2> HIDE DEF m
  <2>2. /\ <<w[1], m - 1>> \in Windows /\ <<w[1], m - 1>>[2] = m - 1 /\ <<w[1], m - 1>>[1] = w[1]
        /\ <<m + 1, w[2]>> \in Windows /\ <<m + 1, w[2]>>[2] = w[2] /\ <<m + 1, w[2]>>[1] = m + 1
    BY <1>1, <2>1 DEF Windows, Array
  <2>3. (m - 1) - w[1] < w[2] - w[1] /\ w[2] - (m + 1) < w[2] - w[1]
    BY <1>1, <2>1
  <2>4. f[<<w[1], m - 1>>] = g[<<w[1], m - 1>>] /\ f[<<m + 1, w[2]>>] = g[<<m + 1, w[2]>>]
    BY <2>2, <2>3
  <2>5. QED
    BY <2>4 DEF Turn, m
<1>4. QED
  BY <1>1, <1>2, <1>3

(* There is a function that is one turn of itself on every window.         *)
LEMMA SearchExists ==
  ASSUME NEW t, NEW target
  PROVE  \E f : f = [w \in Windows |-> Turn(f, t, target, w)]
<1> DEFINE UpTo(f, n) ==
             /\ f = [w \in Windows |-> f[w]]
             /\ \A w \in Windows : w[2] - w[1] < n => f[w] = Turn(f, t, target, w)
           Bad == {n \in Nat : ~ \E f : UpTo(f, n)}
<1>1. \A w \in Windows : w[2] - w[1] \in Int /\ w[2] - w[1] < Num + 1 /\ w[1] \in Int /\ w[2] \in Int
  BY ProbeAssumption DEF ProbeAssumption, Windows, Array
<1>2. 0 \notin Bad
  <2> DEFINE f == [w \in Windows |-> -1]
  <2>1. \A w \in Windows : w[2] - w[1] < 0 => w[1] > w[2]
    BY <1>1
  <2>2. \A w \in Windows : w[2] - w[1] < 0 => f[w] = Turn(f, t, target, w)
    BY <2>1 DEF Turn
  <2>3. UpTo(f, 0)
    BY <2>2
  <2>4. QED
    BY <2>3
<1>3. ASSUME NEW n \in Nat, n + 1 \in Bad PROVE n \in Bad
  <2> SUFFICES ASSUME NEW f, UpTo(f, n) PROVE FALSE
    BY <1>3
  <2> DEFINE g == [w \in Windows |-> IF w[2] - w[1] < n THEN f[w] ELSE Turn(f, t, target, w)]
  <2>1. \A v \in Windows : v[2] - v[1] < n => g[v] = f[v]
    OBVIOUS
  <2>2. ASSUME NEW w \in Windows, w[2] - w[1] < n + 1 PROVE g[w] = Turn(g, t, target, w)
    <3>1. g[w] = Turn(f, t, target, w)
      OBVIOUS
    <3>2. \A v \in Windows : v[2] - v[1] < w[2] - w[1] => f[v] = g[v]
      BY <1>1, <2>1, <2>2
    <3> HIDE DEF g
    <3>3. QED
      BY <3>1, <3>2, TurnLooksInside
  <2>3. UpTo(g, n + 1)
    BY <2>2
  <2>4. QED
    BY <1>3, <2>3
<1>4. Bad = {}
  <2> SUFFICES ASSUME Bad # {} PROVE FALSE
    OBVIOUS
  <2> HIDE DEF UpTo
  <2>1. PICK n \in Bad : \A m \in Bad : n <= m
    BY LeastNatural
  <2>2. n \in Nat \ {0}
    BY <1>2
  <2>3. n - 1 \in Nat /\ (n - 1) + 1 = n
    BY <2>2
  <2>4. n - 1 \in Bad
    BY <1>3, <2>3
  <2>5. QED
    BY <2>1, <2>2, <2>4
<1>5. PICK f : UpTo(f, Num + 1)
  <2>1. Num + 1 \in Nat
    BY ProbeAssumption DEF ProbeAssumption
  <2> HIDE DEF UpTo
  <2>2. QED
    BY <1>4, <2>1
<1>6. \A w \in Windows : f[w] = Turn(f, t, target, w)
  BY <1>1, <1>5
<1>7. f = [w \in Windows |-> Turn(f, t, target, w)]
  BY <1>5, <1>6
<1>8. QED
  BY <1>7

(* What the search returns.                                                *)
LEMMA SearchTurns ==
  ASSUME NEW target
  PROVE  \E f : /\ \A w \in Windows : f[w] = Turn(f, ping_addr, target, w)
                /\ ping_addr_binary_search(target) = f[<<0, Last>>]
<1> DEFINE f == CHOOSE find : find = [w \in Windows |-> Turn(find, ping_addr, target, w)]
<1>1. f = [w \in Windows |-> Turn(f, ping_addr, target, w)]
  BY SearchExists
<1>2. ping_addr_binary_search(target) = f[<<0, Last>>]
  BY DEF ping_addr_binary_search, Turn
<1> HIDE DEF f
<1>3. \A w \in Windows : f[w] = Turn(f, ping_addr, target, w)
  BY <1>1
<1>4. QED
  BY <1>2, <1>3

(* With the entries in use ascending, the search is exact.                 *)
THEOREM SearchIsExact ==
  ASSUME ProbeTypes, Ascending, NEW target \in Nat
  PROVE  LET found == ping_addr_binary_search(target) IN
         /\ found \in Array
         /\ target \in Tracked => found \in InUse /\ ping_addr[found].ia = target
         /\ target \notin Tracked => found = -1
<1>1. PICK f : /\ \A w \in Windows : f[w] = Turn(f, ping_addr, target, w)
               /\ ping_addr_binary_search(target) = f[<<0, Last>>]
  BY SearchTurns
<1>2. /\ offset \in 0 .. Num /\ Num \in Nat /\ InUse = 0 .. offset - 1
      /\ \A i \in InUse : ping_addr[i].ia \in Nat
  BY ProbeAssumption DEF ProbeTypes, ProbeAssumption, InUse, Array
<1> DEFINE Exact(w) ==
             \/ f[w] \in w[1] .. w[2] /\ ping_addr[f[w]].ia = target
             \/ f[w] = -1 /\ \A i \in w[1] .. w[2] : ping_addr[i].ia # target
           Wrong == {w \in Windows : w[2] <= Last /\ ~Exact(w)}
           Sizes == {n \in Nat : \E w \in Wrong : w[2] - w[1] = n}
<1>3. \A w \in Windows : w[1] \in 0 .. Num /\ w[2] \in -1 .. Num - 1
  BY DEF Windows, Array
<1>4. ASSUME NEW w \in Wrong,
             \A v \in Windows : v[2] <= Last /\ v[2] - v[1] < w[2] - w[1] => Exact(v)
      PROVE  FALSE
  <2>1. w[1] \in 0 .. Num /\ w[2] \in -1 .. Num - 1 /\ w[2] <= Last /\ w \in Windows
    BY <1>3
  <2>2. f[w] = Turn(f, ping_addr, target, w)
    BY <1>1
  <2>3. CASE w[1] > w[2]
    <3>1. w[1] .. w[2] = {}
      BY <2>1, <2>3
    <3>2. f[w] = -1
      BY <2>2, <2>3 DEF Turn
    <3>3. QED
      BY <1>4, <3>1, <3>2
  <2>4. CASE w[1] <= w[2]
    <3> DEFINE m == mid(w[1], w[2])
    <3>1. m \in Int /\ w[1] <= m /\ m <= w[2]
      <4>1. w[1] \in Int /\ w[2] \in Int
        BY <2>1
      <4>2. QED
        BY <2>4, <4>1, MidInWindow
    <3> HIDE DEF m
    <3>0. ~(w[1] > w[2])
      BY <2>1, <2>4
    <3>2. w[1] .. w[2] \subseteq InUse /\ m \in InUse
      BY <1>2, <2>1, <3>1 DEF Last
    <3>3. CASE ping_addr[m].ia = target
      <4>1. f[w] = m
        BY <2>2, <3>0, <3>3 DEF Turn, m
      <4>2. QED
        BY <1>4, <2>1, <3>1, <3>3, <4>1
    <3>4. CASE ping_addr[m].ia # target /\ ping_addr[m].ia > target
      <4> DEFINE v == <<w[1], m - 1>>
      <4>1. v \in Windows /\ v[1] = w[1] /\ v[2] = m - 1
        BY <1>2, <2>1, <3>1 DEF Windows, Array
      <4>2. f[w] = f[v]
        BY <2>2, <3>0, <3>4 DEF Turn, m
      <4> HIDE DEF v
      <4>3. v[2] <= Last /\ v[2] - v[1] < w[2] - w[1]
        BY <1>2, <2>1, <3>1, <4>1 DEF Last
      <4>4. Exact(v)
        BY <1>4, <4>1, <4>3
      <4>5. \A i \in m .. w[2] : ping_addr[i].ia # target
        <5> SUFFICES ASSUME NEW i \in m .. w[2] PROVE ping_addr[i].ia # target
          OBVIOUS
        <5>1. i \in InUse /\ (i = m \/ m < i)
          BY <2>1, <3>1, <3>2
        <5>2. i = m \/ ping_addr[m].ia < ping_addr[i].ia
          BY <3>2, <5>1 DEF Ascending
        <5>3. ping_addr[m].ia \in Nat /\ ping_addr[i].ia \in Nat
          BY <1>2, <3>2, <5>1
        <5>4. QED
          BY <3>4, <5>2, <5>3
      <4>6. CASE f[v] \in v[1] .. v[2] /\ ping_addr[f[v]].ia = target
        <5>1. f[w] \in w[1] .. w[2]
          BY <2>1, <3>1, <4>1, <4>2, <4>6
        <5>2. QED
          BY <1>4, <4>2, <4>6, <5>1
      <4>7. CASE f[v] = -1 /\ \A i \in v[1] .. v[2] : ping_addr[i].ia # target
        <5>1. \A i \in w[1] .. w[2] : i \in v[1] .. v[2] \/ i \in m .. w[2]
          BY <2>1, <3>1, <4>1
        <5>2. QED
          BY <1>4, <4>2, <4>5, <4>7, <5>1
      <4>8. QED
        BY <4>4, <4>6, <4>7
    <3>5. CASE ping_addr[m].ia # target /\ ~(ping_addr[m].ia > target)
      <4> DEFINE v == <<m + 1, w[2]>>
      <4>1. v \in Windows /\ v[1] = m + 1 /\ v[2] = w[2]
        BY <1>2, <2>1, <3>1 DEF Windows, Array
      <4>2. f[w] = f[v]
        BY <2>2, <3>0, <3>5 DEF Turn, m
      <4> HIDE DEF v
      <4>3. v[2] <= Last /\ v[2] - v[1] < w[2] - w[1]
        BY <1>2, <2>1, <3>1, <4>1 DEF Last
      <4>4. Exact(v)
        BY <1>4, <4>1, <4>3
      <4>5. \A i \in w[1] .. m : ping_addr[i].ia # target
        <5> SUFFICES ASSUME NEW i \in w[1] .. m PROVE ping_addr[i].ia # target
          OBVIOUS
        <5>1. i \in InUse /\ (i = m \/ i < m)
          BY <2>1, <3>1, <3>2
        <5>2. i = m \/ ping_addr[i].ia < ping_addr[m].ia
          BY <3>2, <5>1 DEF Ascending
        <5>3. ping_addr[m].ia \in Nat /\ ping_addr[i].ia \in Nat
          BY <1>2, <3>2, <5>1
        <5>4. QED
          BY <3>5, <5>2, <5>3
      <4>6. CASE f[v] \in v[1] .. v[2] /\ ping_addr[f[v]].ia = target
        <5>1. f[w] \in w[1] .. w[2]
          BY <2>1, <3>1, <4>1, <4>2, <4>6
        <5>2. QED
          BY <1>4, <4>2, <4>6, <5>1
      <4>7. CASE f[v] = -1 /\ \A i \in v[1] .. v[2] : ping_addr[i].ia # target
        <5>1. \A i \in w[1] .. w[2] : i \in v[1] .. v[2] \/ i \in w[1] .. m
          BY <2>1, <3>1, <4>1
        <5>2. QED
          BY <1>4, <4>2, <4>5, <4>7, <5>1
      <4>8. QED
        BY <4>4, <4>6, <4>7
    <3>6. QED
      BY <3>3, <3>4, <3>5
  <2>5. QED
    BY <2>1, <2>3, <2>4
<1>5. Wrong = {}
  <2> HIDE DEF Exact
  <2>1. ASSUME NEW w \in Wrong, w[2] - w[1] \notin Nat PROVE FALSE
    <3>1. w[1] > w[2]
      BY <1>3, <2>1
    <3>2. w[1] .. w[2] = {}
      BY <1>3, <3>1
    <3>3. f[w] = -1
      BY <1>1, <3>1 DEF Turn
    <3>4. QED
      BY <3>2, <3>3 DEF Exact
  <2>2. ASSUME Sizes # {} PROVE FALSE
    <3>1. PICK n \in Sizes : \A k \in Sizes : n <= k
      BY <2>2, LeastNatural
    <3>2. PICK w \in Wrong : w[2] - w[1] = n
      BY <3>1
    <3>3. ASSUME NEW v \in Windows, v[2] <= Last, v[2] - v[1] < w[2] - w[1], ~Exact(v) PROVE FALSE
      <4>1. v \in Wrong
        BY <3>3
      <4>2. v[2] - v[1] \in Sizes
        BY <2>1, <4>1
      <4>3. QED
        BY <3>1, <3>2, <3>3, <4>2
    <3>4. QED
      BY <1>4, <3>3
  <2>3. QED
    BY <2>1, <2>2
<1>6. <<0, Last>> \in Windows /\ <<0, Last>>[1] = 0 /\ <<0, Last>>[2] = Last /\ Last \in Int
  BY <1>2 DEF Windows, Array, Last
<1>7. Exact(<<0, Last>>)
  <2> HIDE DEF Exact
  <2>1. <<0, Last>> \notin Wrong /\ Last <= Last
    BY <1>5, <1>6
  <2>2. QED
    BY <1>6, <2>1
<1>8. 0 .. Last = InUse /\ InUse \subseteq Array /\ -1 \in Array
  BY <1>2 DEF Last, InUse, Array
<1>9. QED
  BY <1>1, <1>6, <1>7, <1>8 DEF Tracked

-----------------------------------------------------------------------------
(* The sort.  Entries with different addresses have different ranks, so    *)
(* there is one for each place.                                            *)
LEMMA SortAscends ==
  ASSUME NEW n \in 0 .. Num, NEW t \in [Array -> [ia : Nat, res : -1 .. 4]],
         \A k, l \in 0 .. n - 1 : t[k].ia = t[l].ia => k = l
  PROVE  LET s == ping_addr_sort(t, n) IN
         /\ s \in [Array -> [ia : Nat, res : -1 .. 4]]
         /\ \A i \in Array : i \notin 0 .. n - 1 => s[i] = t[i]
         /\ {s[i] : i \in 0 .. n - 1} = {t[i] : i \in 0 .. n - 1}
         /\ \A k, l \in 0 .. n - 1 : k < l => s[k].ia < s[l].ia
<1> DEFINE E == {t[i] : i \in 0 .. n - 1}
           below(e) == {f \in E : f.ia < e.ia}
           rank(e) == Cardinality(below(e))
           s == ping_addr_sort(t, n)
<1>1. Num \in Nat /\ n \in Nat /\ 0 .. n - 1 \subseteq Array /\ Cardinality(0 .. n - 1) = n
      /\ IsFiniteSet(0 .. n - 1)
  <2>1. Num \in Nat /\ n \in Nat
    BY ProbeAssumption DEF ProbeAssumption
  <2>2. 0 .. n - 1 \subseteq Array
    BY <2>1 DEF Array
  <2>3. IsFiniteSet(0 .. n - 1) /\ Cardinality(0 .. n - 1) = IF 0 > n - 1 THEN 0 ELSE (n - 1) - 0 + 1
    BY <2>1, FS_Interval
  <2>4. QED
    BY <2>1, <2>2, <2>3
<1>2. /\ \A e \in E : e.ia \in Nat /\ e \in [ia : Nat, res : -1 .. 4]
      /\ \A e, f \in E : e.ia = f.ia => e = f
  BY <1>1
<1>3. IsFiniteSet(E) /\ Cardinality(E) = n
  <2> DEFINE g == [i \in 0 .. n - 1 |-> t[i]]
  <2>1. g \in Bijection(0 .. n - 1, E)
    BY DEF Bijection, Injection, Surjection, IsInjective
  <2> HIDE DEF g, E
  <2>2. ExistsBijection(0 .. n - 1, E)
    BY <2>1 DEF ExistsBijection
  <2>3. QED
    BY <1>1, <2>2, FS_Bijection
<1>4. s = [i \in Array |-> IF i \in 0 .. n - 1 THEN CHOOSE e \in E : rank(e) = i ELSE t[i]]
  BY DEF ping_addr_sort
<1> HIDE DEF s, E
<1>5. \A e \in E : IsFiniteSet(below(e)) /\ rank(e) \in Nat
  BY <1>3, FS_Subset, FS_CardinalityType
<1>6. \A e \in E : rank(e) < n
  <2> SUFFICES ASSUME NEW e \in E PROVE rank(e) < n
    OBVIOUS
  <2>1. below(e) \in SUBSET E /\ below(e) # E
    BY <1>2
  <2>2. rank(e) <= n /\ (rank(e) = n => below(e) = E)
    BY <1>3, <2>1, FS_Subset
  <2>3. rank(e) \in Nat
    BY <1>5
  <2> HIDE DEF rank, below
  <2>4. QED
    BY <1>1, <2>1, <2>2, <2>3
<1>7. ASSUME NEW e \in E, NEW f \in E, e.ia < f.ia PROVE rank(e) < rank(f)
  <2>1. below(e) \cup {e} \in SUBSET below(f) /\ e \notin below(e)
    BY <1>2, <1>7
  <2>2. IsFiniteSet(below(e)) /\ IsFiniteSet(below(f)) /\ rank(e) \in Nat /\ rank(f) \in Nat
    BY <1>5
  <2>3. Cardinality(below(e) \cup {e}) = rank(e) + 1
    BY <2>1, <2>2, FS_AddElement
  <2>4. Cardinality(below(e) \cup {e}) <= rank(f)
    BY <2>1, <2>2, FS_Subset
  <2>5. QED
    BY <2>2, <2>3, <2>4
<1>7a. \A e \in E : rank(e) \in 0 .. n - 1
  <2>1. \A e \in E : rank(e) \in Nat /\ rank(e) < n
    BY <1>5, <1>6
  <2> HIDE DEF rank
  <2>2. QED
    BY <1>1, <2>1
<1> HIDE DEF rank, below
<1>8. \A e, f \in E : rank(e) = rank(f) => e = f
  <2> SUFFICES ASSUME NEW e \in E, NEW f \in E, rank(e) = rank(f) PROVE e = f
    OBVIOUS
  <2>1. e.ia \in Nat /\ f.ia \in Nat /\ rank(e) \in Nat
    BY <1>2, <1>7a
  <2>2. ~(e.ia < f.ia) /\ ~(f.ia < e.ia)
    BY <1>7, <2>1
  <2>3. QED
    BY <1>2, <2>1, <2>2
<1>9. \A i \in 0 .. n - 1 : \E e \in E : rank(e) = i
  <2> DEFINE r == [e \in E |-> rank(e)]
  <2>1. \A e \in E : rank(e) \in 0 .. n - 1
    BY <1>7a
  <2>2. r \in Injection(E, 0 .. n - 1)
    BY <1>8, <2>1 DEF Injection, IsInjective
  <2> HIDE DEF r
  <2>3. r \in Surjection(E, 0 .. n - 1)
    BY <1>1, <1>3, <2>2, FS_Injection
  <2>4. QED
    BY <2>3 DEF Surjection, r
<1>10. \A i \in 0 .. n - 1 : s[i] \in E /\ rank(s[i]) = i
  <2> SUFFICES ASSUME NEW i \in 0 .. n - 1 PROVE s[i] \in E /\ rank(s[i]) = i
    OBVIOUS
  <2>1. s[i] = CHOOSE e \in E : rank(e) = i
    BY <1>1, <1>4
  <2>2. QED
    BY <1>9, <2>1
<1>11. s \in [Array -> [ia : Nat, res : -1 .. 4]]
  <2>1. \A i \in Array : s[i] \in [ia : Nat, res : -1 .. 4]
    BY <1>2, <1>4, <1>10
  <2>2. QED
    BY <1>4, <2>1
<1>12. \A i \in Array : i \notin 0 .. n - 1 => s[i] = t[i]
  BY <1>4
<1>13. {s[i] : i \in 0 .. n - 1} = E
  <2>1. ASSUME NEW e \in E PROVE \E i \in 0 .. n - 1 : s[i] = e
    <3>1. rank(e) \in 0 .. n - 1
      BY <1>7a
    <3>2. s[rank(e)] \in E /\ rank(s[rank(e)]) = rank(e)
      BY <1>10, <3>1
    <3>3. s[rank(e)] = e
      BY <1>8, <3>2
    <3>4. QED
      BY <3>1, <3>3
  <2>2. QED
    BY <1>10, <2>1
<1>14. \A k, l \in 0 .. n - 1 : k < l => s[k].ia < s[l].ia
  <2> SUFFICES ASSUME NEW k \in 0 .. n - 1, NEW l \in 0 .. n - 1, k < l PROVE s[k].ia < s[l].ia
    OBVIOUS
  <2>1. s[k] \in E /\ s[l] \in E /\ rank(s[k]) = k /\ rank(s[l]) = l
    BY <1>10
  <2>2. s[k].ia \in Nat /\ s[l].ia \in Nat
    BY <1>2, <2>1
  <2>3. ~(s[l].ia < s[k].ia)
    BY <1>7, <2>1
  <2>4. s[l].ia # s[k].ia
    BY <1>2, <2>1
  <2>5. QED
    BY <2>2, <2>3, <2>4
<1>15. QED
  BY <1>11, <1>12, <1>13, <1>14 DEF s, E

-----------------------------------------------------------------------------
(* Packets and the socket's buffer                                         *)

(* A packet tells where it comes from and what it is.                      *)
LEMMA PacketFields ==
  /\ \A a \in Hosts \cup Strangers, k \in {"reply", "request", "other"} :
       /\ Packet(a, k) \in Packets /\ Packet(a, k).from = a /\ Packet(a, k).kind = k
       /\ Packet(a, k).id = icmp_id
  /\ \A p \in Packets :
       /\ p.from \in Hosts \cup Strangers /\ p.from \in Nat /\ p = Packet(p.from, p.kind)
       /\ p.kind \in {"reply", "request", "other"}
  /\ Own \in Hosts /\ Hosts \subseteq Nat \ {0}
  BY ProbeAssumption DEF ProbeAssumption, Packets, Packet

(* With an id that the header has room for, the verdict on a packet is     *)
(* PING_OK exactly for a reply to this process.                            *)
LEMMA VerdictTells ==
  ASSUME Pid < 2^16, NEW p \in Packets
  PROVE  /\ IsReply(p) <=> p.kind = "reply"
         /\ Verdict(p) = IF p = Packet(p.from, "reply") THEN PING_OK ELSE PING_ERROR_OCCUR
<1>1. icmp_id = Pid
  BY ProbeAssumption DEF ProbeAssumption, icmp_id
<1>2. p = Packet(p.from, p.kind) /\ p.id = Pid
  BY <1>1, PacketFields DEF Packet
<1>3. IsReply(p) <=> p.kind = "reply"
  BY <1>2 DEF IsReply
<1>4. p.kind = "reply" <=> p = Packet(p.from, "reply")
  BY <1>2, PacketFields DEF Packet
<1>5. QED
  BY <1>3, <1>4 DEF Verdict

(* One more packet at the end of a list.                                   *)
LEMMA OneMore ==
  ASSUME NEW s \in Seq(Packets), NEW p \in Packets
  PROVE  LET t == Append(s, p) IN
         /\ t \in Seq(Packets) /\ Len(s) \in Nat /\ DOMAIN s = 1 .. Len(s)
         /\ DOMAIN t = 1 .. Len(s) + 1 /\ t[Len(s) + 1] = p
         /\ \A n \in DOMAIN s : t[n] = s[n] /\ s[n] \in Packets
         /\ {t[n] : n \in DOMAIN t} = {s[n] : n \in DOMAIN s} \cup {p}
<1> DEFINE t == Append(s, p)
<1>1. /\ t \in Seq(Packets) /\ Len(s) \in Nat /\ DOMAIN s = 1 .. Len(s)
      /\ DOMAIN t = 1 .. Len(s) + 1 /\ t[Len(s) + 1] = p
      /\ \A n \in DOMAIN s : t[n] = s[n] /\ s[n] \in Packets
  OBVIOUS
<1> HIDE DEF t
<1>2. DOMAIN t = DOMAIN s \cup {Len(s) + 1}
  BY <1>1
<1>3. {t[n] : n \in DOMAIN t} = {s[n] : n \in DOMAIN s} \cup {p}
  BY <1>1, <1>2
<1>4. QED
  BY <1>1, <1>3 DEF t

(* One packet fewer at the front.                                          *)
LEMMA OneFewer ==
  ASSUME NEW s \in Seq(Packets), s # <<>>
  PROVE  LET t == Tail(s) IN
         /\ t \in Seq(Packets) /\ Head(s) \in Packets /\ Head(s) \in {s[n] : n \in DOMAIN s}
         /\ {t[n] : n \in DOMAIN t} \subseteq {s[n] : n \in DOMAIN s}
<1> DEFINE t == Tail(s)
<1>1. /\ t \in Seq(Packets) /\ Len(s) \in Nat \ {0} /\ DOMAIN s = 1 .. Len(s)
      /\ Head(s) = s[1] /\ Head(s) \in Packets /\ DOMAIN t = 1 .. Len(s) - 1
      /\ \A n \in 1 .. Len(s) - 1 : t[n] = s[n + 1]
  OBVIOUS
<1> HIDE DEF t
<1>2. \A n \in 1 .. Len(s) - 1 : n + 1 \in DOMAIN s
  BY <1>1
<1>3. QED
  BY <1>1, <1>2 DEF t

-----------------------------------------------------------------------------
(* The steps                                                               *)

(* What a packet that is read does to the table: the result of the address *)
(* it comes from, or, in ping_main, an entry that is not in use.           *)
LEMMA RecvWrites ==
  ASSUME ProbeTypes, InTable, ping_recv
  PROVE  LET p == Head(queue) IN
         /\ p \in Packets /\ p \in Waiting
         /\ ping_addr' \in [Array -> [ia : Nat, res : -1 .. 4]]
         /\ \A k \in Array : ping_addr'[k].ia = ping_addr[k].ia
         /\ \A k \in InUse :
              ping_addr'[k].res = IF ping_addr[k].ia = p.from THEN Verdict(p) ELSE ping_addr[k].res
         /\ p.from \in Tracked \/ prog = "ping3" =>
              \A k \in Array \ InUse : ping_addr'[k] = ping_addr[k]
<1> DEFINE p == Head(queue)
           i == ping_addr_binary_search(p.from)
           v == Verdict(p)
<1>1. p \in Packets /\ p \in Waiting
  BY OneFewer DEF ProbeTypes, ping_recv, Waiting
<1>2. p.from \in Nat /\ v \in {1, 3}
  BY <1>1, PacketFields DEF Verdict, PING_OK, PING_ERROR_OCCUR
<1>3. /\ i \in Array
      /\ p.from \in Tracked => i \in InUse /\ ping_addr[i].ia = p.from
      /\ p.from \notin Tracked => i = -1
  BY <1>2, SearchIsExact DEF InTable
<1>4. ping_addr' = IF Stored(i) THEN [ping_addr EXCEPT ![i].res = v] ELSE ping_addr
  BY DEF ping_recv
<1> HIDE DEF p, i, v
<1>5. ping_addr \in [Array -> [ia : Nat, res : -1 .. 4]] /\ offset \in 0 .. Num /\ Num \in Nat
      /\ InUse \subseteq Array /\ \A k \in InUse : k >= 0
  BY ProbeAssumption DEF ProbeTypes, ProbeAssumption, InUse, Array
<1>6. v \in -1 .. 4
  BY <1>2
<1>7. ping_addr' \in [Array -> [ia : Nat, res : -1 .. 4]]
  BY <1>3, <1>4, <1>5, <1>6
<1>8. \A k \in Array :
        ping_addr'[k] = IF k = i /\ Stored(i) THEN [ping_addr[k] EXCEPT !.res = v] ELSE ping_addr[k]
  BY <1>3, <1>4, <1>5
<1>9. \A k \in Array : ping_addr'[k].ia = ping_addr[k].ia
  BY <1>5, <1>8
<1>10. \A k, l \in InUse : ping_addr[k].ia = ping_addr[l].ia => k = l
  <2> SUFFICES ASSUME NEW k \in InUse, NEW l \in InUse, ping_addr[k].ia = ping_addr[l].ia PROVE k = l
    OBVIOUS
  <2>1. ~(k < l) /\ ~(l < k)
    BY <1>5 DEF InTable, Ascending
  <2>2. k \in Int /\ l \in Int
    BY DEF InUse
  <2>3. QED
    BY <2>1, <2>2
<1>11. CASE p.from \in Tracked
  <2>1. i \in InUse /\ ping_addr[i].ia = p.from /\ Stored(i)
    BY <1>3, <1>5, <1>11 DEF Stored
  <2>2. \A k \in InUse :
          ping_addr'[k].res = IF ping_addr[k].ia = p.from THEN v ELSE ping_addr[k].res
    BY <1>5, <1>8, <1>10, <2>1
  <2>3. \A k \in Array \ InUse : ping_addr'[k] = ping_addr[k]
    BY <1>8, <2>1
  <2>4. QED
    BY <1>1, <1>7, <1>9, <2>2, <2>3 DEF p, v
<1>12. CASE p.from \notin Tracked
  <2>1. i = -1 /\ i \notin InUse
    BY <1>3, <1>5, <1>12
  <2>2. \A k \in InUse : ping_addr'[k] = ping_addr[k] /\ ping_addr[k].ia # p.from
    BY <1>5, <1>8, <1>12, <2>1 DEF Tracked
  <2>3. prog = "ping3" => ~Stored(i)
    BY <2>1 DEF Stored
  <2>4. prog = "ping3" => \A k \in Array \ InUse : ping_addr'[k] = ping_addr[k]
    BY <1>8, <2>3
  <2>5. QED
    BY <1>1, <1>7, <1>9, <1>12, <2>2, <2>4 DEF p, v
<1>13. QED
  BY <1>11, <1>12

(* The table after a new address was added and the entries were sorted.    *)
LEMMA AddSorts ==
  ASSUME ProbeTypes, InTable, Add
  PROVE  /\ ping_addr' \in [Array -> [ia : Nat, res : -1 .. 4]] /\ offset' \in 0 .. Num
         /\ offset' = offset + 1 /\ \E a \in todo : todo' = todo \ {a} /\ Tracked' \subseteq Tracked \cup {a}
         /\ Ascending' /\ \A k \in InUse' : ping_addr'[k].ia \in Hosts /\ ping_addr'[k].res = 0
         /\ \A k \in Array \ InUse' : ping_addr'[k] = IF k = -1 THEN Heap ELSE Zero
<1>1. PICK a \in todo : ping_addr_add(a) /\ todo' = todo \ {a}
  BY DEF Add
<1> DEFINE t == [ping_addr EXCEPT ![offset].ia = a]
<1>2. /\ offset \in Nat /\ Num \in Nat /\ offset < Num /\ offset' = offset + 1 /\ offset' \in 0 .. Num
      /\ ping_addr' = ping_addr_sort(t, offset + 1)
      /\ ping_addr \in [Array -> [ia : Nat, res : -1 .. 4]]
      /\ offset \in Array /\ InUse \subseteq Array
      /\ InUse' = 0 .. offset /\ 0 .. (offset + 1) - 1 = 0 .. offset /\ 0 .. offset = InUse \cup {offset}
  <2>1. offset \in Nat /\ Num \in Nat /\ offset < Num /\ offset' = offset + 1
        /\ ping_addr \in [Array -> [ia : Nat, res : -1 .. 4]]
    BY <1>1, ProbeAssumption DEF ping_addr_add, ProbeTypes, ProbeAssumption
  <2>2. ping_addr' = ping_addr_sort(t, offset + 1)
    BY <1>1 DEF ping_addr_add
  <2>3. offset' \in 0 .. Num /\ offset \in Array /\ InUse \subseteq Array
    BY <2>1 DEF InUse, Array
  <2>4. InUse' = 0 .. offset /\ 0 .. (offset + 1) - 1 = 0 .. offset /\ 0 .. offset = InUse \cup {offset}
    BY <2>1 DEF InUse
  <2>5. QED
    BY <2>1, <2>2, <2>3, <2>4
<1>3. a \in Hosts /\ a \in Nat /\ a \notin Tracked
  BY PacketFields DEF ProbeTypes, InTable
<1>4. /\ \A k \in InUse : ping_addr[k].ia \in Hosts /\ ping_addr[k].res = 0
      /\ \A k \in Array \ InUse : ping_addr[k] = IF k = -1 THEN Heap ELSE Zero
      /\ Ascending /\ offset \notin InUse
  BY <1>2 DEF InTable, Add, Adding, InUse
<1>5. /\ t \in [Array -> [ia : Nat, res : -1 .. 4]]
      /\ \A k \in Array : k # offset => t[k] = ping_addr[k]
      /\ t[offset].ia = a /\ t[offset].res = 0
  BY <1>2, <1>3, <1>4 DEF Zero
<1> HIDE DEF t
<1>6. \A k \in 0 .. offset : t[k].ia \in Hosts /\ t[k].res = 0 /\ t[k].ia \in Tracked \cup {a}
  BY <1>2, <1>3, <1>4, <1>5 DEF Tracked
<1>7. \A k, l \in 0 .. offset : t[k].ia = t[l].ia => k = l
  <2> SUFFICES ASSUME NEW k \in 0 .. offset, NEW l \in 0 .. offset, t[k].ia = t[l].ia PROVE k = l
    OBVIOUS
  <2>1. CASE k \in InUse /\ l \in InUse
    <3>1. ping_addr[k].ia = ping_addr[l].ia /\ ping_addr[k].ia \in Nat
      BY <1>2, <1>4, <1>5, <2>1
    <3>2. ~(k < l) /\ ~(l < k)
      BY <2>1, <3>1, <1>4 DEF Ascending
    <3>3. QED
      BY <1>2, <3>2
  <2>2. CASE k = offset /\ l \in InUse
    BY <1>2, <1>3, <1>4, <1>5, <2>2 DEF Tracked
  <2>3. CASE k \in InUse /\ l = offset
    BY <1>2, <1>3, <1>4, <1>5, <2>3 DEF Tracked
  <2>4. QED
    BY <1>2, <2>1, <2>2, <2>3
<1>8. /\ ping_addr' \in [Array -> [ia : Nat, res : -1 .. 4]]
      /\ \A i \in Array : i \notin 0 .. offset => ping_addr'[i] = t[i]
      /\ {ping_addr'[i] : i \in 0 .. offset} = {t[i] : i \in 0 .. offset}
      /\ \A k, l \in 0 .. offset : k < l => ping_addr'[k].ia < ping_addr'[l].ia
  <2> DEFINE n == offset + 1
  <2>1. n \in 0 .. Num /\ 0 .. n - 1 = 0 .. offset
    BY <1>2
  <2>2. ping_addr' = ping_addr_sort(t, n)
    BY <1>2
  <2> HIDE DEF n
  <2>3. \A k, l \in 0 .. n - 1 : t[k].ia = t[l].ia => k = l
    BY <1>7, <2>1
  <2>4. LET s == ping_addr_sort(t, n) IN
        /\ s \in [Array -> [ia : Nat, res : -1 .. 4]]
        /\ \A i \in Array : i \notin 0 .. n - 1 => s[i] = t[i]
        /\ {s[i] : i \in 0 .. n - 1} = {t[i] : i \in 0 .. n - 1}
        /\ \A k, l \in 0 .. n - 1 : k < l => s[k].ia < s[l].ia
    BY <1>5, <2>1, <2>3, SortAscends
  <2>5. QED
    BY <2>1, <2>2, <2>4
<1>9. \A k \in InUse' : \E l \in 0 .. offset : ping_addr'[k] = t[l]
  BY <1>2, <1>8
<1>10. \A k \in InUse' :
         ping_addr'[k].ia \in Hosts /\ ping_addr'[k].res = 0 /\ ping_addr'[k].ia \in Tracked \cup {a}
  BY <1>6, <1>9
<1>11. Ascending'
  BY <1>2, <1>8 DEF Ascending
<1>12. \A k \in Array \ InUse' : ping_addr'[k] = IF k = -1 THEN Heap ELSE Zero
  BY <1>2, <1>4, <1>5, <1>8
<1>13. Tracked' \subseteq Tracked \cup {a}
  BY <1>10 DEF Tracked
<1>14. QED
  BY <1>1, <1>2, <1>8, <1>10, <1>11, <1>12, <1>13

(* The entries after the send.                                             *)
LEMMA SendWrites ==
  ASSUME ProbeTypes, InTable, ping_send
  PROVE  /\ ping_addr' \in [Array -> [ia : Nat, res : -1 .. 4]]
         /\ \A k \in Array : ping_addr'[k].ia = ping_addr[k].ia
         /\ \A k \in InUse : ping_addr'[k].res \in {0, PING_SEND_FAIL}
         /\ \A k \in Array \ InUse : ping_addr'[k] = ping_addr[k]
         /\ net'.out \subseteq Tracked /\ net'.strays = 0 /\ net'.dups = 0
         /\ net' \in [out : SUBSET Hosts, strays : Nat, dups : Nat]
         /\ queue' \in Seq(Packets) /\ (Own \notin Tracked => queue' = <<>>)
<1>1. PICK failed \in SUBSET Tracked :
        /\ ping_addr' = [i \in Array |->
             IF i \in InUse /\ ping_addr[i].ia \in failed
               THEN [ping_addr[i] EXCEPT !.res = PING_SEND_FAIL] ELSE ping_addr[i]]
        /\ net' = [net EXCEPT !.out = Tracked \ failed]
        /\ queue' = IF Own \in Tracked \ failed THEN <<Packet(Own, "request")>> ELSE <<>>
  BY DEF ping_send
<1>2. /\ ping_addr \in [Array -> [ia : Nat, res : -1 .. 4]] /\ InUse \subseteq Array
      /\ net \in [out : SUBSET Hosts, strays : Nat, dups : Nat]
  BY ProbeAssumption DEF ProbeTypes, ProbeAssumption, InUse, Array
<1>3. /\ \A k \in InUse : ping_addr[k].res = 0 /\ ping_addr[k].ia \in Hosts
      /\ net.strays = 0 /\ net.dups = 0
  BY DEF InTable, Adding, ping_send
<1>4. Tracked \subseteq Hosts
  BY <1>3 DEF Tracked
<1>5. /\ ping_addr' \in [Array -> [ia : Nat, res : -1 .. 4]]
      /\ \A k \in Array : ping_addr'[k].ia = ping_addr[k].ia
      /\ \A k \in InUse : ping_addr'[k].res \in {0, PING_SEND_FAIL}
      /\ \A k \in Array \ InUse : ping_addr'[k] = ping_addr[k]
  <2>1. PING_SEND_FAIL \in -1 .. 4
    BY DEF PING_SEND_FAIL
  <2>2. QED
    BY <1>1, <1>2, <1>3, <2>1
<1>6. queue' \in Seq(Packets) /\ (Own \notin Tracked => queue' = <<>>)
  <2>1. Packet(Own, "request") \in Packets
    BY PacketFields
  <2>2. QED
    BY <1>1, <2>1
<1>7. QED
  BY <1>1, <1>2, <1>3, <1>4, <1>5, <1>6

Network == ReplyArrives \/ Lost \/ ReplyRepeated \/ StrayArrives

(* What the network does to the buffer and to the requests that are out.   *)
LEMMA NetworkStep ==
  ASSUME ProbeTypes, Network
  PROVE  /\ UNCHANGED <<prog, pc, todo, ping_addr, offset, shown, log>>
         /\ net' \in [out : SUBSET Hosts, strays : Nat, dups : Nat]
         /\ net'.out \subseteq net.out /\ queue' \in Seq(Packets)
         /\ (net'.strays = 0 => net.strays = 0)
         /\ (pc # "recv" => UNCHANGED queue)
         /\ (net.out = {} => pc = "recv" \/ UNCHANGED net)
         /\ \A p \in Waiting' :
              \/ p \in Waiting
              \/ \E a \in net.out : p = Packet(a, "reply")
              \/ net'.strays # 0
<1>1. net \in [out : SUBSET Hosts, strays : Nat, dups : Nat] /\ queue \in Seq(Packets)
  BY DEF ProbeTypes
<1>2. CASE ReplyArrives
  <2>1. PICK a \in net.out :
          pc = "recv" /\ queue' = Append(queue, Packet(a, "reply")) /\ net' = [net EXCEPT !.out = @ \ {a}]
    BY <1>2 DEF ReplyArrives, Arrives
  <2>2. a \in Hosts \cup Strangers /\ Packet(a, "reply") \in Packets
    <3>1. a \in Hosts
      BY <1>1
    <3>2. QED
      BY <3>1, PacketFields
  <2>3. queue' \in Seq(Packets) /\ Waiting' = Waiting \cup {Packet(a, "reply")}
    BY <1>1, <2>1, <2>2, OneMore DEF Waiting
  <2>4. QED
    BY <1>1, <1>2, <2>1, <2>3 DEF ReplyArrives, table
<1>3. CASE Lost
  <2>1. PICK a \in net.out : net' = [net EXCEPT !.out = @ \ {a}]
    BY <1>3 DEF Lost
  <2>2. QED
    BY <1>1, <1>3, <2>1 DEF Lost, table, Waiting
<1>4. CASE ReplyRepeated
  <2>1. PICK a \in net.out : pc = "recv" /\ queue' = Append(queue, Packet(a, "reply"))
    BY <1>4 DEF ReplyRepeated, Arrives
  <2>2. a \in Hosts \cup Strangers /\ Packet(a, "reply") \in Packets
    <3>1. a \in Hosts
      BY <1>1
    <3>2. QED
      BY <3>1, PacketFields
  <2>3. queue' \in Seq(Packets) /\ Waiting' = Waiting \cup {Packet(a, "reply")}
    BY <1>1, <2>1, <2>2, OneMore DEF Waiting
  <2>4. net' = [net EXCEPT !.dups = @ + 1] /\ net.dups + 1 \in Nat
    BY <1>1, <1>4 DEF ReplyRepeated
  <2>5. QED
    BY <1>1, <1>4, <2>1, <2>3, <2>4 DEF ReplyRepeated, table
<1>5. CASE StrayArrives
  <2>1. PICK a \in Hosts \cup Strangers : pc = "recv" /\ queue' = Append(queue, Packet(a, "other"))
    BY <1>5 DEF StrayArrives, Arrives
  <2>2. Packet(a, "other") \in Packets
    BY PacketFields
  <2>3. queue' \in Seq(Packets)
    BY <1>1, <2>1, <2>2, OneMore
  <2>4. net' = [net EXCEPT !.strays = @ + 1] /\ net.strays + 1 \in Nat \ {0}
    BY <1>1, <1>5 DEF StrayArrives
  <2>5. QED
    BY <1>1, <1>5, <2>1, <2>3, <2>4 DEF StrayArrives, table
<1>6. QED
  BY <1>2, <1>3, <1>4, <1>5 DEF Network

(* The counts are numbers of entries.                                      *)
LEMMA CountsAreSmall ==
  ASSUME ProbeTypes
  PROVE  Counts \in [{"total", "ok", "error", "send_fail", "not_recv"} -> 0 .. Num]
<1>1. offset \in 0 .. Num /\ Num \in Nat /\ IsFiniteSet(InUse) /\ Cardinality(InUse) = offset
  <2>1. offset \in 0 .. Num /\ Num \in Nat
    BY ProbeAssumption DEF ProbeTypes, ProbeAssumption
  <2>2. IsFiniteSet(0 .. offset - 1)
        /\ Cardinality(0 .. offset - 1) = IF 0 > offset - 1 THEN 0 ELSE (offset - 1) - 0 + 1
    BY <2>1, FS_Interval
  <2>3. QED
    BY <2>1, <2>2 DEF InUse
<1>2. \A r : Count(r) \in 0 .. Num
  <2> SUFFICES ASSUME NEW r PROVE Count(r) \in 0 .. Num
    OBVIOUS
  <2>1. {i \in InUse : ping_addr[i].res = r} \in SUBSET InUse
    OBVIOUS
  <2>2. Count(r) \in Nat /\ Count(r) <= Cardinality(InUse)
    BY <1>1, <2>1, FS_Subset, FS_CardinalityType DEF Count
  <2>3. QED
    BY <1>1, <2>2
<1>3. QED
  BY <1>1, <1>2 DEF Counts

(* The entries after the silent ones were marked.                          *)
LEMMA SetWrites ==
  ASSUME ProbeTypes, ping_set_res
  PROVE  /\ ping_addr' \in [Array -> [ia : Nat, res : -1 .. 4]]
         /\ \A k \in Array : ping_addr'[k].ia = ping_addr[k].ia
         /\ \A k \in InUse : ping_addr'[k].res =
              IF ping_addr[k].res = 0 THEN PING_NOT_RECEIVE ELSE ping_addr[k].res
         /\ \A k \in Array \ InUse : ping_addr'[k] = ping_addr[k]
<1>1. /\ ping_addr' = [i \in Array |->
           IF i \in InUse /\ ping_addr[i].res = 0
             THEN [ping_addr[i] EXCEPT !.res = PING_NOT_RECEIVE] ELSE ping_addr[i]]
      /\ ping_addr \in [Array -> [ia : Nat, res : -1 .. 4]] /\ PING_NOT_RECEIVE \in -1 .. 4
  BY DEF ping_set_res, SetRange, ProbeTypes, PING_NOT_RECEIVE
<1>2. InUse \subseteq Array
  BY ProbeAssumption DEF ProbeTypes, ProbeAssumption, InUse, Array
<1>3. QED
  BY <1>1, <1>2

(* The types.                                                              *)
LEMMA TypesStep ==
  ASSUME ProbeTypes, InTable, [Next]_vars
  PROVE  ProbeTypes'
<1> USE DEF table, network
<1>1. CASE SetupFails \/ Setup \/ PollTimesOut
  BY <1>1 DEF SetupFails, Setup, PollTimesOut, AfterSilence, ProbeTypes
<1>2. CASE Add
  BY <1>2, AddSorts DEF Add, ProbeTypes
<1>3. CASE ping_send
  BY <1>3, SendWrites DEF ping_send, ProbeTypes
<1>4. CASE ping_recv
  <2>1. queue' \in Seq(Packets) /\ Head(queue) \in Packets
    BY <1>4, OneFewer DEF ping_recv, ProbeTypes
  <2>2. log' \in Seq(Packets)
    BY <1>4, <2>1, OneMore DEF ping_recv, ProbeTypes
  <2>3. QED
    BY <1>4, <2>1, <2>2, RecvWrites DEF ping_recv, ProbeTypes
<1>5. CASE ping_set_res
  BY <1>5, SetWrites DEF ping_set_res, ProbeTypes
<1>6. CASE ping_show_res
  BY <1>6, CountsAreSmall DEF ping_show_res, ProbeTypes
<1>7. CASE ping_addr_free
  <2>1. 0 \in 0 .. Num /\ <<>> \in Seq(Packets)
    BY ProbeAssumption DEF ProbeAssumption
  <2>2. QED
    BY <1>7, <2>1 DEF ping_addr_free, ProbeTypes
<1>8. CASE Network
  BY <1>8, NetworkStep DEF ProbeTypes
<1>9. CASE UNCHANGED vars
  BY <1>9 DEF vars, ProbeTypes
<1>10. QED
  BY <1>1, <1>2, <1>3, <1>4, <1>5, <1>6, <1>7, <1>8, <1>9 DEF Next, test, Answers, Ending, Network

(* The table stays ascending, and has no result before the send.           *)
LEMMA InTableStep ==
  ASSUME ProbeTypes, InTable, [Next]_vars
  PROVE  InTable'
<1> USE DEF table, network
<1>1. InUse \subseteq Array
  BY ProbeAssumption DEF ProbeTypes, ProbeAssumption, InUse, Array
<1>2. ASSUME /\ pc' \notin {"init", "add", "send"} /\ UNCHANGED <<prog, todo, offset>>
             /\ \A k \in Array : ping_addr'[k].ia = ping_addr[k].ia
             /\ \A k \in InUse : ping_addr'[k].res \in 0 .. 4
      PROVE  InTable'
  <2>1. InUse' = InUse /\ \A k \in InUse : ping_addr'[k].ia = ping_addr[k].ia
    BY <1>1, <1>2 DEF InUse
  <2>2. Tracked' = Tracked
    BY <2>1 DEF Tracked
  <2>3. Ascending'
    BY <2>1 DEF Ascending, InTable
  <2>4. QED
    BY <1>2, <2>1, <2>2, <2>3 DEF InTable, Adding
<1>3. \A k \in InUse : ping_addr[k].res \in 0 .. 4
  BY DEF InTable
<1>4. CASE SetupFails \/ PollTimesOut \/ ping_show_res
  BY <1>2, <1>3, <1>4 DEF SetupFails, PollTimesOut, AfterSilence, ping_show_res
<1>5. CASE Setup
  BY <1>5 DEF Setup, InTable, Adding, Ascending, Tracked, InUse
<1>6. CASE Add
  <2>1. PICK a \in todo : todo' = todo \ {a} /\ Tracked' \subseteq Tracked \cup {a}
    BY <1>6, AddSorts
  <2>2. /\ Ascending' /\ \A k \in InUse' : ping_addr'[k].ia \in Hosts /\ ping_addr'[k].res = 0
        /\ \A k \in Array \ InUse' : ping_addr'[k] = IF k = -1 THEN Heap ELSE Zero
    BY <1>6, AddSorts
  <2>3. \A k \in InUse' : ping_addr'[k].ia \in Hosts /\ ping_addr'[k].res \in 0 .. 4
    BY <2>2
  <2>4. todo' \cap Tracked' = {} /\ (prog' = "ping_main" => Own \notin Tracked' \cup todo')
    BY <1>6, <2>1 DEF Add, InTable
  <2>5. /\ UNCHANGED <<queue, log, net>> /\ (pc' = "send" => todo' = {})
    BY <1>6 DEF Add
  <2>6. Adding' /\ Adding
    BY <1>6 DEF Add, Adding
  <2>7. QED
    BY <2>2, <2>3, <2>4, <2>5, <2>6 DEF InTable
<1>7. CASE ping_send
  <2>1. \A k \in InUse : ping_addr'[k].res \in 0 .. 4
    BY <1>7, SendWrites DEF PING_SEND_FAIL
  <2>2. QED
    BY <1>2, <1>7, <2>1, SendWrites DEF ping_send
<1>8. CASE ping_recv
  <2>1. \A k \in InUse : ping_addr'[k].res \in 0 .. 4
    BY <1>3, <1>8, RecvWrites DEF Verdict, PING_OK, PING_ERROR_OCCUR
  <2>2. QED
    BY <1>2, <1>8, <2>1, RecvWrites DEF ping_recv
<1>9. CASE ping_set_res
  <2>1. \A k \in InUse : ping_addr'[k].res \in 0 .. 4
    BY <1>3, <1>9, SetWrites DEF PING_NOT_RECEIVE
  <2>2. QED
    BY <1>2, <1>9, <2>1, SetWrites DEF ping_set_res
<1>10. CASE ping_addr_free
  <2>1. InUse' = {} /\ Tracked' = {}
    BY <1>10 DEF ping_addr_free, InUse, Tracked
  <2>2. QED
    BY <1>10, <2>1 DEF ping_addr_free, InTable, Ascending, Adding
<1>11. CASE Network
  <2>1. /\ UNCHANGED <<prog, pc, todo, ping_addr, offset, log>>
        /\ (pc # "recv" => UNCHANGED queue) /\ (net.out = {} => pc = "recv" \/ UNCHANGED net)
    BY <1>11, NetworkStep
  <2>2. QED
    BY <2>1 DEF InTable, Ascending, Adding, Tracked, InUse
<1>12. CASE UNCHANGED vars
  BY <1>12 DEF vars, InTable, Ascending, Adding, Tracked, InUse
<1>13. QED
  BY <1>4, <1>5, <1>6, <1>7, <1>8, <1>9, <1>10, <1>11, <1>12 DEF Next, test, Answers, Ending, Network

(* The last packet from an address decides its result.                     *)
LEMMA DecidedStep ==
  ASSUME ProbeTypes, InTable, Decided, [Next]_vars
  PROVE  Decided'
<1> USE DEF table, network, PING_OK, PING_SEND_FAIL, PING_ERROR_OCCUR, PING_NOT_RECEIVE
<1>1. InUse \subseteq Array
  BY ProbeAssumption DEF ProbeTypes, ProbeAssumption, InUse, Array
<1>2. ASSUME /\ UNCHANGED <<offset, log>> /\ pc \in {"recv", "set", "show"}
             /\ \A k \in Array : ping_addr'[k].ia = ping_addr[k].ia
             /\ \A k \in InUse : \/ ping_addr'[k].res = ping_addr[k].res
                                 \/ ping_addr[k].res = 0 /\ ping_addr'[k].res = PING_NOT_RECEIVE
      PROVE  Decided'
  <2>1. InUse' = InUse /\ \A k \in InUse : ping_addr'[k].ia = ping_addr[k].ia
    BY <1>1, <1>2 DEF InUse
  <2>2. \A a, n : LastFrom(a, n)' <=> LastFrom(a, n)
    BY <1>2 DEF LastFrom
  <2>3. QED
    BY <1>2, <2>1, <2>2 DEF Decided
<1>3. CASE pc' \notin {"recv", "set", "show"}
  BY <1>3 DEF Decided
<1>4. CASE PollTimesOut \/ ping_show_res
  BY <1>2, <1>4 DEF PollTimesOut, AfterSilence, ping_show_res
<1>5. CASE ping_send
  <2>1. DOMAIN log' = {} /\ UNCHANGED offset
    BY <1>5 DEF ping_send, InTable, Adding
  <2>2. \A k \in InUse : ping_addr'[k].res \in {0, PING_SEND_FAIL}
    BY <1>5, SendWrites
  <2>3. InUse' = InUse
    BY <2>1 DEF InUse
  <2>4. QED
    BY <2>1, <2>2, <2>3 DEF Decided
<1>6. CASE ping_recv
  <2> SUFFICES ASSUME Pid < 2^16, NEW k \in InUse'
      PROVE \/ /\ \A n \in DOMAIN log' : log'[n].from # ping_addr'[k].ia
               /\ ping_addr'[k].res \in {0, PING_SEND_FAIL, PING_NOT_RECEIVE}
            \/ \E n \in DOMAIN log' :
                 /\ log'[n].from = ping_addr'[k].ia
                 /\ \A m \in DOMAIN log' : log'[m].from = ping_addr'[k].ia => m <= n
                 /\ ping_addr'[k].res =
                      IF log'[n] = Packet(ping_addr'[k].ia, "reply") THEN PING_OK ELSE PING_ERROR_OCCUR
    BY DEF Decided, LastFrom
  <2>1. PICK p : p = Head(queue) /\ p \in Packets
    BY <1>6, RecvWrites
  <2>2. k \in InUse
    BY <1>6 DEF ping_recv, InUse
  <2>3. PICK a : a = ping_addr[k].ia
    OBVIOUS
  <2>4. /\ ping_addr'[k].ia = a
        /\ ping_addr'[k].res = IF a = p.from THEN Verdict(p) ELSE ping_addr[k].res
    BY <1>1, <1>6, <2>1, <2>2, <2>3, RecvWrites
  <2>5. PICK last : last = Len(log) + 1
    OBVIOUS
  <2>6. /\ DOMAIN log \subseteq DOMAIN log' /\ log'[last] = p /\ last \in DOMAIN log'
        /\ \A n \in DOMAIN log : log'[n] = log[n]
        /\ \A n \in DOMAIN log' : n <= last /\ (n \in DOMAIN log \/ n = last)
    <3>1. log \in Seq(Packets) /\ log' = Append(log, p)
      BY <1>6, <2>1 DEF ping_recv, ProbeTypes
    <3>2. /\ Len(log) \in Nat /\ DOMAIN log = 1 .. Len(log) /\ DOMAIN log' = 1 .. last
          /\ log'[last] = p /\ \A n \in DOMAIN log : log'[n] = log[n]
      BY <2>1, <2>5, <3>1, OneMore
    <3>3. QED
      BY <2>5, <3>2
  <2>7. CASE a = p.from
    <3>1. log'[last].from = a /\ \A m \in DOMAIN log' : log'[m].from = a => m <= last
      BY <2>6, <2>7
    <3>2. ping_addr'[k].res = IF log'[last] = Packet(a, "reply") THEN PING_OK ELSE PING_ERROR_OCCUR
      BY <2>1, <2>4, <2>6, <2>7, VerdictTells
    <3>3. QED
      BY <2>4, <2>6, <3>1, <3>2
  <2>8. CASE a # p.from
    <3>1. CASE /\ \A n \in DOMAIN log : log[n].from # a
               /\ ping_addr[k].res \in {0, PING_SEND_FAIL, PING_NOT_RECEIVE}
      <4>1. \A n \in DOMAIN log' : log'[n].from # a
        BY <2>6, <2>8, <3>1
      <4>2. QED
        BY <2>4, <2>8, <3>1, <4>1
    <3>2. ASSUME NEW n \in DOMAIN log, log[n].from = a,
                 \A m \in DOMAIN log : log[m].from = a => m <= n,
                 ping_addr[k].res = IF log[n] = Packet(a, "reply") THEN PING_OK ELSE PING_ERROR_OCCUR
          PROVE  \E m \in DOMAIN log' :
                   /\ log'[m].from = a /\ \A l \in DOMAIN log' : log'[l].from = a => l <= m
                   /\ ping_addr[k].res =
                        IF log'[m] = Packet(a, "reply") THEN PING_OK ELSE PING_ERROR_OCCUR
      <4>1. n \in DOMAIN log' /\ log'[n] = log[n]
        BY <2>6
      <4>2. \A l \in DOMAIN log' : log'[l].from = a => l <= n
        BY <2>6, <2>8, <3>2
      <4>3. QED
        BY <3>2, <4>1, <4>2
    <3>3. \/ /\ \A n \in DOMAIN log : log[n].from # a
             /\ ping_addr[k].res \in {0, PING_SEND_FAIL, PING_NOT_RECEIVE}
          \/ \E n \in DOMAIN log :
               /\ log[n].from = a /\ \A m \in DOMAIN log : log[m].from = a => m <= n
               /\ ping_addr[k].res =
                    IF log[n] = Packet(a, "reply") THEN PING_OK ELSE PING_ERROR_OCCUR
      BY <1>6, <2>2, <2>3 DEF Decided, LastFrom, ping_recv
    <3>4. QED
      BY <2>4, <2>8, <3>1, <3>2, <3>3
  <2>9. QED
    BY <2>7, <2>8
<1>7. CASE ping_set_res
  BY <1>2, <1>7, SetWrites DEF ping_set_res
<1>8. CASE Network \/ UNCHANGED vars
  <2>1. UNCHANGED <<pc, offset, log, ping_addr>>
    BY <1>8, NetworkStep DEF vars
  <2>2. QED
    BY <1>2, <1>3, <2>1
<1>9. QED
  <2>1. CASE SetupFails \/ Setup \/ Add \/ ping_addr_free
    BY <1>3, <2>1 DEF SetupFails, Setup, Add, ping_addr_free
  <2>2. QED
    BY <1>4, <1>5, <1>6, <1>7, <1>8, <2>1 DEF Next, test, Answers, Ending, Network

(* What ping_main marked is marked; ping3 marks nothing.                   *)
LEMMA MarkedStep ==
  ASSUME ProbeTypes, InTable, Marked, [Next]_vars
  PROVE  Marked'
<1> USE DEF table, network
<1>1. CASE ping_set_res
  <2>1. \A k \in InUse : ping_addr[k].res \in 0 .. 4
    BY DEF InTable
  <2>2. \A k \in InUse : ping_addr'[k].res \in 1 .. 4
    BY <1>1, <2>1, SetWrites DEF PING_NOT_RECEIVE
  <2>3. InUse' = InUse
    BY <1>1 DEF ping_set_res, InUse
  <2>4. QED
    BY <1>1, <2>2, <2>3 DEF ping_set_res, Marked
<1>2. CASE SetupFails \/ Setup \/ Add \/ ping_send \/ ping_recv \/ PollTimesOut \/ ping_show_res \/ ping_addr_free
  BY <1>2 DEF SetupFails, Setup, Add, ping_send, ping_recv, PollTimesOut, AfterSilence,
              ping_show_res, ping_addr_free, Marked, ProbeTypes
<1>3. CASE Network
  <2>1. UNCHANGED <<pc, prog, offset, ping_addr>>
    BY <1>3, NetworkStep
  <2>2. QED
    BY <2>1 DEF Marked, InUse
<1>4. CASE UNCHANGED vars
  BY <1>4 DEF vars, Marked, InUse
<1>5. QED
  BY <1>1, <1>2, <1>3, <1>4 DEF Next, test, Answers, Ending, Network

(* A result outside the entries in use comes from a stranger.              *)
LEMMA OutsideStep ==
  ASSUME ProbeTypes, InTable, Marked, InTable', OutsideOnlyByStranger, [Next]_vars
  PROVE  OutsideOnlyByStranger'
<1> USE DEF table, network
<1>1. CASE Adding'
  BY <1>1 DEF InTable, OutsideOnlyByStranger
<1>2. InUse \subseteq Array
  BY ProbeAssumption DEF ProbeTypes, ProbeAssumption, InUse, Array
<1>3. ASSUME /\ UNCHANGED <<prog, offset>> /\ (pc = "done" => pc' = "done")
             /\ \A k \in Array : ping_addr'[k].ia = ping_addr[k].ia
             /\ \A k \in Array \ InUse : ping_addr'[k] = ping_addr[k]
             /\ \A n \in DOMAIN log : n \in DOMAIN log' /\ log'[n] = log[n]
      PROVE  OutsideOnlyByStranger'
  <2>1. InUse' = InUse
    BY <1>3 DEF InUse
  <2>2. Tracked' = Tracked
    BY <1>2, <1>3, <2>1 DEF Tracked
  <2>3. QED
    BY <1>3, <2>1, <2>2 DEF OutsideOnlyByStranger
<1>4. CASE SetupFails \/ PollTimesOut \/ ping_show_res
  BY <1>3, <1>4 DEF SetupFails, PollTimesOut, ping_show_res
<1>5. CASE Setup \/ Add
  BY <1>1, <1>5 DEF Setup, Add, Adding
<1>6. CASE ping_send
  BY <1>3, <1>6, SendWrites DEF ping_send
<1>7. CASE ping_recv
  <2>1. PICK p : p = Head(queue) /\ p \in Packets /\ log' = Append(log, p)
    BY <1>7, RecvWrites DEF ping_recv
  <2>2. /\ Len(log) \in Nat /\ DOMAIN log = 1 .. Len(log) /\ DOMAIN log' = 1 .. Len(log) + 1
        /\ log'[Len(log) + 1] = p /\ \A n \in DOMAIN log : log'[n] = log[n]
    BY <2>1, OneMore DEF ProbeTypes
  <2>3. DOMAIN log \subseteq DOMAIN log' /\ Len(log) + 1 \in DOMAIN log'
    BY <2>2
  <2>4. UNCHANGED <<prog, offset>> /\ pc # "done" /\ \A k \in Array : ping_addr'[k].ia = ping_addr[k].ia
    BY <1>7, RecvWrites DEF ping_recv
  <2>5. CASE p.from \in Tracked \/ prog = "ping3"
    <3>1. \A k \in Array \ InUse : ping_addr'[k] = ping_addr[k]
      BY <1>7, <2>1, <2>5, RecvWrites
    <3>2. QED
      BY <1>3, <2>2, <2>3, <2>4, <3>1
  <2>6. CASE p.from \notin Tracked /\ prog = "ping_main"
    <3>1. Tracked' = Tracked
      BY <1>2, <2>4 DEF Tracked, InUse
    <3>2. QED
      BY <2>2, <2>3, <2>4, <2>6, <3>1 DEF OutsideOnlyByStranger
  <2>7. QED
    BY <2>5, <2>6 DEF ProbeTypes
<1>8. CASE ping_set_res
  BY <1>3, <1>8, SetWrites DEF ping_set_res
<1>9. CASE ping_addr_free
  BY <1>9 DEF ping_addr_free, Marked, ProbeTypes, OutsideOnlyByStranger
<1>10. CASE Network
  BY <1>3, <1>10, NetworkStep
<1>11. CASE UNCHANGED vars
  BY <1>3, <1>11 DEF vars
<1>12. QED
  BY <1>4, <1>5, <1>6, <1>7, <1>8, <1>9, <1>10, <1>11 DEF Next, test, Answers, Ending, Network

(* When ping3 asks one address and nothing else sends, what it reads is    *)
(* the reply.                                                              *)
LEMMA OneAskedStep ==
  ASSUME ProbeTypes, InTable, Marked, OneAsked, [Next]_vars
  PROVE  OneAsked'
<1> USE DEF table, network
<1>1. CASE prog # "ping3"
  <2>1. UNCHANGED prog
    BY NetworkStep DEF Next, test, Answers, Ending, Network, SetupFails, Setup, Add, ping_send,
       ping_recv, PollTimesOut, ping_set_res, ping_show_res, ping_addr_free, vars
  <2>2. QED
    BY <1>1, <2>1 DEF OneAsked
<1>2. CASE prog = "ping3" /\ (SetupFails \/ Setup \/ PollTimesOut \/ ping_set_res \/ ping_addr_free)
  BY <1>2 DEF SetupFails, Setup, PollTimesOut, AfterSilence, ping_set_res, ping_addr_free, OneAsked, Marked
<1>3. CASE prog = "ping3" /\ Add
  <2>1. offset = 0 /\ \E a \in Targets : todo = {a}
    BY <1>3 DEF OneAsked, Add
  <2>2. offset' = 1 /\ todo' = {}
    BY <1>3, <2>1, AddSorts
  <2>3. QED
    BY <1>3, <2>2 DEF Add, OneAsked
<1>4. CASE prog = "ping3" /\ ping_send
  <2>1. offset' = 1 /\ pc' = "recv"
    BY <1>4 DEF ping_send, OneAsked
  <2>2. Tracked' = Tracked
    <3>1. UNCHANGED offset /\ \A k \in Array : ping_addr'[k].ia = ping_addr[k].ia
      BY <1>4, SendWrites DEF ping_send
    <3>2. InUse \subseteq Array
      BY ProbeAssumption DEF ProbeTypes, ProbeAssumption, InUse, Array
    <3>3. QED
      BY <3>1, <3>2 DEF Tracked, InUse
  <2>3. net'.out \subseteq Tracked' /\ (Own \notin Tracked' => Waiting' = {})
    BY <1>4, <2>2, SendWrites DEF Waiting
  <2>4. QED
    BY <2>1, <2>3 DEF OneAsked
<1>5. CASE prog = "ping3" /\ ping_recv
  <2>1. offset = 1 /\ pc = "recv" /\ pc' = "show" /\ UNCHANGED <<offset, net, prog>> /\ InUse = {0}
    BY <1>5 DEF ping_recv, OneAsked, InUse
  <2>2. Tracked' = Tracked /\ InUse' = InUse /\ 0 \in Array
    <3>1. 0 \in Array /\ InUse' = InUse
      BY <2>1, ProbeAssumption DEF ProbeTypes, ProbeAssumption, Array, InUse
    <3>2. QED
      BY <1>5, <2>1, <3>1, RecvWrites DEF Tracked
  <2>3. PICK p : p = Head(queue) /\ p \in Packets /\ p \in Waiting
    BY <1>5, RecvWrites
  <2>4. ASSUME net.strays = 0, Own \notin Tracked, Pid < 2^16 PROVE ping_addr'[0].res = PING_OK
    <3>1. IsReply(p) /\ p.from \in Tracked
      BY <1>5, <2>1, <2>3, <2>4 DEF OneAsked
    <3>2. p.from = ping_addr[0].ia
      BY <2>1, <3>1 DEF Tracked
    <3>3. QED
      BY <1>5, <2>1, <2>3, <3>1, <3>2, RecvWrites DEF Verdict
  <2>5. QED
    BY <1>5, <2>1, <2>2, <2>4 DEF OneAsked
<1>6. CASE prog = "ping3" /\ ping_show_res
  <2>1. offset = 1 /\ pc = "show" /\ pc' = "free" /\ UNCHANGED <<offset, net, prog, ping_addr>> /\ InUse = {0}
    BY <1>6 DEF ping_show_res, OneAsked, InUse
  <2>2. Tracked' = Tracked
    BY <2>1 DEF Tracked, InUse
  <2>3. ASSUME ping_addr[0].res = PING_OK PROVE shown'.ok = 1
    <3>1. {i \in InUse : ping_addr[i].res = PING_OK} = {0}
      BY <2>1, <2>3
    <3>2. shown'.ok = Cardinality({0})
      BY <1>6, <3>1 DEF ping_show_res, Counts, Count
    <3>3. QED
      BY <3>2, FS_Singleton
  <2>4. QED
    BY <1>6, <2>1, <2>2, <2>3 DEF OneAsked
<1>7. CASE prog = "ping3" /\ Network
  <2>1. /\ UNCHANGED <<prog, pc, todo, ping_addr, offset, shown>>
        /\ net'.out \subseteq net.out /\ (net'.strays = 0 => net.strays = 0)
    BY <1>7, NetworkStep
  <2>2. Tracked' = Tracked
    BY <2>1 DEF Tracked, InUse
  <2>3. ASSUME net'.strays = 0, Own \notin Tracked, Pid < 2^16, pc = "recv", NEW p \in Waiting'
        PROVE  IsReply(p) /\ p.from \in Tracked
    <3>1. CASE p \in Waiting
      BY <1>7, <2>1, <2>3, <3>1 DEF OneAsked
    <3>2. ASSUME NEW a \in net.out, p = Packet(a, "reply") PROVE IsReply(p) /\ p.from \in Tracked
      <4>1. a \in Tracked /\ a \in Hosts
        BY <1>7, <2>1, <2>3, <3>2 DEF OneAsked, ProbeTypes
      <4>2. p \in Packets /\ p.kind = "reply" /\ p.from = a
        BY <3>2, <4>1, PacketFields
      <4>3. QED
        BY <2>3, <4>1, <4>2, VerdictTells
    <3>3. QED
      BY <1>7, <2>3, <3>1, <3>2, NetworkStep
  <2>4. QED
    BY <1>7, <2>1, <2>2, <2>3 DEF OneAsked
<1>8. CASE UNCHANGED vars
  BY <1>8 DEF vars, OneAsked, Tracked, InUse, Waiting
<1>9. QED
  BY <1>1, <1>2, <1>3, <1>4, <1>5, <1>6, <1>7, <1>8 DEF Next, test, Answers, Ending, Network

(* The cardinality of a union of two sets that have nothing in common.     *)
LEMMA DisjointUnion ==
  ASSUME NEW A, NEW B, IsFiniteSet(A), IsFiniteSet(B), A \cap B = {}
  PROVE  IsFiniteSet(A \cup B) /\ Cardinality(A \cup B) = Cardinality(A) + Cardinality(B)
<1>1. /\ IsFiniteSet(A \cup B)
      /\ Cardinality(A \cup B) = Cardinality(A) + Cardinality(B) - Cardinality(A \cap B)
  BY FS_Union
<1>2. Cardinality(A \cap B) = 0 /\ Cardinality(A) \in Nat /\ Cardinality(B) \in Nat
  BY FS_EmptySet, FS_CardinalityType
<1>3. QED
  BY <1>1, <1>2

(* Entries that all have one of the four results are counted once each.    *)
LEMMA EachCountedOnce ==
  ASSUME ProbeTypes, \A k \in InUse : ping_addr[k].res \in 1 .. 4
  PROVE  Counts.total = Counts.ok + Counts.error + Counts.send_fail + Counts.not_recv
<1> DEFINE S(r) == {i \in InUse : ping_addr[i].res = r}
<1>1. IsFiniteSet(InUse) /\ Cardinality(InUse) = offset
  <2>1. offset \in 0 .. Num /\ Num \in Nat
    BY ProbeAssumption DEF ProbeTypes, ProbeAssumption
  <2>2. IsFiniteSet(0 .. offset - 1)
        /\ Cardinality(0 .. offset - 1) = IF 0 > offset - 1 THEN 0 ELSE (offset - 1) - 0 + 1
    BY <2>1, FS_Interval
  <2>3. QED
    BY <2>1, <2>2 DEF InUse
<1>2. \A r : IsFiniteSet(S(r)) /\ Cardinality(S(r)) \in Nat
  BY <1>1, FS_Subset, FS_CardinalityType
<1>3. InUse = (S(1) \cup S(2)) \cup (S(3) \cup S(4))
  <2>1. \A k \in InUse : ping_addr[k].res \in {1, 2, 3, 4}
    OBVIOUS
  <2>2. QED
    BY <2>1
<1>4. S(1) \cap S(2) = {} /\ S(3) \cap S(4) = {} /\ (S(1) \cup S(2)) \cap (S(3) \cup S(4)) = {}
  OBVIOUS
<1>5. /\ Counts.total = offset /\ Counts.ok = Cardinality(S(1)) /\ Counts.send_fail = Cardinality(S(2))
      /\ Counts.error = Cardinality(S(3)) /\ Counts.not_recv = Cardinality(S(4))
  BY DEF Counts, Count, PING_OK, PING_SEND_FAIL, PING_ERROR_OCCUR, PING_NOT_RECEIVE
<1> HIDE DEF S
<1>6. /\ IsFiniteSet(S(1) \cup S(2)) /\ IsFiniteSet(S(3) \cup S(4))
      /\ Cardinality(S(1) \cup S(2)) = Cardinality(S(1)) + Cardinality(S(2))
      /\ Cardinality(S(3) \cup S(4)) = Cardinality(S(3)) + Cardinality(S(4))
  BY <1>2, <1>4, DisjointUnion
<1>7. Cardinality(InUse) = Cardinality(S(1) \cup S(2)) + Cardinality(S(3) \cup S(4))
  BY <1>3, <1>4, <1>6, DisjointUnion
<1>8. QED
  BY <1>1, <1>2, <1>5, <1>6, <1>7

(* What ping_main shows at the end adds up.                                *)
LEMMA CountsStep ==
  ASSUME ProbeTypes, Marked, CountsAddUp, [Next]_vars
  PROVE  CountsAddUp'
<1> USE DEF table, network
<1>1. CASE ping_show_res
  <2>1. CASE prog = "ping_main"
    BY <1>1, <2>1, EachCountedOnce DEF ping_show_res, CountsAddUp, Marked
  <2>2. CASE prog # "ping_main"
    BY <1>1, <2>2 DEF ping_show_res, CountsAddUp
  <2>3. QED
    BY <2>1, <2>2
<1>2. CASE SetupFails \/ Setup \/ Add \/ ping_send \/ ping_recv \/ PollTimesOut \/ ping_set_res \/ ping_addr_free
  BY <1>2 DEF SetupFails, Setup, Add, ping_send, ping_recv, PollTimesOut, AfterSilence, ping_set_res,
              ping_addr_free, Marked, CountsAddUp
<1>3. CASE Network
  BY <1>3, NetworkStep DEF CountsAddUp
<1>4. CASE UNCHANGED vars
  BY <1>4 DEF vars, CountsAddUp
<1>5. QED
  BY <1>1, <1>2, <1>3, <1>4 DEF Next, test, Answers, Ending, Network

(* The invariant holds at the start ...                                    *)
LEMMA ProbeStarts == Init => ProbeInv
<1> SUFFICES ASSUME Init PROVE ProbeInv
  OBVIOUS
<1>1. /\ Num \in Nat /\ Own \in Hosts /\ Targets \subseteq Hosts /\ InUse = {} /\ Tracked = {}
      /\ -1 \in Array
  BY ProbeAssumption DEF ProbeAssumption, Init, InUse, Tracked, Array
<1>2. ProbeTypes
  <2>1. ping_addr \in [Array -> [ia : Nat, res : -1 .. 4]]
    BY DEF Init, Heap, Zero
  <2>2. shown \in [{"total", "ok", "error", "send_fail", "not_recv"} -> 0 .. Num]
    BY <1>1 DEF Init, NothingShown
  <2>3. QED
    BY <1>1, <2>1, <2>2 DEF Init, ProbeTypes
<1>3. InTable
  BY <1>1 DEF Init, InTable, Ascending, Adding, Skipped
<1>4. Decided /\ Marked /\ CountsAddUp
  BY DEF Init, Decided, Marked, CountsAddUp
<1>5. OneAsked
  BY DEF Init, OneAsked
<1>6. OutsideOnlyByStranger
  BY DEF Init, OutsideOnlyByStranger
<1>7. QED
  BY <1>2, <1>3, <1>4, <1>5, <1>6 DEF ProbeInv

(* ... and ever after.                                                     *)
LEMMA ProbeAlways == Spec => []ProbeInv
<1>1. ProbeInv /\ [Next]_vars => ProbeInv'
  <2> SUFFICES ASSUME ProbeInv, [Next]_vars PROVE ProbeInv'
    OBVIOUS
  <2>1. /\ ProbeTypes /\ InTable /\ Decided /\ Marked /\ OneAsked
        /\ CountsAddUp /\ OutsideOnlyByStranger
    BY DEF ProbeInv
  <2>2. ProbeTypes' /\ InTable'
    BY <2>1, TypesStep, InTableStep
  <2>3. Decided' /\ Marked' /\ OneAsked' /\ CountsAddUp' /\ OutsideOnlyByStranger'
    BY <2>1, <2>2, DecidedStep, MarkedStep, OneAskedStep, CountsStep, OutsideStep
  <2>4. QED
    BY <2>2, <2>3 DEF ProbeInv
<1>2. QED
  BY <1>1, ProbeStarts, PTL DEF Spec

-----------------------------------------------------------------------------
(* The results                                                             *)

(* Every variable has its type, only addresses of the network are tracked, *)
(* and never this machine's own by ping_main.                              *)
THEOREM TypeCorrect == Spec => []TypeOK
<1>1. ProbeInv => TypeOK
  <2> SUFFICES ASSUME ProbeInv PROVE TypeOK
    OBVIOUS
  <2>1. ProbeTypes /\ InTable
    BY DEF ProbeInv
  <2>2. Tracked \subseteq Hosts /\ \A k \in InUse : ping_addr[k].res \in 0 .. 4
    BY <2>1 DEF InTable, Tracked
  <2>3. \A f \in DOMAIN shown : shown[f] \in 0 .. Num
    BY <2>1 DEF ProbeTypes
  <2>4. QED
    BY <2>1, <2>2, <2>3 DEF TypeOK, ProbeTypes, InTable
<1>2. QED
  BY <1>1, ProbeAlways, PTL

(* The result of an address is what the last packet read from it says, as  *)
(* long as the process id fits in the header's 16 bits.                    *)
THEOREM LastDecides ==
  ASSUME Pid < 2^16
  PROVE  Spec => []LastPacketDecides
<1>1. ProbeInv => LastPacketDecides
  <2> SUFFICES ASSUME ProbeInv, pc \in {"recv", "set", "show"}, NEW a \in Tracked
      PROVE  LET from_a == {n \in DOMAIN log : log[n].from = a} IN
               IF from_a = {} THEN res(a) \in {0, PING_SEND_FAIL, PING_NOT_RECEIVE}
               ELSE LET last == CHOOSE n \in from_a : \A k \in from_a : k <= n IN
                      res(a) = IF log[last] = Packet(a, "reply") THEN PING_OK ELSE PING_ERROR_OCCUR
    BY DEF LastPacketDecides
  <2> DEFINE from_a == {n \in DOMAIN log : log[n].from = a}
             i == CHOOSE k \in InUse : ping_addr[k].ia = a
             last == CHOOSE n \in from_a : \A k \in from_a : k <= n
  <2>1. i \in InUse /\ ping_addr[i].ia = a /\ res(a) = ping_addr[i].res
    BY DEF Tracked, res
  <2>2. \A n \in DOMAIN log : n \in Nat
    BY DEF ProbeInv, ProbeTypes
  <2> HIDE DEF i
  <2>3. CASE /\ \A n \in DOMAIN log : log[n].from # a
             /\ res(a) \in {0, PING_SEND_FAIL, PING_NOT_RECEIVE}
    BY <2>3
  <2>4. ASSUME NEW n \in DOMAIN log, log[n].from = a,
               \A m \in DOMAIN log : log[m].from = a => m <= n,
               res(a) = IF log[n] = Packet(a, "reply") THEN PING_OK ELSE PING_ERROR_OCCUR
        PROVE  /\ from_a # {}
               /\ res(a) = IF log[last] = Packet(a, "reply") THEN PING_OK ELSE PING_ERROR_OCCUR
    <3>1. n \in from_a /\ \A k \in from_a : k <= n
      BY <2>4
    <3>2. last \in from_a /\ \A k \in from_a : k <= last
      BY <3>1
    <3> HIDE DEF last
    <3>3. last = n
      BY <2>2, <3>1, <3>2
    <3>4. QED
      BY <2>4, <3>1, <3>3
  <2>5. \/ /\ \A n \in DOMAIN log : log[n].from # a
           /\ res(a) \in {0, PING_SEND_FAIL, PING_NOT_RECEIVE}
        \/ \E n \in DOMAIN log :
             /\ log[n].from = a /\ \A m \in DOMAIN log : log[m].from = a => m <= n
             /\ res(a) = IF log[n] = Packet(a, "reply") THEN PING_OK ELSE PING_ERROR_OCCUR
    BY <2>1 DEF ProbeInv, Decided, LastFrom
  <2>6. QED
    BY <2>3, <2>4, <2>5
<1>2. QED
  BY <1>1, ProbeAlways, PTL

(* Each address ping_main probed is in exactly one of the counts it shows. *)
THEOREM CountsAccount == Spec => []CountsAddUp
<1>1. ProbeInv => CountsAddUp
  BY DEF ProbeInv
<1>2. QED
  BY <1>1, ProbeAlways, PTL

(* A result is written outside the entries in use only by ping_main, when  *)
(* it read a packet from an address it does not track.                     *)
THEOREM OutsideByStranger == Spec => []OutsideOnlyByStranger
<1>1. ProbeInv => OutsideOnlyByStranger
  BY DEF ProbeInv
<1>2. QED
  BY <1>1, ProbeAlways, PTL

(* When ping3 reports at all and nothing but the answer could reach the    *)
(* socket, it reports the address as up, as long as the process id fits in *)
(* the header's 16 bits.                                                   *)
THEOREM QuietAnswered ==
  ASSUME Pid < 2^16
  PROVE  Spec => []QuietAnswer
<1>1. ProbeInv => QuietAnswer
  BY DEF ProbeInv, OneAsked, QuietAnswer
<1>2. QED
  BY <1>1, ProbeAlways, PTL
=============================================================================
