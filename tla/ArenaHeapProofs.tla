--------------------------- MODULE ArenaHeapProofs ---------------------------
(***************************************************************************)
(* ArenaHeap for any number of threads and arenas, any ladder of block     *)
(* sizes and any requests: no two calls work in one arena, the lists never *)
(* share a block with each other or with the program, fork copies no call  *)
(* half done, the blocks handed out keep the promise of an allocator, the  *)
(* counters agree with what the program has, and waiting for locks never   *)
(* comes in a circle.                                                      *)
(*                                                                         *)
(* An arena's lock guards its list, but the blocks of all arenas come from *)
(* one address space, and a block is on its way from mmap to a list        *)
(* without being in either: FreshApart speaks of those.  The temporary     *)
(* arena is safe only because its user holds arena_list_lock until arena 0 *)
(* has taken its list over, which InStep says.  The counters add up in any *)
(* order of the arenas, with what is freed but not yet counted (Counts).   *)
(* fork_prepare alone waits for a lock that others use while it has one:   *)
(* it goes up the arenas and takes the array's lock last (Holders).        *)
(***************************************************************************)
EXTENDS ArenaHeap, FiniteSetTheorems, SequenceTheorems, NumberLemmas

MallocPcs == {"m_lock", "m_search", "m_total", "m_fit"}
FreePcs == {"f_lock", "f_count"}
ForkPcs == {"k_arenas", "k_list", "k_fork", "k_release"}

\* A thread has an arena when it needs one: the temporary one only while it
\* builds the array, one of the array only when there is an array.
InStep(t) ==
  /\ pc[t] \in {"i_lock", "i_list"} => Arena[t] = NoArena
  /\ pc[t] = "i_copy" => Arena[t] = Temp
  /\ pc[t] \in MallocPcs => Arena[t] # NoArena
  /\ pc[t] \in ForkPcs \cup FreePcs => Arena[t] \in Cores
  /\ pc[t] = "idle" => Arena[t] # Temp
  /\ Arena[t] = Temp => arena_list_lock = t /\ ArenaList = 0
  /\ Arena[t] \in Cores => ArenaList # 0
  /\ call[t] = "malloc" => query[t] \in Queries
  /\ pc[t] \in MallocPcs /\ Arena[t] \in Cores => call[t] = "malloc"
  /\ pc[t] \notin {"k_arenas", "k_release"} => cursor[t] = 0

\* The locks a thread holds; fork_prepare has those below its cursor.
Locked(t) ==
  /\ pc[t] \in InArena => lock[Arena[t]] = t
  /\ pc[t] \in InList => arena_list_lock = t
  /\ pc[t] = "k_arenas" =>
       cursor[t] \in Cores /\ \A a \in Cores : a < cursor[t] => lock[a] = t
  /\ pc[t] \in {"k_list", "k_fork"} => \A a \in Cores : lock[a] = t

\* The block a thread works on.
WorksOn(t) ==
  /\ pc[t] = "m_fit" => node[t] \in ToSet(list[Arena[t]]) /\ size[node[t]] >= Needed(t)
  /\ pc[t] = "i_copy" /\ fault = "none" => node[t] \in DOMAIN live

\* No two blocks share a byte, and all lie in the memory mapped so far.
BlocksApart ==
  /\ mapped \in Nat \ {0}
  /\ \A b \in DOMAIN size : b + size[b] <= mapped
  /\ \A b, c \in DOMAIN size : b < c => b + size[b] <= c

\* Pages that mmap has handed out and no header is in yet share no byte with a
\* block, nor with the new pages of another thread.
FreshLen(t) == RoundToPage(Needed(t))
FreshApart ==
  \A t \in Threads : pc[t] = "m_total" =>
    /\ node[t] > 0 /\ node[t] + FreshLen(t) <= mapped
    /\ \A b \in DOMAIN size : b + size[b] <= node[t] \/ node[t] + FreshLen(t) <= b
    /\ \A u \in Threads \ {t} : pc[u] = "m_total" =>
         node[t] + FreshLen(t) <= node[u] \/ node[u] + FreshLen(u) <= node[t]

\* The arenas of the array have no blocks before there is one.
ListsEmpty == ArenaList = 0 => \A a \in Cores : list[a] = <<>>

\* A block in use holds its header and the bytes asked for.
LiveFits == \A b \in DOMAIN live : live[b] + OVERHEAD <= size[b]

\* The arenas have been dealt out in q rounds, and to r threads in this one.
Dealt ==
  /\ ArenaList = 0 => arena_ct = 0
  /\ \E q \in Nat, r \in Cores :
       /\ arena_ct = q * CORE_COUNT + r
       /\ \A a \in Cores : /\ IsFiniteSet(Served(a))
                           /\ Cardinality(Served(a)) = IF a < r THEN q + 1 ELSE q

Blocks == BlocksApart /\ FreshApart /\ OneOwner /\ ListsEmpty /\ LiveFits

IInv == /\ TypeOK
        /\ \A t \in Threads : InStep(t) /\ Locked(t) /\ WorksOn(t)
        /\ Blocks
        /\ Dealt

------------------------------------------------------------------------------
(* The helpers. *)

\* round_up answers every request with a block size that holds it.
LEMMA RoundUpHolds ==
  ASSUME NEW q \in Queries \cup {ListBytes}
  PROVE  /\ RoundUp(q + OVERHEAD) \in Sizes
         /\ RoundUp(q + OVERHEAD) >= q + OVERHEAD
<1>1. PICK s \in Sizes : IsRoundedUp(q + OVERHEAD, s)
  BY ConstantsAssumption
<1>2. /\ RoundUp(q + OVERHEAD) \in Sizes
      /\ IsRoundedUp(q + OVERHEAD, RoundUp(q + OVERHEAD))
  BY <1>1, Zenon DEF RoundUp
<1> QED
  BY <1>2 DEF IsRoundedUp

\* round_to_page of a block size is a block size, and no smaller.
LEMMA RoundToPageHolds ==
  ASSUME NEW n \in Sizes
  PROVE  RoundToPage(n) \in Sizes /\ RoundToPage(n) >= n
<1>1. n \in Nat /\ PAGE_SIZE \in Nat
  BY SizesAssumption
<1>2. IsRoundedUp(n, n)
  BY <1>1 DEF IsRoundedUp
<1>3. RoundUp(n) \in Sizes /\ IsRoundedUp(n, RoundUp(n))
  BY <1>2, Zenon DEF RoundUp
<1>4. RoundUp(n) >= n /\ RoundUp(n) \in Nat
  BY <1>3, SizesAssumption DEF IsRoundedUp
<1>5. CASE n <= PAGE_SIZE
  BY <1>1, <1>5, SizesAssumption DEF RoundToPage
<1>6. CASE n > PAGE_SIZE
  BY <1>1, <1>3, <1>4, <1>6 DEF RoundToPage
<1> QED
  BY <1>1, <1>5, <1>6

\* A block that is too large for the request has two halves that are not.
LEMMA HalfStillFits ==
  ASSUME NEW s \in Sizes, NEW n \in Sizes, s > n
  PROVE  /\ s \div 2 \in Sizes /\ s \div 2 >= n
         /\ s \div 2 \in Nat \ {0} /\ s = s \div 2 + s \div 2
<1>1. /\ s % 2 = 0 /\ s \div 2 \in Sizes /\ s \div 2 >= n
      /\ s \in Nat \ {0} /\ s \div 2 \in Nat \ {0}
  BY SizesAssumption
<1> QED
  BY <1>1

NoRepeats(s) == \A i, j \in DOMAIN s : s[i] = s[j] => i = j

\* make_head: the block is on the list, before what was there.
LEMMA PushedFacts ==
  ASSUME NEW S, NEW s \in Seq(S), NEW b
  PROVE  /\ Pushed(s, b) \in Seq(S \cup {b})
         /\ ToSet(Pushed(s, b)) = ToSet(s) \cup {b}
         /\ NoRepeats(s) /\ b \notin ToSet(s) => NoRepeats(Pushed(s, b))
<1> DEFINE r == Pushed(s, b)
<1>1. /\ r \in Seq(S \cup {b}) /\ Len(r) = Len(s) + 1 /\ Len(s) \in Nat
      /\ r[1] = b /\ \A i \in 1 .. Len(s) : r[i + 1] = s[i]
      /\ DOMAIN s = 1 .. Len(s) /\ DOMAIN r = 1 .. Len(s) + 1
  BY DEF Pushed, Cons
<1> HIDE DEF r
<1>2. \A i \in DOMAIN r : i = 1 \/ \E k \in DOMAIN s : i = k + 1 /\ r[i] = s[k]
  <2> TAKE i \in DOMAIN r
  <2>1. CASE i # 1
    <3>1. i - 1 \in DOMAIN s /\ i = (i - 1) + 1
      BY <1>1, <2>1
    <3> QED
      BY <1>1, <3>1
  <2> QED
    BY <2>1
<1>3. ToSet(r) = ToSet(s) \cup {b}
  <2>1. ASSUME NEW c \in ToSet(r) PROVE c \in ToSet(s) \cup {b}
    BY <1>1, <1>2 DEF ToSet
  <2>2. ASSUME NEW c \in ToSet(s) PROVE c \in ToSet(r)
    <3>1. PICK k \in DOMAIN s : c = s[k]
      BY DEF ToSet
    <3>2. k + 1 \in DOMAIN r /\ r[k + 1] = c
      BY <1>1, <3>1
    <3> QED
      BY <3>2 DEF ToSet
  <2>3. b \in ToSet(r)
    <3>1. 1 \in DOMAIN r
      BY <1>1
    <3> QED
      BY <1>1, <3>1 DEF ToSet
  <2> QED
    BY <2>1, <2>2, <2>3
<1>4. ASSUME b \notin ToSet(s), \A i, j \in DOMAIN s : s[i] = s[j] => i = j,
             NEW i \in DOMAIN r, NEW j \in DOMAIN r, r[i] = r[j]
      PROVE  i = j
  <2>1. \A k \in DOMAIN s : s[k] # b
    BY <1>4 DEF ToSet
  <2> QED
    BY <1>1, <1>2, <1>4, <2>1
<1> QED
  BY <1>1, <1>3, <1>4 DEF r, NoRepeats

\* sink: a block that is on the list once leaves it, and nothing else does.
LEMMA SunkFacts ==
  ASSUME NEW S, NEW s \in Seq(S), NEW b \in ToSet(s), NoRepeats(s)
  PROVE  /\ Sunk(s, b) \in Seq(S)
         /\ ToSet(Sunk(s, b)) = ToSet(s) \ {b}
         /\ NoRepeats(Sunk(s, b))
<1> DEFINE r == Sunk(s, b)
<1>1. PICK p \in DOMAIN s : s[p] = b /\ r = RemoveAt(s, p)
  <2>1. \E p \in DOMAIN s : s[p] = b
    BY DEF ToSet
  <2> QED
    BY <2>1, Zenon DEF Sunk
<1>2. DOMAIN s = 1 .. Len(s) /\ Len(s) \in Nat \ {0} /\ p \in 1 .. Len(s)
  OBVIOUS
<1>3. /\ SubSeq(s, 1, p - 1) \in Seq(S) /\ SubSeq(s, p + 1, Len(s)) \in Seq(S)
      /\ Len(SubSeq(s, 1, p - 1)) = p - 1 /\ Len(SubSeq(s, p + 1, Len(s))) = Len(s) - p
      /\ \A i \in 1 .. p - 1 : SubSeq(s, 1, p - 1)[i] = s[i]
      /\ \A i \in 1 .. Len(s) - p : SubSeq(s, p + 1, Len(s))[i] = s[p + i]
  BY <1>2
<1> HIDE DEF r
<1>4. /\ r \in Seq(S) /\ DOMAIN r = 1 .. Len(s) - 1
      /\ \A i \in 1 .. p - 1 : r[i] = s[i]
      /\ \A i \in p .. Len(s) - 1 : r[i] = s[i + 1]
  <2>1. PICK x \in Seq(S), y \in Seq(S) :
          x = SubSeq(s, 1, p - 1) /\ y = SubSeq(s, p + 1, Len(s))
    BY <1>3
  <2>2. r = x \o y /\ Len(x) = p - 1 /\ Len(y) = Len(s) - p
    BY <1>1, <1>3, <2>1 DEF RemoveAt
  <2>0. /\ x \o y \in Seq(S) /\ Len(x \o y) = Len(x) + Len(y)
        /\ \A i \in 1 .. Len(x) + Len(y) :
             (x \o y)[i] = IF i <= Len(x) THEN x[i] ELSE y[i - Len(x)]
    BY ConcatProperties
  <2>3. r \in Seq(S) /\ Len(r) = Len(s) - 1
    <3>1. r \in Seq(S) /\ Len(r) = Len(x) + Len(y)
      BY <2>0, <2>2, Zenon
    <3> QED
      BY <1>2, <2>2, <3>1
  <2>4. \A i \in 1 .. p - 1 : r[i] = s[i]
    BY <1>2, <1>3, <2>1, <2>2
  <2>5. ASSUME NEW i \in p .. Len(s) - 1 PROVE r[i] = s[i + 1]
    <3>1. PICK k \in 1 .. Len(s) - p : i = (p - 1) + k
      <4>0. Len(s) \in Nat /\ p \in Nat /\ i \in Nat /\ p <= i /\ i <= Len(s) - 1
        BY <1>2, <2>5
      <4>1. PICK n, q, j : /\ n = Len(s) /\ q = p /\ j = i
                           /\ n \in Nat /\ q \in Nat /\ j \in Nat /\ q <= j /\ j <= n - 1
        BY <4>0, Zenon
      <4>2. j - (q - 1) \in 1 .. n - q /\ j = (q - 1) + (j - (q - 1))
        BY ONLY <4>1
      <4> QED
        BY <4>1, <4>2
    <3>2. r[i] = y[k]
      <4>0. /\ Len(s) \in Nat /\ p \in Nat /\ 1 <= p /\ p <= Len(s)
            /\ k \in Nat /\ 1 <= k /\ k <= Len(s) - p
            /\ Len(x) = p - 1 /\ Len(y) = Len(s) - p
        BY <1>2, <2>2, <3>1
      <4>1. i - Len(x) = k /\ ~ (i <= Len(x))
        BY ONLY <3>1, <4>0
      <4>2. i \in 1 .. Len(x) + Len(y)
        BY ONLY <3>1, <4>0
      <4>3. (x \o y)[i] = IF i <= Len(x) THEN x[i] ELSE y[i - Len(x)]
        BY <2>0, <4>2
      <4> QED
        BY <2>2, <4>1, <4>3, Zenon
    <3>3. p + k = i + 1 /\ y[k] = s[p + k]
      BY <1>2, <1>3, <2>1, <3>1
    <3> QED
      BY <3>2, <3>3
  <2> QED
    BY <1>2, <2>3, <2>4, <2>5
<1>5. \A i \in DOMAIN r : \E k \in DOMAIN s :
        k # p /\ r[i] = s[k] /\ k = IF i < p THEN i ELSE i + 1
  <2> TAKE i \in DOMAIN r
  <2>1. CASE i < p
    BY <1>2, <1>4, <2>1
  <2>2. CASE i >= p
    <3>1. i + 1 \in DOMAIN s /\ i + 1 # p /\ r[i] = s[i + 1]
      BY <1>2, <1>4, <2>2
    <3> QED
      BY <1>2, <1>4, <2>2, <3>1
  <2> QED
    BY <1>2, <1>4, <2>1, <2>2
<1>6. ToSet(r) = ToSet(s) \ {b}
  <2>1. ASSUME NEW c \in ToSet(r) PROVE c \in ToSet(s) \ {b}
    <3>1. PICK i \in DOMAIN r : c = r[i]
      BY DEF ToSet
    <3>2. PICK k \in DOMAIN s : k # p /\ c = s[k]
      BY <1>5, <3>1
    <3> QED
      BY <1>1, <3>2 DEF ToSet, NoRepeats
  <2>2. ASSUME NEW c \in ToSet(s) \ {b} PROVE c \in ToSet(r)
    <3>1. PICK k \in DOMAIN s : c = s[k] /\ k # p
      BY <1>1 DEF ToSet
    <3>2. CASE k < p
      <4>1. k \in DOMAIN r /\ r[k] = c
        BY <1>2, <1>4, <3>1, <3>2
      <4> QED
        BY <4>1 DEF ToSet
    <3>3. CASE k > p
      <4>1. k - 1 \in DOMAIN r /\ r[k - 1] = s[(k - 1) + 1] /\ (k - 1) + 1 = k
        BY <1>2, <1>4, <3>3
      <4> QED
        BY <3>1, <4>1 DEF ToSet
    <3> QED
      BY <1>2, <3>1, <3>2, <3>3
  <2> QED
    BY <2>1, <2>2
<1>7. ASSUME NEW i \in DOMAIN r, NEW j \in DOMAIN r, r[i] = r[j] PROVE i = j
  <2>1. (IF i < p THEN i ELSE i + 1) = (IF j < p THEN j ELSE j + 1)
    BY <1>5, <1>7 DEF NoRepeats
  <2> QED
    BY <1>2, <1>4, <2>1
<1> QED
  BY <1>4, <1>6, <1>7 DEF r, NoRepeats

\* The counters stay numbers.
LEMMA CountedFacts ==
  ASSUME NEW c \in [blk : Int, used_blk : Int, free_blk : Int],
         NEW b \in Int, NEW u \in Int, NEW f \in Int
  PROVE  Counted(c, b, u, f) \in [blk : Int, used_blk : Int, free_blk : Int]
<1>1. c.blk \in Int /\ c.used_blk \in Int /\ c.free_blk \in Int
  OBVIOUS
<1>2. c.blk + b \in Int /\ c.used_blk + u \in Int /\ c.free_blk + f \in Int
  BY <1>1
<1> QED
  BY <1>2 DEF Counted

------------------------------------------------------------------------------
(* The threads that do not move. *)

\* Only thread t moves.
Alone(t) ==
  \A u \in Threads \ {t} :
    /\ pc'[u] = pc[u] /\ Arena'[u] = Arena[u] /\ call'[u] = call[u] /\ query'[u] = query[u]
    /\ node'[u] = node[u] /\ cursor'[u] = cursor[u]

\* A step takes no lock from the other threads.
LocksLeft(t) ==
  \A u \in Threads \ {t} :
    /\ arena_list_lock = u => arena_list_lock' = u
    /\ \A a \in Arenas : lock[a] = u => lock'[a] = u

\* They are where they were, with the locks they had.
LEMMA OthersInStep ==
  ASSUME IInv, NEW t \in Threads, Alone(t), LocksLeft(t), UNCHANGED ArenaList,
         NEW u \in Threads \ {t}
  PROVE  InStep(u)' /\ Locked(u)'
<1>1. InStep(u) /\ Locked(u) /\ Arena[u] \in Arenas \cup {NoArena}
  BY DEF IInv, TypeOK
<1>2. InStep(u)'
  BY <1>1 DEF InStep, Alone, LocksLeft
<1>3. Locked(u)'
  <2>1. Cores \subseteq Arenas
    BY DEF Arenas
  <2>2. pc[u] \in InArena => Arena[u] \in Arenas
    BY <1>1 DEF InStep, InArena, MallocPcs, FreePcs, Arenas
  <2> QED
    BY <1>1, <2>1, <2>2 DEF Locked, Alone, LocksLeft
<1> QED
  BY <1>2, <1>3

\* What they are looking for is what it was.
LEMMA OthersNeed ==
  ASSUME NEW t \in Threads, Alone(t), NEW u \in Threads \ {t}
  PROVE  Needed(u)' = Needed(u) /\ FreshLen(u)' = FreshLen(u)
<1>1. Asked(u)' = Asked(u)
  BY DEF Alone, Asked
<1>2. Needed(u)' = Needed(u)
  BY <1>1 DEF Needed
<1> QED
  BY <1>2 DEF FreshLen

\* A step that leaves the memory alone, and does not map any, leaves every block
\* where it was.
LEMMA BlocksKept ==
  ASSUME IInv, NEW t \in Threads, Alone(t), UNCHANGED <<size, list, live, mapped, ArenaList>>,
         fault = "none", pc'[t] # "m_total", WorksOn(t)'
  PROVE  Blocks' /\ \A u \in Threads : WorksOn(u)'
<1>1. ASSUME NEW u \in Threads \ {t} PROVE WorksOn(u)'
  <2>1. WorksOn(u)
    BY DEF IInv
  <2>2. Needed(u)' = Needed(u)
    BY OthersNeed
  <2> QED
    BY <2>1, <2>2 DEF WorksOn, Alone
<1>2. BlocksApart' /\ ListsEmpty' /\ LiveFits'
  BY DEF IInv, Blocks, BlocksApart, ListsEmpty, LiveFits
<1>3. OneOwner'
  BY DEF IInv, Blocks, OneOwner, Used
<1>4. FreshApart'
  <2> SUFFICES ASSUME NEW u \in Threads, pc'[u] = "m_total"
               PROVE  /\ node'[u] > 0 /\ node'[u] + FreshLen(u)' <= mapped
                      /\ \A b \in DOMAIN size : \/ b + size[b] <= node'[u]
                                                \/ node'[u] + FreshLen(u)' <= b
                      /\ \A v \in Threads \ {u} : pc'[v] = "m_total" =>
                           \/ node'[u] + FreshLen(u)' <= node'[v]
                           \/ node'[v] + FreshLen(v)' <= node'[u]
    BY DEF FreshApart
  <2>1. ASSUME NEW v \in Threads, pc'[v] = "m_total"
        PROVE  pc[v] = "m_total" /\ node'[v] = node[v] /\ FreshLen(v)' = FreshLen(v)
    BY <2>1, OthersNeed DEF Alone
  <2> QED
    BY <2>1 DEF IInv, Blocks, FreshApart
<1> QED
  BY <1>1, <1>2, <1>3, <1>4 DEF Blocks

\* The arenas stay dealt out as they are.
LEMMA DealtKept ==
  ASSUME Dealt, UNCHANGED <<ArenaList, arena_ct>>,
         \A u \in Threads, a \in Cores : Arena'[u] = a <=> Arena[u] = a
  PROVE  Dealt'
<1>1. \A a \in Cores : Served(a)' = Served(a)
  BY DEF Served
<1> QED
  BY <1>1 DEF Dealt

\* A step of one thread that leaves the memory and the locks of the others alone.
LEMMA StepKeeps ==
  ASSUME IInv, NEW t \in Threads, Alone(t), LocksLeft(t),
         UNCHANGED <<size, list, live, mapped, ArenaList>>,
         fault = "none", pc'[t] # "m_total",
         TypeOK', InStep(t)', Locked(t)', WorksOn(t)', Dealt'
  PROVE  IInv'
<1>1. Blocks' /\ \A u \in Threads : WorksOn(u)'
  BY BlocksKept
<1>2. \A u \in Threads : InStep(u)' /\ Locked(u)'
  BY OthersInStep
<1> QED
  BY <1>1, <1>2 DEF IInv

------------------------------------------------------------------------------
(* Init and the steps that leave the memory alone. *)

\* Before the first call there are no blocks, and no thread has an arena.
LEMMA InitIInv == Init => IInv
<1> SUFFICES ASSUME Init PROVE IInv
  OBVIOUS
<1>1. TypeOK
  BY SizesAssumption, ConstantsAssumption DEF Init, TypeOK, Arenas, Cores, Zero
<1>2. \A t \in Threads : InStep(t) /\ Locked(t) /\ WorksOn(t)
  BY ConstantsAssumption
     DEF Init, InStep, Locked, WorksOn, Arenas, Cores, MallocPcs, FreePcs, ForkPcs, InArena, InList
<1>3. Blocks
  <2>1. BlocksApart /\ FreshApart /\ LiveFits /\ ListsEmpty
    BY SizesAssumption
       DEF Init, BlocksApart, FreshApart, LiveFits, ListsEmpty, Arenas
  <2>2. OneOwner
    BY DEF Init, OneOwner, Used, Arenas
  <2> QED
    BY <2>1, <2>2 DEF Blocks
<1>4. Dealt
  <2>1. \A a \in Cores : Served(a) = {}
    BY ConstantsAssumption DEF Init, Served, Arenas
  <2>2. IsFiniteSet({}) /\ Cardinality({}) = 0
    BY FS_EmptySet
  <2>3. 0 \in Cores /\ 0 * CORE_COUNT + 0 = 0
    BY ConstantsAssumption DEF Cores
  <2>4. \A a \in Cores : ~ (a < 0)
    BY DEF Cores
  <2>5. arena_ct = 0 * CORE_COUNT + 0
    BY <2>3 DEF Init
  <2>6. \A a \in Cores : /\ IsFiniteSet(Served(a))
                         /\ Cardinality(Served(a)) = IF a < 0 THEN 0 + 1 ELSE 0
    BY <2>1, <2>2, <2>4
  <2> QED
    BY <2>3, <2>5, <2>6 DEF Dealt, Init
<1> QED
  BY <1>1, <1>2, <1>3, <1>4 DEF IInv

\* The calls begin.
LEMMA CallIInv ==
  ASSUME IInv, NEW t \in Threads, (\E q \in Queries : MallocCall(t, q)) \/ ForkCall(t)
  PROVE  IInv'
<1>1. /\ fault = "none" /\ pc[t] = "idle" /\ UNCHANGED <<memory, roster, locks, node, cursor>>
      /\ UNCHANGED <<size, list, live, mapped, count, ArenaList, arena_ct, Arena, lock,
                     arena_list_lock, seen, total_alloc_size, child, fault>>
  BY DEF MallocCall, ForkCall, At, memory, roster, locks
<1>2. TypeOK /\ InStep(t) /\ Locked(t) /\ WorksOn(t) /\ Dealt
  BY DEF IInv
<1>3. TypeOK'
  <2>1. CASE \E q \in Queries : MallocCall(t, q)
    BY <1>1, <1>2, <2>1 DEF MallocCall, Goto, TypeOK, InArena, InList
  <2>2. CASE ForkCall(t)
    BY <1>1, <1>2, <2>2 DEF ForkCall, Goto, TypeOK, InArena, InList
  <2> QED
    BY <2>1, <2>2
<1>4. Alone(t) /\ LocksLeft(t)
  BY <1>1, <1>2 DEF MallocCall, ForkCall, Goto, TypeOK, Alone, LocksLeft
<1>5. /\ pc'[t] = IF Arena[t] = NoArena THEN "i_lock"
                  ELSE IF call'[t] = "malloc" THEN "m_lock" ELSE "k_arenas"
      /\ call'[t] = "malloc" => query'[t] \in Queries
  BY <1>1, <1>2 DEF MallocCall, ForkCall, Goto, TypeOK
<1>6. InStep(t)'
  BY <1>1, <1>2, <1>5, ConstantsAssumption DEF InStep, MallocPcs, FreePcs, ForkPcs, TypeOK, Arenas
<1>7. Locked(t)' /\ WorksOn(t)' /\ pc'[t] # "m_total"
  <2>1. cursor'[t] = 0 /\ 0 \in Cores /\ \A a \in Cores : ~ (a < 0)
    BY <1>1, <1>2, ConstantsAssumption DEF InStep, Cores
  <2> QED
    BY <1>5, <2>1 DEF Locked, WorksOn, InArena, InList
<1>8. Dealt'
  BY <1>1, <1>2, DealtKept
<1> QED
  BY <1>1, <1>3, <1>4, <1>6, <1>7, <1>8, StepKeeps

\* initialize_arena up to where the thread has an arena to work in.
LEMMA InitLockIInv ==
  ASSUME IInv, NEW t \in Threads, InitLock(t)
  PROVE  IInv'
<1>1. /\ fault = "none" /\ pc[t] = "i_lock"
      /\ pc' = [pc EXCEPT ![t] = "i_list"] /\ arena_list_lock = NoThread /\ arena_list_lock' = t
      /\ UNCHANGED <<size, list, live, mapped, count, ArenaList, arena_ct, Arena, lock, call,
                     query, node, cursor, seen, total_alloc_size, child, fault>>
  BY DEF InitLock, LockForInit, LockList, Goto, At, memory, roster
<1>2. TypeOK /\ InStep(t) /\ Locked(t) /\ WorksOn(t) /\ Dealt
  BY DEF IInv
<1>3. TypeOK'
  BY <1>1, <1>2 DEF TypeOK, InArena, InList
<1>4. Alone(t) /\ LocksLeft(t) /\ pc'[t] = "i_list"
  BY <1>1, <1>2, ConstantsAssumption DEF TypeOK, Alone, LocksLeft
<1>5. InStep(t)' /\ Locked(t)' /\ WorksOn(t)'
  BY <1>1, <1>2, <1>4, ConstantsAssumption
     DEF InStep, Locked, WorksOn, MallocPcs, FreePcs, ForkPcs, InArena, InList
<1>6. Dealt'
  BY <1>1, <1>2, DealtKept
<1> QED
  BY <1>1, <1>3, <1>4, <1>5, <1>6, StepKeeps

\* The temporary arena is borrowed.
LEMMA UseTempArenaIInv ==
  ASSUME IInv, NEW t \in Threads, UseTempArena(t)
  PROVE  IInv'
<1>1. /\ fault = "none" /\ pc[t] = "i_list" /\ ArenaList = 0
      /\ pc' = [pc EXCEPT ![t] = "m_lock"] /\ Arena' = [Arena EXCEPT ![t] = Temp]
      /\ UNCHANGED <<size, list, live, mapped, count, ArenaList, arena_ct, lock,
                     arena_list_lock, call, query, node, cursor, seen, total_alloc_size,
                     child, fault>>
  BY DEF UseTempArena, Goto, At, memory, locks
<1>2. TypeOK /\ InStep(t) /\ Locked(t) /\ WorksOn(t) /\ Dealt
  BY DEF IInv
<1>3. TypeOK'
  BY <1>1, <1>2 DEF TypeOK, InArena, InList, Arenas
<1>4. /\ Alone(t) /\ LocksLeft(t) /\ pc'[t] = "m_lock" /\ Arena'[t] = Temp
      /\ Arena[t] = NoArena /\ arena_list_lock = t
  BY <1>1, <1>2 DEF TypeOK, Alone, LocksLeft, InStep, Locked, InList
<1>5. InStep(t)' /\ Locked(t)' /\ WorksOn(t)'
  BY <1>1, <1>2, <1>4, ConstantsAssumption
     DEF InStep, Locked, WorksOn, MallocPcs, FreePcs, ForkPcs, InArena, InList, Arenas
<1>6. Dealt'
  <2>1. \A u \in Threads, a \in Cores : Arena'[u] = a <=> Arena[u] = a
    BY <1>1, <1>2, <1>4, ConstantsAssumption DEF TypeOK, Arenas
  <2> QED
    BY <1>1, <1>2, <2>1, DealtKept
<1> QED
  BY <1>1, <1>3, <1>4, <1>5, <1>6, StepKeeps

\* A lock is taken: by malloc, by free, or by fork for the array.
LEMMA LockIInv ==
  ASSUME IInv, NEW t \in Threads, MallocLock(t) \/ FreeLock(t) \/ ForkLockList(t)
  PROVE  IInv'
<1>1. /\ fault = "none" /\ pc[t] \in {"m_lock", "f_lock", "k_list"}
      /\ pc' = [pc EXCEPT ![t] = IF pc[t] = "m_lock" THEN "m_search"
                                 ELSE IF pc[t] = "f_lock" THEN "f_count" ELSE "k_fork"]
      /\ IF pc[t] = "k_list" THEN LockList(t) /\ UNCHANGED lock
                             ELSE LockArena(t, Arena[t]) /\ UNCHANGED arena_list_lock
      /\ UNCHANGED <<size, list, live, mapped, count, ArenaList, arena_ct, Arena, call,
                     query, node, cursor, seen, total_alloc_size, child, fault>>
  BY DEF MallocLock, FreeLock, ForkLockList, Goto, At, memory, roster
<1>2. TypeOK /\ InStep(t) /\ Locked(t) /\ WorksOn(t) /\ Dealt
  BY DEF IInv
<1>3. pc[t] # "k_list" => Arena[t] \in Arenas
  BY <1>1, <1>2 DEF TypeOK, InStep, MallocPcs, FreePcs, Arenas
<1>4. TypeOK'
  <2>1. /\ lock' \in [Arenas -> Threads \cup {NoThread}]
        /\ arena_list_lock' \in Threads \cup {NoThread}
    <3>1. /\ lock \in [Arenas -> Threads \cup {NoThread}]
          /\ arena_list_lock \in Threads \cup {NoThread}
      BY <1>2 DEF TypeOK
    <3>2. CASE pc[t] = "k_list"
      BY <1>1, <3>1, <3>2 DEF LockList
    <3>3. CASE pc[t] # "k_list"
      BY <1>1, <1>3, <3>1, <3>3 DEF LockArena
    <3> QED
      BY <3>2, <3>3
  <2> QED
    BY <1>1, <1>2, <2>1, SMTT(30) DEF TypeOK, InArena, InList
<1>5. /\ Alone(t) /\ LocksLeft(t) /\ pc'[t] \in {"m_search", "f_count", "k_fork"}
      /\ pc'[t] = "k_fork" => arena_list_lock' = t /\ pc[t] = "k_list"
      /\ pc'[t] # "k_fork" => lock'[Arena[t]] = t
  BY <1>1, <1>2, <1>3, ConstantsAssumption, SMTT(30)
     DEF TypeOK, Alone, LocksLeft, LockList, LockArena
<1>6. InStep(t)'
  BY <1>1, <1>2, <1>5, ConstantsAssumption
     DEF InStep, MallocPcs, FreePcs, ForkPcs, LockList, LockArena
<1>7. Locked(t)' /\ WorksOn(t)'
  BY <1>1, <1>2, <1>5 DEF Locked, WorksOn, InArena, InList, LockList
<1>8. Dealt'
  BY <1>1, <1>2, DealtKept
<1> QED
  BY <1>1, <1>4, <1>5, <1>6, <1>7, <1>8, StepKeeps

\* The search finds a block of the thread's own list.
LEMMA FirstFitIInv ==
  ASSUME IInv, NEW t \in Threads, FirstFit(t)
  PROVE  IInv'
<1>1. /\ fault = "none" /\ pc[t] = "m_search" /\ pc' = [pc EXCEPT ![t] = "m_fit"]
      /\ UNCHANGED <<size, list, live, mapped, count, ArenaList, arena_ct, Arena, lock,
                     arena_list_lock, call, query, cursor, seen, total_alloc_size, child, fault>>
  BY DEF FirstFit, Goto, At, memory, roster, locks
<1>2. TypeOK /\ InStep(t) /\ Locked(t) /\ WorksOn(t) /\ Dealt
  BY DEF IInv
<1>3. Arena[t] \in Arenas
  BY <1>1, <1>2 DEF TypeOK, InStep, MallocPcs
<1>4. PICK i \in DOMAIN list[Arena[t]] : /\ size[list[Arena[t]][i]] >= Needed(t)
                                         /\ node' = [node EXCEPT ![t] = list[Arena[t]][i]]
  BY DEF FirstFit, Fitting
<1>5. list[Arena[t]][i] \in ToSet(list[Arena[t]]) /\ list[Arena[t]][i] \in Nat
  <2>1. list[Arena[t]] \in Seq(DOMAIN size) /\ DOMAIN size \subseteq Nat
    BY <1>2, <1>3 DEF TypeOK
  <2>2. list[Arena[t]][i] \in DOMAIN size
    BY <2>1
  <2> QED
    BY <2>1, <2>2 DEF ToSet
<1>6. TypeOK'
  BY <1>1, <1>2, <1>4, <1>5 DEF TypeOK, InArena, InList
<1>7. Alone(t) /\ LocksLeft(t) /\ pc'[t] = "m_fit" /\ node'[t] = list[Arena[t]][i]
  BY <1>1, <1>2, <1>4 DEF TypeOK, Alone, LocksLeft
<1>8. InStep(t)' /\ Locked(t)'
  BY <1>1, <1>2, <1>7 DEF InStep, Locked, MallocPcs, FreePcs, ForkPcs, InArena, InList
<1>9. WorksOn(t)'
  <2>1. Needed(t)' = Needed(t)
    BY <1>1 DEF Needed, Asked
  <2> QED
    BY <1>1, <1>4, <1>5, <1>7, <2>1 DEF WorksOn
<1>10. Dealt'
  BY <1>1, <1>2, DealtKept
<1> QED
  BY <1>1, <1>6, <1>7, <1>8, <1>9, <1>10, StepKeeps

\* mmap fails: the call ends, or the process.
LEMMA OutOfMemoryIInv ==
  ASSUME IInv, NEW t \in Threads, OutOfMemory(t)
  PROVE  IInv'
<1>1. /\ fault = "none" /\ pc[t] = "m_search"
      /\ lock' = [lock EXCEPT ![Arena[t]] = Unlocked(@, t)]
      /\ IF Arena[t] = Temp
           THEN fault' = "calloc" /\ Goto(t, "i_copy") /\ UNCHANGED <<call, query>>
           ELSE Return(t) /\ UNCHANGED fault
      /\ UNCHANGED <<size, list, live, mapped, count, ArenaList, arena_ct, Arena,
                     arena_list_lock, node, cursor, seen, total_alloc_size, child>>
  BY DEF OutOfMemory, At, memory, roster
<1>2. TypeOK /\ InStep(t) /\ Locked(t) /\ WorksOn(t) /\ Dealt
  BY DEF IInv
<1>3. Arena[t] \in Arenas
  BY <1>1, <1>2 DEF TypeOK, InStep, MallocPcs
<1>4. TypeOK'
  BY <1>1, <1>2, <1>3 DEF TypeOK, InArena, InList, Goto, Return, Unlocked
<1>5. /\ Alone(t) /\ LocksLeft(t)
      /\ pc'[t] = IF Arena[t] = Temp THEN "i_copy" ELSE "idle"
      /\ Arena[t] # Temp => call'[t] = "none"
  BY <1>1, <1>2, <1>3 DEF TypeOK, Alone, LocksLeft, Goto, Return, Unlocked
<1>6. InStep(t)'
  BY <1>1, <1>2, <1>3, <1>5, ConstantsAssumption DEF InStep, MallocPcs, FreePcs, ForkPcs
<1>7. Locked(t)' /\ WorksOn(t)' /\ pc'[t] # "m_total"
  BY <1>1, <1>2, <1>5 DEF Locked, WorksOn, InArena, InList, InStep
<1>8. Dealt'
  BY <1>1, <1>2, DealtKept
<1> QED
  BY <1>1, <1>4, <1>5, <1>6, <1>7, <1>8, StepKeeps

\* free counts, and gives the lock back.
LEMMA FreeCountIInv ==
  ASSUME IInv, NEW t \in Threads, FreeCount(t)
  PROVE  IInv'
<1>1. /\ fault = "none" /\ pc[t] = "f_count" /\ Return(t)
      /\ count' = [count EXCEPT ![Arena[t]] = Counted(@, 0, -1, 1)]
      /\ lock' = [lock EXCEPT ![Arena[t]] = Unlocked(@, t)]
      /\ UNCHANGED <<size, list, live, mapped, ArenaList, arena_ct, Arena,
                     arena_list_lock, node, cursor, seen, total_alloc_size, child, fault>>
  BY DEF FreeCount, At, roster
<1>2. TypeOK /\ InStep(t) /\ Locked(t) /\ WorksOn(t) /\ Dealt
  BY DEF IInv
<1>3. Arena[t] \in Cores /\ Arena[t] \in Arenas
  BY <1>1, <1>2 DEF InStep, FreePcs, Arenas
<1>4. TypeOK'
  <2>1. count' \in [Arenas -> [blk : Int, used_blk : Int, free_blk : Int]]
    <3>1. count[Arena[t]] \in [blk : Int, used_blk : Int, free_blk : Int]
      BY <1>2, <1>3 DEF TypeOK
    <3>2. Counted(count[Arena[t]], 0, -1, 1) \in [blk : Int, used_blk : Int, free_blk : Int]
      BY <3>1, CountedFacts
    <3> QED
      BY <1>1, <1>2, <3>2 DEF TypeOK
  <2>2. lock' \in [Arenas -> Threads \cup {NoThread}]
    BY <1>1, <1>2, <1>3 DEF TypeOK, Unlocked
  <2> QED
    BY <1>1, <1>2, <2>1, <2>2 DEF TypeOK, InArena, InList, Goto, Return
<1>5. Alone(t) /\ LocksLeft(t) /\ pc'[t] = "idle" /\ call'[t] = "none"
  BY <1>1, <1>2, <1>3 DEF TypeOK, Alone, LocksLeft, Goto, Return, Unlocked
<1>6. InStep(t)' /\ Locked(t)' /\ WorksOn(t)'
  BY <1>1, <1>2, <1>3, <1>5, ConstantsAssumption
     DEF InStep, Locked, WorksOn, MallocPcs, FreePcs, ForkPcs, InArena, InList
<1>7. Dealt'
  BY <1>1, <1>2, DealtKept
<1> QED
  BY <1>1, <1>4, <1>5, <1>6, <1>7, StepKeeps

\* fork_prepare has one lock more.
LEMMA ForkLockArenaIInv ==
  ASSUME IInv, NEW t \in Threads, ForkLockArena(t)
  PROVE  IInv'
<1>1. /\ fault = "none" /\ pc[t] = "k_arenas"
      /\ lock[cursor[t]] = NoThread /\ lock' = [lock EXCEPT ![cursor[t]] = t]
      /\ IF cursor[t] = CORE_COUNT - 1
           THEN pc' = [pc EXCEPT ![t] = "k_list"] /\ cursor' = [cursor EXCEPT ![t] = 0]
           ELSE cursor' = [cursor EXCEPT ![t] = @ + 1] /\ UNCHANGED pc
      /\ UNCHANGED <<size, list, live, mapped, count, ArenaList, arena_ct, Arena,
                     arena_list_lock, call, query, node, seen, total_alloc_size, child, fault>>
  BY DEF ForkLockArena, LockNext, LockArena, ArenaToLock, Goto, At, memory, roster
<1>2. TypeOK /\ InStep(t) /\ Locked(t) /\ WorksOn(t) /\ Dealt
  BY DEF IInv
<1>3. /\ cursor[t] \in Cores /\ \A a \in Cores : a < cursor[t] => lock[a] = t
      /\ Cores \subseteq Arenas /\ CORE_COUNT \in Nat \ {0}
  BY <1>1, <1>2, ConstantsAssumption DEF Locked, Arenas
<1>4. /\ \A a \in Cores : a <= cursor[t] => lock'[a] = t
      /\ \A a \in Cores : a <= CORE_COUNT - 1
  BY <1>1, <1>2, <1>3 DEF TypeOK, Cores
<1>5. TypeOK'
  <2>1. lock' \in [Arenas -> Threads \cup {NoThread}]
    BY <1>1, <1>2 DEF TypeOK
  <2>2. cursor' \in [Threads -> 0 .. CORE_COUNT]
    <3>1. cursor[t] + 1 \in 0 .. CORE_COUNT /\ 0 \in 0 .. CORE_COUNT
      BY <1>3 DEF Cores
    <3>2. cursor \in [Threads -> 0 .. CORE_COUNT]
      BY <1>2 DEF TypeOK
    <3>3. \/ cursor' = [cursor EXCEPT ![t] = 0]
          \/ cursor' = [cursor EXCEPT ![t] = cursor[t] + 1]
      BY <1>1
    <3> QED
      BY <3>1, <3>2, <3>3
  <2> QED
    BY <1>1, <1>2, <2>1, <2>2 DEF TypeOK, InArena, InList
<1>6. Alone(t) /\ LocksLeft(t) /\ pc'[t] \in {"k_arenas", "k_list"}
  <2>1. \A u \in Threads \ {t} : pc'[u] = pc[u] /\ cursor'[u] = cursor[u]
    BY <1>1, <1>2 DEF TypeOK
  <2>2. Alone(t)
    BY <1>1, <2>1 DEF Alone
  <2>3. LocksLeft(t)
    BY <1>1, <1>2, <1>3, ConstantsAssumption DEF TypeOK, LocksLeft
  <2>4. pc'[t] \in {"k_arenas", "k_list"}
    BY <1>1, <1>2 DEF TypeOK
  <2> QED
    BY <2>2, <2>3, <2>4
<1>7. Locked(t)'
  <2>1. CASE cursor[t] = CORE_COUNT - 1
    <3>1. pc'[t] = "k_list"
      BY <1>1, <1>2, <2>1 DEF TypeOK
    <3> QED
      BY <1>3, <1>4, <2>1, <3>1 DEF Locked, InArena, InList
  <2>2. CASE cursor[t] # CORE_COUNT - 1
    <3>1. pc'[t] = "k_arenas" /\ cursor'[t] = cursor[t] + 1
      BY <1>1, <1>2, <2>2 DEF TypeOK
    <3>2. cursor'[t] \in Cores /\ \A a \in Cores : a < cursor'[t] => a <= cursor[t]
      BY <1>3, <2>2, <3>1 DEF Cores
    <3> QED
      BY <1>4, <3>1, <3>2 DEF Locked, InArena, InList
  <2> QED
    BY <2>1, <2>2
<1>8. InStep(t)'
  <2>1. pc'[t] = "k_list" => cursor'[t] = 0
    BY <1>1, <1>2 DEF TypeOK
  <2> QED
    BY <1>1, <1>2, <1>3, <1>6, <2>1 DEF InStep, MallocPcs, FreePcs, ForkPcs
<1>9. WorksOn(t)' /\ pc'[t] # "m_total"
  BY <1>6 DEF WorksOn
<1>10. Dealt'
  BY <1>1, <1>2, DealtKept
<1> QED
  BY <1>1, <1>5, <1>6, <1>7, <1>8, <1>9, <1>10, StepKeeps

\* The fork itself, and after_fork in the parent.
LEMMA ForkIInv ==
  ASSUME IInv, NEW t \in Threads, Fork(t) \/ ForkReleaseArena(t) \/ ForkReleaseList(t)
  PROVE  IInv'
<1>1. /\ fault = "none" /\ pc[t] \in {"k_fork", "k_release"}
      /\ UNCHANGED <<size, list, live, mapped, count, ArenaList, arena_ct, Arena,
                     node, seen, total_alloc_size, fault>>
  BY DEF Fork, ForkReleaseArena, ForkReleaseList, At, memory, roster
<1>2. TypeOK /\ InStep(t) /\ Locked(t) /\ WorksOn(t) /\ Dealt
  BY DEF IInv
<1>3. Cores \subseteq Arenas /\ CORE_COUNT \in Nat \ {0}
  BY ConstantsAssumption DEF Arenas
<1>4. /\ TypeOK' /\ Alone(t) /\ LocksLeft(t) /\ pc'[t] \in {"k_release", "idle"}
      /\ pc'[t] = "idle" => cursor'[t] = 0 /\ call'[t] = "none"
      /\ pc'[t] = "k_release" => UNCHANGED <<call, query>>
  <2>1. CASE Fork(t)
    <3>1. /\ pc' = [pc EXCEPT ![t] = "k_release"]
          /\ child' = [state |-> "after_fork", lock |-> [a \in Cores |-> lock[a]],
                       arena_list_lock |-> arena_list_lock]
          /\ UNCHANGED <<lock, arena_list_lock, call, query, cursor>>
      BY <2>1 DEF Fork, Goto, locks
    <3>2. child' \in [state : {"none", "after_fork", "running"},
                      lock : [Cores -> Threads \cup {NoThread}],
                      arena_list_lock : Threads \cup {NoThread}]
      BY <1>2, <1>3, <3>1 DEF TypeOK
    <3>3. TypeOK'
      BY <1>1, <1>2, <3>1, <3>2 DEF TypeOK, InArena, InList
    <3> QED
      BY <1>1, <1>2, <3>1, <3>3 DEF TypeOK, Alone, LocksLeft
  <2>2. CASE ForkReleaseArena(t)
    <3>1. /\ cursor[t] < CORE_COUNT /\ pc[t] = "k_release"
          /\ lock' = [lock EXCEPT ![cursor[t]] = Unlocked(@, t)]
          /\ cursor' = [cursor EXCEPT ![t] = @ + 1]
          /\ UNCHANGED <<arena_list_lock, call, pc, query, child>>
      BY <2>2 DEF ForkReleaseArena, At
    <3>2. cursor[t] \in Arenas /\ cursor[t] + 1 \in 0 .. CORE_COUNT
      BY <1>2, <1>3, <3>1 DEF TypeOK, Cores
    <3>3. lock' \in [Arenas -> Threads \cup {NoThread}]
      BY <1>2, <3>1, <3>2 DEF TypeOK, Unlocked
    <3>4. TypeOK'
      BY <1>1, <1>2, <3>1, <3>2, <3>3 DEF TypeOK, InArena, InList
    <3> QED
      BY <1>1, <1>2, <3>1, <3>2, <3>4 DEF TypeOK, Alone, LocksLeft, Unlocked
  <2>3. CASE ForkReleaseList(t)
    <3>1. /\ Return(t) /\ arena_list_lock' = Unlocked(arena_list_lock, t)
          /\ cursor' = [cursor EXCEPT ![t] = 0] /\ UNCHANGED <<lock, child>>
      BY <2>3 DEF ForkReleaseList
    <3>2. TypeOK'
      BY <1>1, <1>2, <1>3, <3>1 DEF TypeOK, InArena, InList, Return, Goto, Unlocked
    <3> QED
      BY <1>1, <1>2, <3>1, <3>2, SMTT(30) DEF TypeOK, Alone, LocksLeft, Unlocked, Return, Goto
  <2> QED
    BY <2>1, <2>2, <2>3
<1>5. InStep(t)'
  BY <1>1, <1>2, <1>4, ConstantsAssumption DEF InStep, MallocPcs, FreePcs, ForkPcs, Arenas
<1>6. Locked(t)' /\ WorksOn(t)' /\ pc'[t] # "m_total"
  BY <1>4 DEF Locked, WorksOn, InArena, InList
<1>7. Dealt'
  BY <1>1, <1>2, DealtKept
<1> QED
  BY <1>1, <1>4, <1>5, <1>6, <1>7, StepKeeps

\* One more arena is dealt out, the next in turn.
LEMMA DealOne ==
  ASSUME TypeOK, Dealt, NEW t \in Threads, Arena[t] \notin Cores,
         Arena' = [Arena EXCEPT ![t] = arena_ct % CORE_COUNT],
         arena_ct' = arena_ct + 1, ArenaList' # 0
  PROVE  Dealt' /\ arena_ct % CORE_COUNT \in Cores
<1>1. PICK q \in Nat, r \in Cores :
        /\ arena_ct = q * CORE_COUNT + r
        /\ \A a \in Cores : /\ IsFiniteSet(Served(a))
                            /\ Cardinality(Served(a)) = IF a < r THEN q + 1 ELSE q
  BY DEF Dealt
<1>2. CORE_COUNT \in Nat \ {0} /\ Cores \subseteq Nat
  BY ConstantsAssumption DEF Cores
<1>3. arena_ct % CORE_COUNT = r
  <2>1. PICK m \in Nat \ {0} : m = CORE_COUNT
    BY <1>2
  <2>2. r \in 0 .. m - 1 /\ arena_ct = (m * q) + r
    BY <1>1, <2>1 DEF Cores
  <2> QED
    BY <2>1, <2>2, UniqueQuotient
<1>4. /\ Served(r)' = Served(r) \cup {t} /\ t \notin Served(r)
      /\ \A a \in Cores \ {r} : Served(a)' = Served(a)
  <2>1. Arena \in [Threads -> Arenas \cup {NoArena}]
    BY DEF TypeOK
  <2> QED
    BY <1>3, <2>1 DEF Served
<1>5. /\ IsFiniteSet(Served(r)') /\ Cardinality(Served(r)') = q + 1
  <2>1. IsFiniteSet(Served(r)) /\ Cardinality(Served(r)) = q
    BY <1>1, <1>2
  <2>2. /\ IsFiniteSet(Served(r) \cup {t})
        /\ Cardinality(Served(r) \cup {t}) = Cardinality(Served(r)) + 1
    BY <1>4, <2>1, FS_AddElement
  <2> QED
    BY <1>4, <2>1, <2>2
<1>6. \A a \in Cores : /\ IsFiniteSet(Served(a)')
                       /\ Cardinality(Served(a)') = IF a < r + 1 THEN q + 1 ELSE q
  <2> TAKE a \in Cores
  <2>1. CASE a = r
    BY <1>2, <1>5, <2>1
  <2>2. CASE a # r
    BY <1>1, <1>2, <1>4, <2>2
  <2> QED
    BY <2>1, <2>2
<1>7. CASE r + 1 \in Cores
  <2>1. arena_ct' = q * CORE_COUNT + (r + 1)
    BY <1>1, <1>2
  <2> QED
    BY <1>3, <1>6, <1>7, <2>1 DEF Dealt
<1>8. CASE r + 1 \notin Cores
  <2>1. r + 1 = CORE_COUNT
    BY <1>2, <1>8 DEF Cores
  <2>2. arena_ct' = (q + 1) * CORE_COUNT + 0
    BY <1>1, <1>2, <2>1
  <2>3. 0 \in Cores /\ \A a \in Cores : a < r + 1 /\ ~ (a < 0)
    BY <1>2, <2>1 DEF Cores
  <2>4. \A a \in Cores : /\ IsFiniteSet(Served(a)')
                         /\ Cardinality(Served(a)') = IF a < 0 THEN (q + 1) + 1 ELSE q + 1
    BY <1>6, <2>3
  <2>5. q + 1 \in Nat
    OBVIOUS
  <2> QED
    BY <1>1, <1>3, <2>2, <2>3, <2>4, <2>5 DEF Dealt
<1> QED
  BY <1>7, <1>8

\* A thread gets the next arena of the array.
LEMMA AssignArenaIInv ==
  ASSUME IInv, NEW t \in Threads, AssignArena(t)
  PROVE  IInv'
<1>1. /\ fault = "none" /\ pc[t] = "i_list" /\ ArenaList # 0
      /\ pc' = [pc EXCEPT ![t] = IF call[t] = "malloc" THEN "m_lock" ELSE "k_arenas"]
      /\ Arena' = [Arena EXCEPT ![t] = arena_ct % CORE_COUNT]
      /\ arena_ct' = arena_ct + 1
      /\ arena_list_lock' = Unlocked(arena_list_lock, t)
      /\ UNCHANGED <<size, list, live, mapped, count, ArenaList, lock, call, query, node,
                     cursor, seen, total_alloc_size, child, fault>>
  BY DEF AssignArena, AfterInit, NextArena, Goto, At, memory
<1>2. TypeOK /\ InStep(t) /\ Locked(t) /\ WorksOn(t) /\ Dealt
  BY DEF IInv
<1>3. Arena[t] = NoArena /\ NoArena \notin Cores /\ Cores \subseteq Arenas
  BY <1>1, <1>2, ConstantsAssumption DEF InStep, Arenas
<1>4. Dealt' /\ arena_ct % CORE_COUNT \in Cores
  BY <1>1, <1>2, <1>3, DealOne
<1>5. TypeOK'
  <2>1. Arena' \in [Threads -> Arenas \cup {NoArena}]
    BY <1>1, <1>2, <1>3, <1>4 DEF TypeOK
  <2>2. pc' \in [Threads -> {"idle", "f_lock", "m_lock"} \cup InArena
                            \cup {"i_lock", "k_arenas", "k_list", "k_release"} \cup InList]
    BY <1>1, <1>2 DEF TypeOK, InArena, InList
  <2>3. arena_ct' \in Nat /\ arena_list_lock' \in Threads \cup {NoThread}
    BY <1>1, <1>2 DEF TypeOK, Unlocked
  <2> QED
    BY <1>1, <1>2, <2>1, <2>2, <2>3 DEF TypeOK
<1>6. /\ Alone(t) /\ LocksLeft(t) /\ Arena'[t] \in Cores
      /\ pc'[t] = IF call[t] = "malloc" THEN "m_lock" ELSE "k_arenas"
  <2>1. Alone(t)
    BY <1>1, <1>2 DEF TypeOK, Alone
  <2>2. LocksLeft(t)
    BY <1>1, <1>2 DEF LocksLeft, Unlocked
  <2>3. Arena'[t] \in Cores
    BY <1>1, <1>2, <1>4 DEF TypeOK
  <2>4. pc'[t] = IF call[t] = "malloc" THEN "m_lock" ELSE "k_arenas"
    BY <1>1, <1>2 DEF TypeOK
  <2> QED
    BY <2>1, <2>2, <2>3, <2>4
<1>7. InStep(t)'
  <2>1. Arena'[t] # Temp /\ Arena'[t] # NoArena
    BY <1>3, <1>6, ConstantsAssumption
  <2> QED
    BY <1>1, <1>2, <1>6, <2>1 DEF InStep, MallocPcs, FreePcs, ForkPcs
<1>8. Locked(t)' /\ WorksOn(t)' /\ pc'[t] # "m_total"
  <2>1. cursor'[t] = 0 /\ 0 \in Cores /\ \A a \in Cores : ~ (a < 0)
    BY <1>1, <1>2, ConstantsAssumption DEF InStep, Cores
  <2> QED
    BY <1>6, <2>1 DEF Locked, WorksOn, InArena, InList
<1> QED
  BY <1>1, <1>4, <1>5, <1>6, <1>7, <1>8, StepKeeps

------------------------------------------------------------------------------
(* The lists and their owners. *)

\* OneOwner with the lists as sets.
OwnedOnce(lists, inUse, arenas) ==
  \A a \in arenas :
    /\ ToSet(lists[a]) \cap inUse = {} /\ NoRepeats(lists[a])
    /\ \A c \in arenas \ {a} : ToSet(lists[a]) \cap ToSet(lists[c]) = {}

\* A list and a set share nothing when no place of the list holds a member.
LEMMA ListApart ==
  ASSUME NEW s, NEW V
  PROVE  (ToSet(s) \cap V = {}) <=> \A i \in DOMAIN s : s[i] \notin V
BY DEF ToSet

\* OwnedOnce says what OneOwner says, before a step ...
LEMMA OwnerMeaning == OneOwner <=> OwnedOnce(list, DOMAIN live, Used)
<1>1. \A a \in Used : /\ (ToSet(list[a]) \cap DOMAIN live = {})
                           <=> \A i \in DOMAIN list[a] : list[a][i] \notin DOMAIN live
                      /\ NoRepeats(list[a])
                           <=> \A i, j \in DOMAIN list[a] : list[a][i] = list[a][j] => i = j
  BY ListApart DEF NoRepeats
<1> QED
  BY <1>1 DEF OneOwner, OwnedOnce

\* ... and after it.
LEMMA OwnerMeaningNext == OneOwner' <=> OwnedOnce(list', DOMAIN live', Used')
<1>1. \A a \in Used' : /\ (ToSet(list'[a]) \cap DOMAIN live' = {})
                            <=> \A i \in DOMAIN list'[a] : list'[a][i] \notin DOMAIN live'
                       /\ NoRepeats(list'[a])
                            <=> \A i, j \in DOMAIN list'[a] : list'[a][i] = list'[a][j] => i = j
  BY ListApart DEF NoRepeats
<1> QED
  BY <1>1 DEF OneOwner, OwnedOnce

\* make_head gives a block that nobody has one owner.
LEMMA PushKeeps ==
  ASSUME NEW S, NEW lists \in [Arenas -> Seq(S)], NEW inUse, NEW arenas \in SUBSET Arenas,
         OwnedOnce(lists, inUse, arenas), NEW a \in arenas,
         NEW b, b \notin inUse, \A c \in arenas : b \notin ToSet(lists[c])
  PROVE  OwnedOnce([lists EXCEPT ![a] = Pushed(@, b)], inUse, arenas)
<1>1. /\ ToSet(Pushed(lists[a], b)) = ToSet(lists[a]) \cup {b}
      /\ NoRepeats(Pushed(lists[a], b))
  <2>1. lists[a] \in Seq(S) /\ NoRepeats(lists[a]) /\ b \notin ToSet(lists[a])
    BY DEF OwnedOnce
  <2> QED
    <3>1. PICK s \in Seq(S) : s = lists[a]
      BY <2>1
    <3>2. /\ ToSet(Pushed(s, b)) = ToSet(s) \cup {b}
          /\ NoRepeats(s) /\ b \notin ToSet(s) => NoRepeats(Pushed(s, b))
      BY PushedFacts
    <3> QED
      BY <2>1, <3>1, <3>2
<1> DEFINE new == [lists EXCEPT ![a] = Pushed(@, b)]
<1>2. new[a] = Pushed(lists[a], b) /\ \A c \in arenas \ {a} : new[c] = lists[c]
  OBVIOUS
<1> HIDE DEF new
<1>3. OwnedOnce(new, inUse, arenas)
  <2>1. \A c \in arenas : ToSet(lists[c]) \cap inUse = {} /\ NoRepeats(lists[c])
    BY DEF OwnedOnce
  <2>2. \A c \in arenas : \A d \in arenas \ {c} : ToSet(lists[c]) \cap ToSet(lists[d]) = {}
    BY DEF OwnedOnce
  <2>3. \A c \in arenas : ToSet(new[c]) \cap inUse = {} /\ NoRepeats(new[c])
    BY <1>1, <1>2, <2>1
  <2>4. ASSUME NEW c \in arenas, NEW d \in arenas \ {c}
        PROVE  ToSet(new[c]) \cap ToSet(new[d]) = {}
    <3>1. ToSet(lists[c]) \cap ToSet(lists[d]) = {}
      BY <2>2
    <3>2. CASE c = a
      BY <1>1, <1>2, <3>1, <3>2
    <3>3. CASE d = a
      BY <1>1, <1>2, <3>1, <3>3
    <3>4. CASE c # a /\ d # a
      BY <1>2, <3>1, <3>4
    <3> QED
      BY <3>2, <3>3, <3>4
  <2> QED
    BY <2>3, <2>4 DEF OwnedOnce
<1> QED
  BY <1>3 DEF new

\* sink makes the program its owner.
LEMMA SinkKeeps ==
  ASSUME NEW S, NEW lists \in [Arenas -> Seq(S)], NEW inUse, NEW arenas \in SUBSET Arenas,
         OwnedOnce(lists, inUse, arenas), NEW a \in arenas, NEW b \in ToSet(lists[a])
  PROVE  OwnedOnce([lists EXCEPT ![a] = Sunk(@, b)], inUse \cup {b}, arenas)
<1>1. /\ ToSet(Sunk(lists[a], b)) = ToSet(lists[a]) \ {b}
      /\ NoRepeats(Sunk(lists[a], b))
  <2>1. lists[a] \in Seq(S) /\ NoRepeats(lists[a])
    BY DEF OwnedOnce
  <2> QED
    BY <2>1, SunkFacts
<1> DEFINE new == [lists EXCEPT ![a] = Sunk(@, b)]
<1>2. new[a] = Sunk(lists[a], b) /\ \A c \in arenas \ {a} : new[c] = lists[c]
  OBVIOUS
<1> HIDE DEF new
<1>3. OwnedOnce(new, inUse \cup {b}, arenas)
  BY <1>1, <1>2 DEF OwnedOnce
<1> QED
  BY <1>3 DEF new

\* A call past its lock works in an arena in use, and nobody else does.
LEMMA ArenaOfOne ==
  ASSUME IInv, NEW t \in Threads, pc[t] \in InArena
  PROVE  /\ Arena[t] \in Used /\ Arena[t] \in Arenas /\ Used \subseteq Arenas
         /\ ArenaList = 0 => Arena[t] \notin Cores
         /\ \A u \in Threads \ {t} : pc[u] \in InArena =>
              Arena[u] # Arena[t] /\ Arena[u] \in Used /\ Arena[u] \in Arenas
<1>1. ASSUME NEW u \in Threads, pc[u] \in InArena
      PROVE  /\ Arena[u] \in Used /\ Arena[u] \in Arenas /\ lock[Arena[u]] = u
             /\ ArenaList = 0 => Arena[u] \notin Cores
  <2>1. InStep(u) /\ Locked(u) /\ Arena[u] \in Arenas \cup {NoArena}
    BY DEF IInv, TypeOK
  <2>2. Arena[u] # NoArena
    BY <1>1, <2>1, ConstantsAssumption DEF InStep, InArena, MallocPcs, FreePcs, Arenas
  <2>3. Arena[u] = Temp \/ Arena[u] \in Cores
    BY <2>1, <2>2 DEF Arenas
  <2> QED
    BY <1>1, <2>1, <2>2, <2>3 DEF InStep, Locked, Used
<1>2. Used \subseteq Arenas
  BY DEF Used, Arenas
<1> QED
  BY <1>1, <1>2

\* What a call past its lock is looking for.
LEMMA NeededFacts ==
  ASSUME IInv, NEW t \in Threads, pc[t] \in MallocPcs
  PROVE  /\ Asked(t) \in Queries \cup {ListBytes}
         /\ Needed(t) \in Sizes /\ Needed(t) >= Asked(t) + OVERHEAD
         /\ FreshLen(t) \in Sizes /\ FreshLen(t) >= Needed(t)
<1>1. Asked(t) \in Queries \cup {ListBytes}
  <2>1. InStep(t) /\ Arena[t] \in Arenas \cup {NoArena}
    BY DEF IInv, TypeOK
  <2>2. Arena[t] = Temp \/ Arena[t] \in Cores
    BY <2>1 DEF InStep, Arenas
  <2> QED
    BY <2>1, <2>2 DEF InStep, Asked
<1>2. Needed(t) \in Sizes /\ Needed(t) >= Asked(t) + OVERHEAD
  BY <1>1, RoundUpHolds DEF Needed
<1> QED
  BY <1>1, <1>2, RoundToPageHolds DEF FreshLen

\* Blocks have numbers for addresses and sizes.
LEMMA BlockFacts ==
  ASSUME IInv, NEW b \in DOMAIN size
  PROVE  b \in Nat \ {0} /\ size[b] \in Sizes /\ size[b] \in Nat \ {0}
BY SizesAssumption DEF IInv, TypeOK

------------------------------------------------------------------------------
(* The steps that change the memory. *)

\* Arena 0 takes over what the temporary arena had: nobody else has an arena yet.
LEMMA CopyTempIInv ==
  ASSUME IInv, NEW t \in Threads, CopyTemp(t)
  PROVE  IInv'
<1>1. /\ fault = "none" /\ pc[t] = "i_copy"
      /\ pc' = [pc EXCEPT ![t] = IF call[t] = "malloc" THEN "m_lock" ELSE "k_arenas"]
      /\ ArenaList' = node[t]
      /\ list' = [list EXCEPT ![0] = list[Temp]]
      /\ count' = [count EXCEPT ![0] = count[Temp]]
      /\ lock' = [lock EXCEPT ![0] = lock[Temp]]
      /\ Arena' = [Arena EXCEPT ![t] = 0]
      /\ arena_ct' = arena_ct + 1
      /\ arena_list_lock' = Unlocked(arena_list_lock, t)
      /\ node' = [node EXCEPT ![t] = 0]
      /\ UNCHANGED <<size, live, mapped, call, query, cursor, seen, total_alloc_size, child,
                     fault>>
  BY DEF CopyTemp, AfterInit, TempCounts, Goto, At
<1>2. TypeOK /\ InStep(t) /\ Locked(t) /\ WorksOn(t) /\ Dealt /\ Blocks
  BY DEF IInv
<1>3. /\ Temp \in Arenas /\ 0 \in Arenas /\ 0 \in Cores /\ Temp \notin Cores
      /\ Cores \subseteq Arenas /\ NoArena \notin Arenas /\ CORE_COUNT \in Nat \ {0}
  BY ConstantsAssumption DEF Arenas, Cores
<1>4. /\ Arena[t] = Temp /\ arena_list_lock = t /\ ArenaList = 0 /\ cursor[t] = 0
      /\ node[t] \in DOMAIN live /\ node[t] \in DOMAIN size /\ node[t] # 0
      /\ \A a \in Cores : list[a] = <<>>
  BY <1>1, <1>2 DEF InStep, WorksOn, TypeOK, Blocks, ListsEmpty
<1>5. \A u \in Threads \ {t} : Arena[u] = NoArena /\ pc[u] \notin InArena \cup InList
  <2> TAKE u \in Threads \ {t}
  <2>1. InStep(u) /\ Locked(u) /\ Arena[u] \in Arenas \cup {NoArena}
    BY DEF IInv, TypeOK
  <2>2. Arena[u] = NoArena
    BY <1>4, <2>1 DEF InStep, Arenas
  <2> QED
    BY <1>3, <1>4, <2>1, <2>2 DEF InStep, Locked, InArena, InList, MallocPcs, FreePcs, ForkPcs
<1>6. Dealt'
  <2>1. arena_ct = 0 /\ arena_ct % CORE_COUNT = 0
    BY <1>2, <1>3, <1>4 DEF Dealt
  <2> QED
    BY <1>1, <1>2, <1>3, <1>4, <2>1, DealOne
<1>7. TypeOK'
  <2>1. /\ pc' \in [Threads -> {"idle", "f_lock", "m_lock"} \cup InArena
                            \cup {"i_lock", "k_arenas", "k_list", "k_release"} \cup InList]
        /\ Arena' \in [Threads -> Arenas \cup {NoArena}] /\ node' \in [Threads -> Nat]
    BY <1>1, <1>2, <1>3 DEF TypeOK
  <2>2. /\ list' \in [Arenas -> Seq(DOMAIN size)]
        /\ count' \in [Arenas -> [blk : Int, used_blk : Int, free_blk : Int]]
        /\ lock' \in [Arenas -> Threads \cup {NoThread}]
    BY <1>1, <1>2, <1>3 DEF TypeOK
  <2>3. /\ arena_ct' \in Nat /\ arena_list_lock' \in Threads \cup {NoThread}
        /\ ArenaList' \in DOMAIN size \cup {0}
    BY <1>1, <1>2, <1>4 DEF TypeOK, Unlocked
  <2> QED
    BY <1>1, <1>2, <2>1, <2>2, <2>3 DEF TypeOK
<1>8. /\ \A u \in Threads \ {t} : /\ pc'[u] = pc[u] /\ Arena'[u] = Arena[u]
      /\ pc'[t] = IF call[t] = "malloc" THEN "m_lock" ELSE "k_arenas"
      /\ Arena'[t] = 0 /\ ArenaList' # 0
  BY <1>1, <1>2, <1>4 DEF TypeOK
<1>9. ASSUME NEW u \in Threads PROVE InStep(u)' /\ Locked(u)' /\ WorksOn(u)'
  <2>1. CASE u = t
    <3>1. 0 # Temp /\ 0 # NoArena /\ \A a \in Cores : ~ (a < 0)
      BY <1>3 DEF Cores
    <3>2. InStep(t)'
      BY <1>1, <1>2, <1>3, <1>4, <1>8, <3>1 DEF InStep, MallocPcs, FreePcs, ForkPcs
    <3>3. Locked(t)' /\ WorksOn(t)'
      BY <1>1, <1>3, <1>4, <1>8, <3>1 DEF Locked, WorksOn, InArena, InList
    <3> QED
      BY <2>1, <3>2, <3>3
  <2>2. CASE u # t
    <3>1. InStep(u) /\ Locked(u) /\ Arena'[u] = NoArena /\ pc'[u] = pc[u]
      BY <1>5, <1>8, <2>2 DEF IInv
    <3>2. pc'[u] \notin InArena \cup InList /\ pc'[u] \notin ForkPcs \cup FreePcs \cup MallocPcs
      BY <1>3, <1>5, <2>2, <3>1 DEF InStep
    <3>3. InStep(u)'
      BY <1>1, <1>3, <3>1, <3>2 DEF InStep
    <3> QED
      BY <3>2, <3>3 DEF Locked, WorksOn, InArena, InList, ForkPcs
  <2> QED
    BY <2>1, <2>2
<1>10. Blocks'
  <2>1. BlocksApart' /\ LiveFits' /\ ListsEmpty'
    BY <1>1, <1>2, <1>8 DEF Blocks, BlocksApart, LiveFits, ListsEmpty
  <2>2. FreshApart'
    BY <1>5, <1>8 DEF FreshApart, InArena
  <2>3. OneOwner'
    <3>1. OwnedOnce(list, DOMAIN live, {Temp})
      BY <1>2, <1>4, OwnerMeaning DEF Blocks, Used
    <3>2. /\ list'[0] = list[Temp] /\ \A a \in Cores \ {0} : list'[a] = <<>>
      BY <1>1, <1>2, <1>3, <1>4 DEF TypeOK
    <3>3. ToSet(<<>>) = {} /\ NoRepeats(<<>>)
      BY DEF ToSet, NoRepeats
    <3>4. OwnedOnce(list', DOMAIN live, Cores)
      BY <3>1, <3>2, <3>3 DEF OwnedOnce
    <3>5. Used' = Cores
      BY <1>8 DEF Used
    <3> QED
      BY <1>1, <3>4, <3>5, OwnerMeaningNext
  <2> QED
    BY <2>1, <2>2, <2>3 DEF Blocks
<1> QED
  BY <1>6, <1>7, <1>9, <1>10 DEF IInv

\* New pages lie behind everything there was.
LEMMA RequestMemoryIInv ==
  ASSUME IInv, NEW t \in Threads, RequestMemory(t)
  PROVE  IInv'
<1>1. /\ fault = "none" /\ pc[t] = "m_search" /\ pc' = [pc EXCEPT ![t] = "m_total"]
      /\ mapped' = mapped + FreshLen(t)
      /\ node' = [node EXCEPT ![t] = mapped]
      /\ seen' = [seen EXCEPT ![t] = total_alloc_size]
      /\ UNCHANGED <<size, list, live, count, ArenaList, arena_ct, Arena, lock,
                     arena_list_lock, call, query, cursor, total_alloc_size, child, fault>>
  BY DEF RequestMemory, FreshLen, Goto, At, roster, locks
<1>2. TypeOK /\ InStep(t) /\ Locked(t) /\ WorksOn(t) /\ Dealt /\ Blocks
  BY DEF IInv
<1>3. FreshLen(t) \in Nat \ {0} /\ mapped \in Nat \ {0}
  BY <1>1, <1>2, NeededFacts, SizesAssumption DEF MallocPcs, Blocks, BlocksApart
<1>4. TypeOK'
  <2>1. /\ mapped' \in Nat /\ node' \in [Threads -> Nat] /\ seen' \in [Threads -> Nat]
        /\ pc' \in [Threads -> {"idle", "f_lock", "m_lock"} \cup InArena
                            \cup {"i_lock", "k_arenas", "k_list", "k_release"} \cup InList]
    BY <1>1, <1>2, <1>3 DEF TypeOK, InArena
  <2> QED
    BY <1>1, <1>2, <2>1 DEF TypeOK
<1>5. /\ Alone(t) /\ LocksLeft(t) /\ pc'[t] = "m_total" /\ node'[t] = mapped
  BY <1>1, <1>2 DEF TypeOK, Alone, LocksLeft
<1>6. InStep(t)' /\ Locked(t)' /\ WorksOn(t)'
  BY <1>1, <1>2, <1>5
     DEF InStep, Locked, WorksOn, MallocPcs, FreePcs, ForkPcs, InArena, InList
<1>7. \A u \in Threads : FreshLen(u)' = FreshLen(u) /\ Needed(u)' = Needed(u)
  BY <1>1 DEF FreshLen, Needed, Asked
<1>8. \A u \in Threads : InStep(u)' /\ Locked(u)' /\ WorksOn(u)'
  <2>1. ASSUME NEW u \in Threads \ {t} PROVE WorksOn(u)'
    BY <1>1, <1>5, <1>7 DEF IInv, WorksOn, Alone
  <2> QED
    BY <1>1, <1>5, <1>6, <2>1, OthersInStep
<1>9. Blocks'
  <2>1. BlocksApart'
    <3>1. ASSUME NEW b \in DOMAIN size PROVE b + size[b] <= mapped'
      <4>1. b + size[b] <= mapped /\ b \in Nat /\ size[b] \in Nat
        BY <1>2, BlockFacts DEF Blocks, BlocksApart
      <4> QED
        BY <1>1, <1>3, <4>1
    <3> QED
      BY <1>1, <1>2, <1>3, <3>1 DEF Blocks, BlocksApart
  <2>2. OneOwner' /\ ListsEmpty' /\ LiveFits'
    <3>1. OneOwner'
      BY <1>1, <1>2 DEF Blocks, OneOwner, Used
    <3>2. ListsEmpty' /\ LiveFits'
      BY <1>1, <1>2 DEF Blocks, ListsEmpty, LiveFits
    <3> QED
      BY <3>1, <3>2
  <2>3. FreshApart'
    <3>1. ASSUME NEW u \in Threads \ {t}, pc'[u] = "m_total"
          PROVE  /\ pc[u] = "m_total" /\ node'[u] = node[u] /\ node[u] > 0 /\ node[u] \in Nat
                 /\ FreshLen(u) \in Nat /\ node[u] + FreshLen(u) <= mapped
                 /\ \A b \in DOMAIN size : \/ b + size[b] <= node[u]
                                           \/ node[u] + FreshLen(u) <= b
                 /\ \A v \in Threads \ {u, t} : pc[v] = "m_total" =>
                      \/ node[u] + FreshLen(u) <= node[v]
                      \/ node[v] + FreshLen(v) <= node[u]
      <4>1. pc[u] = "m_total" /\ node'[u] = node[u] /\ node[u] \in Nat
        BY <1>2, <1>5, <3>1 DEF Alone, TypeOK
      <4>2. FreshLen(u) \in Nat
        BY <4>1, NeededFacts, SizesAssumption DEF MallocPcs
      <4> QED
        BY <1>2, <4>1, <4>2 DEF Blocks, FreshApart
    <3>2. ASSUME NEW u \in Threads, pc'[u] = "m_total"
          PROVE  /\ node'[u] > 0 /\ node'[u] + FreshLen(u) <= mapped'
                 /\ \A b \in DOMAIN size : \/ b + size[b] <= node'[u]
                                           \/ node'[u] + FreshLen(u) <= b
                 /\ \A v \in Threads \ {u} : pc'[v] = "m_total" =>
                      \/ node'[u] + FreshLen(u) <= node'[v]
                      \/ node'[v] + FreshLen(v) <= node'[u]
      <4>1. CASE u = t
        <5>1. \A b \in DOMAIN size : b + size[b] <= mapped
          BY <1>2 DEF Blocks, BlocksApart
        <5>2. \A v \in Threads \ {t} : pc'[v] = "m_total" => node'[v] + FreshLen(v) <= mapped
          BY <3>1
        <5> QED
          BY <1>1, <1>3, <1>5, <4>1, <5>1, <5>2
      <4>2. CASE u # t
        <5>1. /\ pc[u] = "m_total" /\ node'[u] = node[u] /\ node[u] > 0 /\ node[u] \in Nat
              /\ FreshLen(u) \in Nat /\ node[u] + FreshLen(u) <= mapped
          BY <3>1, <3>2, <4>2
        <5>2. node[u] + FreshLen(u) <= mapped'
          BY <1>1, <1>3, <5>1
        <5>3. \A b \in DOMAIN size : b + size[b] <= node'[u] \/ node'[u] + FreshLen(u) <= b
          BY <3>1, <3>2, <4>2, <5>1
        <5>4. ASSUME NEW v \in Threads \ {u}, pc'[v] = "m_total"
              PROVE  \/ node'[u] + FreshLen(u) <= node'[v]
                     \/ node'[v] + FreshLen(v) <= node'[u]
          <6>1. CASE v = t
            BY <1>5, <5>1, <6>1
          <6>2. CASE v # t
            <7>1. pc[v] = "m_total" /\ node'[v] = node[v]
              BY <3>1, <5>4, <6>2
            <7> QED
              BY <3>1, <3>2, <4>2, <5>1, <6>2, <7>1
          <6> QED
            BY <6>1, <6>2
        <5> QED
          BY <5>1, <5>2, <5>3, <5>4
      <4> QED
        BY <4>1, <4>2
    <3> QED
      BY <1>1, <1>7, <3>2 DEF FreshApart
  <2> QED
    BY <2>1, <2>2, <2>3 DEF Blocks
<1>10. Dealt'
  BY <1>1, <1>2, DealtKept
<1> QED
  BY <1>4, <1>8, <1>9, <1>10 DEF IInv

\* The new pages become a block of the thread's own list.
LEMMA AddMemoryIInv ==
  ASSUME IInv, NEW t \in Threads, AddMemory(t)
  PROVE  IInv'
<1>1. /\ fault = "none" /\ pc[t] = "m_total" /\ pc' = [pc EXCEPT ![t] = "m_fit"]
      /\ total_alloc_size' = seen[t] + FreshLen(t)
      /\ size' = [b \in DOMAIN size \cup {node[t]} |->
                    IF b = node[t] THEN FreshLen(t) ELSE size[b]]
      /\ count' = [count EXCEPT ![Arena[t]] = Counted(@, 1, 0, 1)]
      /\ list' = [list EXCEPT ![Arena[t]] = Pushed(@, node[t])]
      /\ seen' = [seen EXCEPT ![t] = 0]
      /\ UNCHANGED <<live, mapped, ArenaList, arena_ct, Arena, lock, arena_list_lock, call,
                     query, node, cursor, child, fault>>
  BY DEF AddMemory, FreshLen, Goto, At, roster, locks
<1>2. TypeOK /\ InStep(t) /\ Locked(t) /\ WorksOn(t) /\ Dealt /\ Blocks
  BY DEF IInv
<1>3. PICK n \in Nat \ {0}, len \in Sizes : n = node[t] /\ len = FreshLen(t)
  BY <1>1, <1>2, NeededFacts DEF MallocPcs, Blocks, FreshApart, TypeOK
<1>4. /\ len \in Nat \ {0} /\ len >= Needed(t) /\ n + len <= mapped
      /\ \A b \in DOMAIN size : b + size[b] <= n \/ n + len <= b
      /\ \A u \in Threads \ {t} : pc[u] = "m_total" =>
           n + len <= node[u] \/ node[u] + FreshLen(u) <= n
  BY <1>1, <1>2, <1>3, NeededFacts, SizesAssumption DEF MallocPcs, Blocks, FreshApart
<1>5. n \notin DOMAIN size
  <2> SUFFICES ASSUME n \in DOMAIN size PROVE FALSE
    OBVIOUS
  <2>1. size[n] \in Nat \ {0} /\ (n + size[n] <= n \/ n + len <= n)
    BY <1>4, BlockFacts
  <2> QED
    BY <1>4, <2>1
<1>6. /\ DOMAIN size' = DOMAIN size \cup {n} /\ size'[n] = len
      /\ \A b \in DOMAIN size : size'[b] = size[b]
  BY <1>1, <1>3, <1>5
<1>7. /\ Arena[t] \in Used /\ Arena[t] \in Arenas /\ Used \subseteq Arenas
      /\ ArenaList = 0 => Arena[t] \notin Cores
  BY <1>1, ArenaOfOne DEF InArena
<1>8. /\ list \in [Arenas -> Seq(DOMAIN size)]
      /\ Pushed(list[Arena[t]], n) \in Seq(DOMAIN size \cup {n})
      /\ ToSet(Pushed(list[Arena[t]], n)) = ToSet(list[Arena[t]]) \cup {n}
      /\ list'[Arena[t]] = Pushed(list[Arena[t]], n)
      /\ \A a \in Arenas \ {Arena[t]} : list'[a] = list[a]
  <2>1. list \in [Arenas -> Seq(DOMAIN size)] /\ list[Arena[t]] \in Seq(DOMAIN size)
    BY <1>2, <1>7 DEF TypeOK
  <2>2. PICK l \in Seq(DOMAIN size) : l = list[Arena[t]]
    BY <2>1
  <2>3. /\ Pushed(l, n) \in Seq(DOMAIN size \cup {n})
        /\ ToSet(Pushed(l, n)) = ToSet(l) \cup {n}
    BY PushedFacts
  <2>4. /\ list'[Arena[t]] = Pushed(list[Arena[t]], n)
        /\ \A a \in Arenas \ {Arena[t]} : list'[a] = list[a]
    BY <1>1, <1>3, <1>7, <2>1
  <2> QED
    BY <2>1, <2>2, <2>3, <2>4
<1>9. list' \in [Arenas -> Seq(DOMAIN size')]
  <2>1. \A a \in Arenas : list[a] \in Seq(DOMAIN size \cup {n})
    BY <1>8
  <2> QED
    BY <1>1, <1>3, <1>6, <1>8, <2>1
<1>10. TypeOK'
  <2>1. DOMAIN size' \subseteq Nat \ {0} /\ size' \in [DOMAIN size' -> Sizes]
    BY <1>2, <1>3, <1>6, <1>1 DEF TypeOK
  <2>2. count' \in [Arenas -> [blk : Int, used_blk : Int, free_blk : Int]]
    <3>1. count[Arena[t]] \in [blk : Int, used_blk : Int, free_blk : Int]
      BY <1>2, <1>7 DEF TypeOK
    <3>2. Counted(count[Arena[t]], 1, 0, 1) \in [blk : Int, used_blk : Int, free_blk : Int]
      BY <3>1, CountedFacts
    <3> QED
      BY <1>1, <1>2, <3>2 DEF TypeOK
  <2>3. /\ total_alloc_size' \in Nat /\ seen' \in [Threads -> Nat]
        /\ pc' \in [Threads -> {"idle", "f_lock", "m_lock"} \cup InArena
                            \cup {"i_lock", "k_arenas", "k_list", "k_release"} \cup InList]
    BY <1>1, <1>2, <1>3, <1>4 DEF TypeOK, InArena
  <2>4. DOMAIN live \subseteq DOMAIN size' /\ ArenaList \in DOMAIN size' \cup {0}
    BY <1>2, <1>6 DEF TypeOK
  <2> QED
    BY <1>1, <1>2, <1>9, <2>1, <2>2, <2>3, <2>4 DEF TypeOK
<1>11. Alone(t) /\ LocksLeft(t) /\ pc'[t] = "m_fit"
  BY <1>1, <1>2 DEF TypeOK, Alone, LocksLeft
<1>12. \A u \in Threads : FreshLen(u)' = FreshLen(u) /\ Needed(u)' = Needed(u)
  BY <1>1 DEF FreshLen, Needed, Asked
<1>13. ASSUME NEW u \in Threads PROVE InStep(u)' /\ Locked(u)' /\ WorksOn(u)'
  <2>1. CASE u = t
    BY <1>1, <1>2, <1>3, <1>4, <1>6, <1>8, <1>11, <1>12, <2>1
       DEF InStep, Locked, WorksOn, MallocPcs, FreePcs, ForkPcs, InArena, InList
  <2>2. CASE u # t
    <3>1. InStep(u)' /\ Locked(u)'
      BY <1>1, <1>11, <2>2, OthersInStep
    <3>2. WorksOn(u) /\ pc'[u] = pc[u]
      BY <1>11, <2>2 DEF IInv, Alone
    <3>3. CASE pc[u] = "m_fit"
      <4>1. /\ node[u] \in ToSet(list[Arena[u]]) /\ size[node[u]] >= Needed(u)
            /\ Arena[u] \in Arenas /\ Arena[u] # Arena[t]
        BY <1>1, <2>2, <3>2, <3>3, ArenaOfOne DEF WorksOn, InArena
      <4>2. node[u] \in DOMAIN size
        BY <1>8, <4>1 DEF ToSet
      <4> QED
        BY <1>1, <1>6, <1>8, <1>12, <3>1, <3>2, <3>3, <4>1, <4>2 DEF WorksOn
    <3>4. CASE pc[u] # "m_fit"
      BY <1>1, <3>1, <3>2, <3>4 DEF WorksOn
    <3> QED
      BY <3>3, <3>4
  <2> QED
    BY <2>1, <2>2
<1>14. Blocks'
  <2>1. BlocksApart'
    <3>1. /\ mapped \in Nat \ {0}
          /\ \A b \in DOMAIN size : b + size[b] <= mapped /\ b \in Nat /\ size[b] \in Nat \ {0}
          /\ \A b, c \in DOMAIN size : b < c => b + size[b] <= c
      BY <1>2, BlockFacts DEF Blocks, BlocksApart
    <3>2. ASSUME NEW b \in DOMAIN size' PROVE b + size'[b] <= mapped
      BY <1>4, <1>6, <3>1
    <3>3. ASSUME NEW b \in DOMAIN size', NEW c \in DOMAIN size', b < c
          PROVE  b + size'[b] <= c
      <4>1. CASE b = n /\ c # n
        <5>1. c \in DOMAIN size /\ c \in Nat /\ size[c] \in Nat /\ (c + size[c] <= n \/ n + len <= c)
          BY <1>4, <1>6, <3>1, <4>1
        <5> QED
          BY <1>4, <1>6, <3>3, <4>1, <5>1
      <4>2. CASE b # n /\ c = n
        <5>1. /\ b \in DOMAIN size /\ b \in Nat /\ size'[b] = size[b] /\ size[b] \in Nat
              /\ b + size[b] <= n \/ n + len <= b
          BY <1>4, <1>6, <3>1, <4>2
        <5> QED
          BY <1>4, <3>3, <4>2, <5>1
      <4>3. CASE b # n /\ c # n
        BY <1>6, <3>1, <3>3, <4>3
      <4>4. b # c
        BY <1>6, <3>1, <3>3
      <4> QED
        BY <4>1, <4>2, <4>3, <4>4
    <3> QED
      BY <1>1, <3>1, <3>2, <3>3 DEF BlocksApart
  <2>2. LiveFits'
    BY <1>1, <1>2, <1>6 DEF Blocks, LiveFits, TypeOK
  <2>3. ListsEmpty'
    BY <1>1, <1>2, <1>7, <1>8 DEF Blocks, ListsEmpty, Arenas
  <2>4. OneOwner'
    <3>1. OwnedOnce(list, DOMAIN live, Used)
      BY <1>2, OwnerMeaning DEF Blocks
    <3>2. n \notin DOMAIN live /\ \A a \in Used : n \notin ToSet(list[a])
      BY <1>2, <1>5, <1>7, <1>8 DEF TypeOK, ToSet
    <3>3. OwnedOnce([list EXCEPT ![Arena[t]] = Pushed(@, n)], DOMAIN live, Used)
      BY <1>7, <1>8, <3>1, <3>2, PushKeeps
    <3>4. Used' = Used
      BY <1>1 DEF Used
    <3> QED
      BY <1>1, <1>3, <3>3, <3>4, OwnerMeaningNext
  <2>5. FreshApart'
    <3> SUFFICES ASSUME NEW u \in Threads, pc'[u] = "m_total"
                 PROVE  /\ node[u] > 0 /\ node[u] + FreshLen(u) <= mapped
                        /\ \A b \in DOMAIN size' : \/ b + size'[b] <= node[u]
                                                   \/ node[u] + FreshLen(u) <= b
                        /\ \A v \in Threads \ {u} : pc'[v] = "m_total" =>
                             \/ node[u] + FreshLen(u) <= node[v]
                             \/ node[v] + FreshLen(v) <= node[u]
      BY <1>1, <1>12 DEF FreshApart
    <3>1. \A v \in Threads : pc'[v] = "m_total" => v # t /\ pc[v] = "m_total"
      BY <1>11 DEF Alone
    <3>2. /\ u # t /\ node[u] > 0 /\ node[u] + FreshLen(u) <= mapped
          /\ \A b \in DOMAIN size : b + size[b] <= node[u] \/ node[u] + FreshLen(u) <= b
          /\ \A v \in Threads \ {u} : pc[v] = "m_total" =>
               \/ node[u] + FreshLen(u) <= node[v]
               \/ node[v] + FreshLen(v) <= node[u]
      BY <1>2, <3>1 DEF Blocks, FreshApart
    <3>3. n + len <= node[u] \/ node[u] + FreshLen(u) <= n
      BY <1>4, <3>1, <3>2
    <3>4. \A b \in DOMAIN size' : b + size'[b] <= node[u] \/ node[u] + FreshLen(u) <= b
      BY <1>6, <3>2, <3>3
    <3> QED
      BY <3>1, <3>2, <3>4
  <2> QED
    BY <2>1, <2>2, <2>3, <2>4, <2>5 DEF Blocks
<1>15. Dealt'
  BY <1>1, <1>2, DealtKept
<1> QED
  BY <1>10, <1>13, <1>14, <1>15 DEF IInv

\* A call that fits a block has it to itself.
LEMMA BlockOfOne ==
  ASSUME IInv, NEW t \in Threads, pc[t] = "m_fit"
  PROVE  /\ node[t] \in DOMAIN size /\ node[t] \in ToSet(list[Arena[t]])
         /\ size[node[t]] >= Needed(t)
         /\ node[t] \notin DOMAIN live
         /\ \A u \in Threads \ {t} : pc[u] = "m_fit" =>
              /\ Arena[u] \in Arenas /\ Arena[u] # Arena[t] /\ node[u] # node[t]
              /\ node[u] \in DOMAIN size /\ node[u] \in ToSet(list[Arena[u]])
              /\ size[node[u]] >= Needed(u)
<1>1. OwnedOnce(list, DOMAIN live, Used)
  BY OwnerMeaning DEF IInv, Blocks
<1>2. ASSUME NEW u \in Threads, pc[u] = "m_fit"
      PROVE  /\ node[u] \in DOMAIN size /\ node[u] \in ToSet(list[Arena[u]])
             /\ size[node[u]] >= Needed(u)
             /\ node[u] \notin DOMAIN live /\ Arena[u] \in Used
  <2>1. node[u] \in ToSet(list[Arena[u]]) /\ size[node[u]] >= Needed(u)
    BY <1>2 DEF IInv, WorksOn
  <2>2. Arena[u] \in Used /\ Arena[u] \in Arenas
    BY <1>2, ArenaOfOne DEF InArena
  <2>3. list[Arena[u]] \in Seq(DOMAIN size)
    BY <2>2 DEF IInv, TypeOK
  <2>4. node[u] \in DOMAIN size
    BY <2>1, <2>3 DEF ToSet
  <2> QED
    BY <1>1, <2>1, <2>2, <2>4 DEF OwnedOnce
<1>3. ASSUME NEW u \in Threads \ {t}, pc[u] = "m_fit"
      PROVE  Arena[u] \in Arenas /\ Arena[u] # Arena[t] /\ node[u] # node[t]
  <2>1. Arena[u] \in Arenas /\ Arena[u] # Arena[t]
    BY <1>3, ArenaOfOne DEF InArena
  <2> QED
    BY <1>1, <1>2, <1>3, <2>1 DEF OwnedOnce
<1> QED
  BY <1>2, <1>3

\* The halves of a block lie where it was, and the call goes on with the new one.
LEMMA SplitIInv ==
  ASSUME IInv, NEW t \in Threads, Split(t)
  PROVE  IInv'
<1>0. /\ fault = "none" /\ pc[t] = "m_fit" /\ size[node[t]] > Needed(t)
      /\ UNCHANGED <<live, mapped, ArenaList, arena_ct, Arena, lock, arena_list_lock, call, pc,
                     query, cursor, seen, total_alloc_size, child, fault>>
  BY DEF Split, At, roster, locks
<1>2. TypeOK /\ InStep(t) /\ Locked(t) /\ WorksOn(t) /\ Dealt /\ Blocks
  BY DEF IInv
<1>3. PICK n \in DOMAIN size, h \in Sizes :
        /\ n = node[t] /\ size[n] = h + h /\ h >= Needed(t)
        /\ n \in Nat \ {0} /\ h \in Nat \ {0}
        /\ n \notin DOMAIN live /\ n \in ToSet(list[Arena[t]])
        /\ size' = [b \in DOMAIN size \cup {n + h} |-> IF b \in {n, n + h} THEN h ELSE size[b]]
        /\ count' = [count EXCEPT ![Arena[t]] = Counted(@, 1, 0, 1)]
        /\ list' = [list EXCEPT ![Arena[t]] = Pushed(@, n + h)]
        /\ node' = [node EXCEPT ![t] = n + h]
  <2>1. Needed(t) \in Sizes /\ node[t] \in DOMAIN size /\ size[node[t]] \in Sizes
    BY <1>0, NeededFacts, BlockOfOne, BlockFacts DEF MallocPcs
  <2>2. PICK n \in DOMAIN size, h \in Sizes : n = node[t] /\ h = size[node[t]] \div 2
    BY <1>0, <2>1, HalfStillFits
  <2>3. /\ size' = [b \in DOMAIN size \cup {n + h} |-> IF b \in {n, n + h} THEN h ELSE size[b]]
        /\ count' = [count EXCEPT ![Arena[t]] = Counted(@, 1, 0, 1)]
        /\ list' = [list EXCEPT ![Arena[t]] = Pushed(@, n + h)]
        /\ node' = [node EXCEPT ![t] = n + h]
    BY <2>2, Zenon DEF Split
  <2>4. size[n] = h + h /\ h >= Needed(t) /\ h \in Nat \ {0}
    BY <1>0, <2>1, <2>2, HalfStillFits, Zenon
  <2>5. n \in Nat \ {0} /\ n \notin DOMAIN live /\ n \in ToSet(list[Arena[t]])
    BY <1>0, <2>2, BlockOfOne, BlockFacts
  <2> QED
    BY <2>2, <2>3, <2>4, <2>5
<1>4. PICK m \in Nat \ {0} : m = n + h /\ n < m /\ n + size[n] = m + h
  BY <1>3
<1>1. /\ size' = [b \in DOMAIN size \cup {m} |-> IF b \in {n, m} THEN h ELSE size[b]]
      /\ count' = [count EXCEPT ![Arena[t]] = Counted(@, 1, 0, 1)]
      /\ list' = [list EXCEPT ![Arena[t]] = Pushed(@, m)]
      /\ node' = [node EXCEPT ![t] = m]
  BY <1>3, <1>4
<1>5. /\ mapped \in Nat \ {0}
      /\ \A b \in DOMAIN size : b + size[b] <= mapped /\ b \in Nat /\ size[b] \in Nat \ {0}
      /\ \A b, c \in DOMAIN size : b < c => b + size[b] <= c
  BY <1>2, BlockFacts DEF Blocks, BlocksApart
<1>6. m \notin DOMAIN size
  <2> SUFFICES ASSUME m \in DOMAIN size PROVE FALSE
    OBVIOUS
  <2>1. n < m /\ n + size[n] > m
    BY <1>3, <1>4
  <2>2. n + size[n] <= m
    BY <1>5, <2>1
  <2> QED
    BY <1>3, <1>4, <2>2
<1>7. /\ DOMAIN size' = DOMAIN size \cup {m} /\ size'[n] = h /\ size'[m] = h /\ n # m
      /\ \A b \in DOMAIN size \ {n} : size'[b] = size[b]
  BY <1>1, <1>3, <1>4, <1>6
<1>8. /\ Arena[t] \in Used /\ Arena[t] \in Arenas /\ Used \subseteq Arenas
      /\ ArenaList = 0 => Arena[t] \notin Cores
  BY <1>0, ArenaOfOne DEF InArena
<1>9. /\ list \in [Arenas -> Seq(DOMAIN size)]
      /\ Pushed(list[Arena[t]], m) \in Seq(DOMAIN size \cup {m})
      /\ ToSet(Pushed(list[Arena[t]], m)) = ToSet(list[Arena[t]]) \cup {m}
      /\ list'[Arena[t]] = Pushed(list[Arena[t]], m)
      /\ \A a \in Arenas \ {Arena[t]} : list'[a] = list[a]
  <2>1. list \in [Arenas -> Seq(DOMAIN size)] /\ list[Arena[t]] \in Seq(DOMAIN size)
    BY <1>2, <1>8 DEF TypeOK
  <2>2. PICK l \in Seq(DOMAIN size) : l = list[Arena[t]]
    BY <2>1
  <2>3. /\ Pushed(l, m) \in Seq(DOMAIN size \cup {m})
        /\ ToSet(Pushed(l, m)) = ToSet(l) \cup {m}
    BY PushedFacts
  <2>4. /\ list'[Arena[t]] = Pushed(list[Arena[t]], m)
        /\ \A a \in Arenas \ {Arena[t]} : list'[a] = list[a]
    BY <1>1, <1>8, <2>1
  <2> QED
    BY <2>1, <2>2, <2>3, <2>4
<1>10. TypeOK'
  <2>1. DOMAIN size' \subseteq Nat \ {0} /\ size' \in [DOMAIN size' -> Sizes]
    BY <1>1, <1>2, <1>3, <1>7 DEF TypeOK
  <2>2. count' \in [Arenas -> [blk : Int, used_blk : Int, free_blk : Int]]
    <3>1. count[Arena[t]] \in [blk : Int, used_blk : Int, free_blk : Int]
      BY <1>2, <1>8 DEF TypeOK
    <3>2. Counted(count[Arena[t]], 1, 0, 1) \in [blk : Int, used_blk : Int, free_blk : Int]
      BY <3>1, CountedFacts
    <3> QED
      BY <1>1, <1>2, <3>2 DEF TypeOK
  <2>3. node' \in [Threads -> Nat]
    BY <1>1, <1>2 DEF TypeOK
  <2>4. list' \in [Arenas -> Seq(DOMAIN size')]
    <3>1. \A a \in Arenas : list[a] \in Seq(DOMAIN size \cup {m})
      BY <1>9
    <3> QED
      BY <1>1, <1>7, <1>9, <3>1
  <2>5. DOMAIN live \subseteq DOMAIN size' /\ ArenaList \in DOMAIN size' \cup {0}
    BY <1>2, <1>7 DEF TypeOK
  <2> QED
    BY <1>0, <1>2, <2>1, <2>2, <2>3, <2>4, <2>5 DEF TypeOK
<1>11. Alone(t) /\ LocksLeft(t) /\ node'[t] = m
  BY <1>0, <1>1, <1>2 DEF TypeOK, Alone, LocksLeft
<1>12. \A u \in Threads : FreshLen(u)' = FreshLen(u) /\ Needed(u)' = Needed(u)
  BY <1>0 DEF FreshLen, Needed, Asked
<1>13. ASSUME NEW u \in Threads PROVE InStep(u)' /\ Locked(u)' /\ WorksOn(u)'
  <2>1. CASE u = t
    <3>1. InStep(t)' /\ Locked(t)'
      BY <1>0, <1>2 DEF InStep, Locked
    <3>2. WorksOn(t)'
      BY <1>0, <1>3, <1>7, <1>9, <1>11, <1>12 DEF WorksOn
    <3> QED
      BY <2>1, <3>1, <3>2
  <2>2. CASE u # t
    <3>1. InStep(u)' /\ Locked(u)'
      BY <1>0, <1>11, <2>2, OthersInStep
    <3>2. WorksOn(u) /\ pc'[u] = pc[u] /\ node'[u] = node[u]
      BY <1>11, <2>2 DEF IInv, Alone
    <3>3. CASE pc[u] = "m_fit"
      <4>1. /\ node[u] \in ToSet(list[Arena[u]]) /\ size[node[u]] >= Needed(u)
            /\ Arena[u] \in Arenas /\ Arena[u] # Arena[t]
            /\ node[u] \in DOMAIN size \ {n}
        BY <1>0, <1>3, <2>2, <3>3, BlockOfOne
      <4> QED
        BY <1>0, <1>7, <1>9, <1>12, <3>1, <3>2, <3>3, <4>1 DEF WorksOn
    <3>4. CASE pc[u] # "m_fit"
      BY <1>0, <3>1, <3>2, <3>4 DEF WorksOn
    <3> QED
      BY <3>3, <3>4
  <2> QED
    BY <2>1, <2>2
<1>14. Blocks'
  <2>1. BlocksApart'
    <3>1. \A b \in DOMAIN size' : b + size'[b] <= mapped
      BY <1>3, <1>4, <1>5, <1>7
    <3>2. ASSUME NEW b \in DOMAIN size', NEW c \in DOMAIN size', b < c
          PROVE  b + size'[b] <= c
      <4>1. CASE b = n
        <5>1. CASE c = m
          BY <1>4, <1>7, <4>1, <5>1
        <5>2. CASE c # m
          <6>1. c \in DOMAIN size /\ c \in Nat /\ n + size[n] <= c
            BY <1>5, <1>7, <3>2, <4>1, <5>2
          <6> QED
            BY <1>3, <1>7, <4>1, <6>1
        <5> QED
          BY <5>1, <5>2
      <4>2. CASE b = m
        <5>1. c \in DOMAIN size /\ c \in Nat
          BY <1>5, <1>7, <3>2, <4>2
        <5>2. n < c
          BY <1>3, <1>4, <3>2, <4>2, <5>1
        <5>3. n + size[n] <= c
          BY <1>5, <5>1, <5>2
        <5> QED
          BY <1>3, <1>4, <1>7, <4>2, <5>1, <5>3
      <4>3. CASE b # n /\ b # m
        <5>1. b \in DOMAIN size /\ size'[b] = size[b] /\ b \in Nat /\ size[b] \in Nat
          BY <1>5, <1>7, <4>3
        <5>2. CASE c = m
          <6>1. b < n
            <7>1. ~ (n < b)
              <8> SUFFICES ASSUME n < b PROVE FALSE
                OBVIOUS
              <8>1. n + size[n] <= b
                BY <1>5, <5>1
              <8> QED
                BY <1>3, <1>4, <3>2, <5>1, <5>2, <8>1
            <7> QED
              BY <1>3, <4>3, <5>1, <7>1
          <6>2. b + size[b] <= n
            BY <1>5, <5>1, <6>1
          <6> QED
            BY <1>3, <1>4, <5>1, <5>2, <6>2
        <5>3. CASE c # m
          BY <1>5, <1>7, <3>2, <5>1, <5>3
        <5> QED
          BY <5>2, <5>3
      <4> QED
        BY <4>1, <4>2, <4>3
    <3> QED
      BY <1>0, <1>5, <3>1, <3>2 DEF BlocksApart
  <2>2. LiveFits'
    <3>1. \A b \in DOMAIN live : b \in DOMAIN size \ {n}
      BY <1>2, <1>3 DEF TypeOK
    <3> QED
      BY <1>0, <1>2, <1>7, <3>1 DEF Blocks, LiveFits
  <2>3. ListsEmpty'
    BY <1>0, <1>2, <1>8, <1>9 DEF Blocks, ListsEmpty, Arenas
  <2>4. OneOwner'
    <3>1. OwnedOnce(list, DOMAIN live, Used)
      BY <1>2, OwnerMeaning DEF Blocks
    <3>2. m \notin DOMAIN live /\ \A a \in Used : m \notin ToSet(list[a])
      BY <1>2, <1>6, <1>8, <1>9 DEF TypeOK, ToSet
    <3>3. OwnedOnce([list EXCEPT ![Arena[t]] = Pushed(@, m)], DOMAIN live, Used)
      BY <1>8, <1>9, <3>1, <3>2, PushKeeps
    <3>4. Used' = Used
      BY <1>0 DEF Used
    <3> QED
      BY <1>0, <1>1, <3>3, <3>4, OwnerMeaningNext
  <2>5. FreshApart'
    <3> SUFFICES ASSUME NEW u \in Threads, pc'[u] = "m_total"
                 PROVE  /\ node'[u] > 0 /\ node'[u] + FreshLen(u) <= mapped
                        /\ \A b \in DOMAIN size' : \/ b + size'[b] <= node'[u]
                                                   \/ node'[u] + FreshLen(u) <= b
                        /\ \A v \in Threads \ {u} : pc'[v] = "m_total" =>
                             \/ node'[u] + FreshLen(u) <= node'[v]
                             \/ node'[v] + FreshLen(v) <= node'[u]
      BY <1>0, <1>12 DEF FreshApart
    <3>1. \A v \in Threads : pc'[v] = "m_total" => v # t /\ pc[v] = "m_total" /\ node'[v] = node[v]
      BY <1>0, <1>11 DEF Alone
    <3>2. /\ u # t /\ node[u] > 0 /\ node[u] + FreshLen(u) <= mapped
          /\ \A b \in DOMAIN size : b + size[b] <= node[u] \/ node[u] + FreshLen(u) <= b
          /\ \A v \in Threads \ {u} : pc[v] = "m_total" =>
               \/ node[u] + FreshLen(u) <= node[v]
               \/ node[v] + FreshLen(v) <= node[u]
          /\ node'[u] = node[u]
      BY <1>2, <3>1 DEF Blocks, FreshApart
    <3>3. \A b \in {n, m} : b + h <= node[u] \/ node[u] + FreshLen(u) <= b
      <4>1. PICK x \in Nat, y \in Nat : x = node[u] /\ y = node[u] + FreshLen(u)
        <5>1. node[u] \in Nat /\ FreshLen(u) \in Nat
          BY <1>2, <3>1, NeededFacts, SizesAssumption DEF TypeOK, MallocPcs
        <5> QED
          BY <5>1
      <4>2. n + size[n] <= x \/ y <= n
        BY <3>2, <4>1
      <4> QED
        BY <1>3, <1>4, <4>1, <4>2
    <3>4. \A b \in DOMAIN size' : b + size'[b] <= node[u] \/ node[u] + FreshLen(u) <= b
      BY <1>7, <3>2, <3>3
    <3> QED
      BY <3>1, <3>2, <3>4
  <2> QED
    BY <2>1, <2>2, <2>3, <2>4, <2>5 DEF Blocks
<1>15. Dealt'
  BY <1>0, <1>2, DealtKept
<1> QED
  BY <1>10, <1>13, <1>14, <1>15 DEF IInv

\* The block leaves its list for the program, with room for what was asked.
LEMMA TakeIInv ==
  ASSUME IInv, NEW t \in Threads, Take(t)
  PROVE  IInv'
<1>1. /\ fault = "none" /\ pc[t] = "m_fit" /\ size[node[t]] = Needed(t)
      /\ list' = [list EXCEPT ![Arena[t]] = Sunk(@, node[t])]
      /\ count' = [count EXCEPT ![Arena[t]] = Counted(@, 0, 1, -1)]
      /\ live' = [b \in DOMAIN live \cup {node[t]} |->
                    IF b = node[t] THEN Asked(t) ELSE live[b]]
      /\ lock' = [lock EXCEPT ![Arena[t]] = Unlocked(@, t)]
      /\ IF Arena[t] = Temp
           THEN Goto(t, "i_copy") /\ UNCHANGED <<call, query, node>>
           ELSE Return(t) /\ node' = [node EXCEPT ![t] = 0]
      /\ UNCHANGED <<size, mapped, ArenaList, arena_ct, Arena, arena_list_lock, cursor, seen,
                     total_alloc_size, child, fault>>
  BY DEF Take, At, roster
<1>2. TypeOK /\ InStep(t) /\ Locked(t) /\ WorksOn(t) /\ Dealt /\ Blocks
  BY DEF IInv
<1>3. /\ Arena[t] \in Used /\ Arena[t] \in Arenas /\ Used \subseteq Arenas
      /\ ArenaList = 0 => Arena[t] \notin Cores
  BY <1>1, ArenaOfOne DEF InArena
<1>4. PICK n \in DOMAIN size, q \in Queries \cup {ListBytes} :
        /\ n = node[t] /\ q = Asked(t) /\ q + OVERHEAD <= size[n]
        /\ n \notin DOMAIN live /\ n \in ToSet(list[Arena[t]])
  BY <1>1, NeededFacts, BlockOfOne, SizesAssumption, ConstantsAssumption DEF MallocPcs
<1>5. /\ DOMAIN live' = DOMAIN live \cup {n} /\ live'[n] = q
      /\ \A b \in DOMAIN live : live'[b] = live[b]
  BY <1>1, <1>4
<1>6. /\ list \in [Arenas -> Seq(DOMAIN size)]
      /\ list' = [list EXCEPT ![Arena[t]] = Sunk(@, n)]
      /\ OwnedOnce(list, DOMAIN live, Used)
  BY <1>1, <1>2, <1>4, OwnerMeaning DEF TypeOK, Blocks
<1>7. list' \in [Arenas -> Seq(DOMAIN size)]
  <2>1. list[Arena[t]] \in Seq(DOMAIN size) /\ NoRepeats(list[Arena[t]])
    BY <1>3, <1>6 DEF OwnedOnce
  <2>2. Sunk(list[Arena[t]], n) \in Seq(DOMAIN size)
    BY <1>4, <2>1, SunkFacts
  <2> QED
    BY <1>3, <1>6, <2>2
<1>8. TypeOK'
  <2>1. /\ DOMAIN live' \subseteq DOMAIN size
        /\ live' \in [DOMAIN live' -> Queries \cup {ListBytes}]
    BY <1>1, <1>2, <1>4, <1>5 DEF TypeOK
  <2>2. count' \in [Arenas -> [blk : Int, used_blk : Int, free_blk : Int]]
    <3>1. count[Arena[t]] \in [blk : Int, used_blk : Int, free_blk : Int]
      BY <1>2, <1>3 DEF TypeOK
    <3>2. Counted(count[Arena[t]], 0, 1, -1) \in [blk : Int, used_blk : Int, free_blk : Int]
      BY <3>1, CountedFacts
    <3> QED
      BY <1>1, <1>2, <3>2 DEF TypeOK
  <2>3. lock' \in [Arenas -> Threads \cup {NoThread}] /\ node' \in [Threads -> Nat]
    <3>1. lock \in [Arenas -> Threads \cup {NoThread}] /\ node \in [Threads -> Nat]
      BY <1>2 DEF TypeOK
    <3>2. Unlocked(lock[Arena[t]], t) \in Threads \cup {NoThread}
      BY <1>3, <3>1 DEF Unlocked
    <3>3. node' = node \/ node' = [node EXCEPT ![t] = 0]
      BY <1>1
    <3>4. lock' = [lock EXCEPT ![Arena[t]] = Unlocked(lock[Arena[t]], t)]
      BY <1>1
    <3>5. lock' \in [Arenas -> Threads \cup {NoThread}]
      BY <3>1, <3>2, <3>4
    <3>6. node' \in [Threads -> Nat]
      BY <3>1, <3>3
    <3> QED
      BY <3>5, <3>6
  <2>4. /\ call' \in [Threads -> {"none", "malloc", "free", "fork"}]
        /\ query' \in [Threads -> Queries \cup {0}]
        /\ pc' \in [Threads -> {"idle", "f_lock", "m_lock"} \cup InArena
                            \cup {"i_lock", "k_arenas", "k_list", "k_release"} \cup InList]
    BY <1>1, <1>2 DEF TypeOK, InList, Goto, Return
  <2> QED
    BY <1>1, <1>2, <1>7, <2>1, <2>2, <2>3, <2>4 DEF TypeOK
<1>9. /\ Alone(t) /\ LocksLeft(t)
      /\ pc'[t] = IF Arena[t] = Temp THEN "i_copy" ELSE "idle"
      /\ node'[t] = IF Arena[t] = Temp THEN n ELSE 0
      /\ Arena[t] # Temp => call'[t] = "none"
  <2>1. Alone(t)
    BY <1>1, <1>2 DEF TypeOK, Alone, Goto, Return
  <2>2. LocksLeft(t)
    BY <1>1, <1>2, <1>3 DEF TypeOK, LocksLeft, Unlocked
  <2>3. /\ pc'[t] = IF Arena[t] = Temp THEN "i_copy" ELSE "idle"
        /\ node'[t] = IF Arena[t] = Temp THEN n ELSE 0
        /\ Arena[t] # Temp => call'[t] = "none"
    BY <1>1, <1>2, <1>4 DEF TypeOK, Goto, Return
  <2> QED
    BY <2>1, <2>2, <2>3
<1>10. ASSUME NEW u \in Threads PROVE InStep(u)' /\ Locked(u)' /\ WorksOn(u)'
  <2>1. CASE u = t
    <3>1. InStep(t)'
      <4>1. Arena[t] = Temp => call' = call /\ query' = query
        BY <1>1
      <4>2. Arena'[t] = Arena[t] /\ cursor'[t] = 0 /\ Arena[t] # NoArena
        BY <1>1, <1>2 DEF InStep, MallocPcs
      <4> QED
        BY <1>1, <1>2, <1>9, <4>1, <4>2 DEF InStep, MallocPcs, FreePcs, ForkPcs
    <3>2. Locked(t)'
      BY <1>1, <1>2, <1>9 DEF Locked, InStep, InArena, InList
    <3>3. WorksOn(t)'
      BY <1>5, <1>9 DEF WorksOn
    <3> QED
      BY <2>1, <3>1, <3>2, <3>3
  <2>2. CASE u # t
    <3>1. InStep(u)' /\ Locked(u)'
      BY <1>1, <1>9, <2>2, OthersInStep
    <3>2. WorksOn(u) /\ pc'[u] = pc[u] /\ node'[u] = node[u]
      BY <1>9, <2>2 DEF IInv, Alone
    <3>3. CASE pc[u] = "m_fit"
      <4>1. /\ node[u] \in ToSet(list[Arena[u]]) /\ size[node[u]] >= Needed(u)
            /\ Arena[u] \in Arenas /\ Arena[u] # Arena[t]
        BY <1>1, <2>2, <3>3, BlockOfOne
      <4>2. list'[Arena[u]] = list[Arena[u]]
        BY <1>6, <4>1
      <4>3. Needed(u)' = Needed(u)
        BY <1>9, <2>2, OthersNeed
      <4> QED
        BY <1>1, <3>1, <3>2, <3>3, <4>1, <4>2, <4>3 DEF WorksOn
    <3>4. CASE pc[u] # "m_fit"
      BY <1>1, <1>5, <3>1, <3>2, <3>4 DEF WorksOn
    <3> QED
      BY <3>1, <3>3, <3>4
  <2> QED
    BY <2>1, <2>2
<1>11. Blocks'
  <2>1. BlocksApart'
    BY <1>1, <1>2 DEF Blocks, BlocksApart
  <2>2. LiveFits'
    <3>1. \A b \in DOMAIN live : live[b] + OVERHEAD <= size[b]
      BY <1>2 DEF Blocks, LiveFits
    <3> QED
      BY <1>1, <1>4, <1>5, <3>1 DEF LiveFits
  <2>3. ListsEmpty'
    <3>1. ASSUME ArenaList = 0, NEW a \in Cores PROVE list'[a] = <<>>
      <4>1. a \in Arenas /\ a # Arena[t] /\ list[a] = <<>>
        BY <1>2, <1>3, <3>1 DEF Blocks, ListsEmpty, Arenas
      <4> QED
        BY <1>6, <4>1
    <3> QED
      BY <1>1, <3>1 DEF ListsEmpty
  <2>4. OneOwner'
    <3>1. OwnedOnce([list EXCEPT ![Arena[t]] = Sunk(@, n)], DOMAIN live \cup {n}, Used)
      BY <1>3, <1>4, <1>6, SinkKeeps
    <3>2. Used' = Used
      BY <1>1 DEF Used
    <3> QED
      BY <1>5, <1>6, <3>1, <3>2, OwnerMeaningNext
  <2>5. FreshApart'
    <3> SUFFICES ASSUME NEW u \in Threads, pc'[u] = "m_total"
                 PROVE  /\ node'[u] > 0 /\ node'[u] + FreshLen(u)' <= mapped
                        /\ \A b \in DOMAIN size : \/ b + size[b] <= node'[u]
                                                  \/ node'[u] + FreshLen(u)' <= b
                        /\ \A v \in Threads \ {u} : pc'[v] = "m_total" =>
                             \/ node'[u] + FreshLen(u)' <= node'[v]
                             \/ node'[v] + FreshLen(v)' <= node'[u]
      BY <1>1 DEF FreshApart
    <3>1. ASSUME NEW v \in Threads, pc'[v] = "m_total"
          PROVE  pc[v] = "m_total" /\ node'[v] = node[v] /\ FreshLen(v)' = FreshLen(v)
      BY <1>9, <3>1, OthersNeed DEF Alone
    <3> QED
      BY <1>2, <3>1 DEF Blocks, FreshApart
  <2> QED
    BY <2>1, <2>2, <2>3, <2>4, <2>5 DEF Blocks
<1>12. Dealt'
  BY <1>1, <1>2, DealtKept
<1> QED
  BY <1>8, <1>10, <1>11, <1>12 DEF IInv

\* free: the program gives up a block, but never the array of arenas, which a
\* thread may just be filling in.
LEMMA FreeCallIInv ==
  ASSUME IInv, NEW t \in Threads, NEW b \in Held, FreeCall(t, b)
  PROVE  IInv'
<1>1. /\ fault = "none" /\ pc[t] = "idle"
      /\ live' = [c \in DOMAIN live \ {b} |-> live[c]]
      /\ call' = [call EXCEPT ![t] = "free"]
      /\ IF Arena[t] = NoArena
           THEN fault' = "free" /\ UNCHANGED pc
           ELSE Goto(t, "f_lock") /\ UNCHANGED fault
      /\ UNCHANGED <<size, list, mapped, count, ArenaList, arena_ct, Arena, lock,
                     arena_list_lock, query, node, cursor, seen, total_alloc_size, child>>
  BY DEF FreeCall, At, roster, locks
<1>2. TypeOK /\ InStep(t) /\ Locked(t) /\ WorksOn(t) /\ Dealt /\ Blocks
  BY DEF IInv
<1>3. /\ DOMAIN live' = DOMAIN live \ {b}
      /\ \A c \in DOMAIN live' : live'[c] = live[c]
  BY <1>1
<1>4. TypeOK'
  <2>1. /\ DOMAIN live' \subseteq DOMAIN size
        /\ live' \in [DOMAIN live' -> Queries \cup {ListBytes}]
    BY <1>1, <1>2, <1>3 DEF TypeOK
  <2>2. /\ call' \in [Threads -> {"none", "malloc", "free", "fork"}]
        /\ fault' \in {"none", "calloc", "free"}
        /\ pc' \in [Threads -> {"idle", "f_lock", "m_lock"} \cup InArena
                            \cup {"i_lock", "k_arenas", "k_list", "k_release"} \cup InList]
    BY <1>1, <1>2 DEF TypeOK, Goto
  <2> QED
    BY <1>1, <1>2, <2>1, <2>2 DEF TypeOK
<1>5. /\ Alone(t) /\ LocksLeft(t) /\ call'[t] = "free"
      /\ pc'[t] = IF Arena[t] = NoArena THEN "idle" ELSE "f_lock"
  BY <1>1, <1>2 DEF TypeOK, Alone, LocksLeft, Goto
<1>6. ASSUME NEW u \in Threads PROVE InStep(u)' /\ Locked(u)' /\ WorksOn(u)'
  <2>1. CASE u = t
    <3>1. Arena[t] = NoArena \/ Arena[t] \in Cores
      BY <1>1, <1>2 DEF TypeOK, InStep, Arenas
    <3>2. InStep(t)'
      BY <1>1, <1>2, <1>5, <3>1, ConstantsAssumption
         DEF InStep, MallocPcs, FreePcs, ForkPcs, Arenas
    <3>3. Locked(t)' /\ WorksOn(t)'
      BY <1>5 DEF Locked, WorksOn, InArena, InList
    <3> QED
      BY <2>1, <3>2, <3>3
  <2>2. CASE u # t
    <3>1. InStep(u)' /\ Locked(u)'
      BY <1>1, <1>5, <2>2, OthersInStep
    <3>2. WorksOn(u) /\ pc'[u] = pc[u] /\ node'[u] = node[u]
      BY <1>5, <2>2 DEF IInv, Alone
    <3>3. pc[u] = "i_copy" => node[u] # b
      BY DEF Held, Array
    <3>4. Needed(u)' = Needed(u)
      BY <1>5, <2>2, OthersNeed
    <3> QED
      BY <1>1, <1>3, <3>1, <3>2, <3>3, <3>4 DEF WorksOn
  <2> QED
    BY <2>1, <2>2
<1>7. Blocks'
  <2>1. BlocksApart' /\ ListsEmpty'
    BY <1>1, <1>2 DEF Blocks, BlocksApart, ListsEmpty
  <2>2. LiveFits'
    BY <1>1, <1>2, <1>3 DEF Blocks, LiveFits
  <2>3. OneOwner'
    <3>1. OwnedOnce(list, DOMAIN live, Used)
      BY <1>2, OwnerMeaning DEF Blocks
    <3>2. OwnedOnce(list, DOMAIN live \ {b}, Used)
      BY <3>1 DEF OwnedOnce
    <3>3. Used' = Used
      BY <1>1 DEF Used
    <3> QED
      BY <1>1, <1>3, <3>2, <3>3, OwnerMeaningNext
  <2>4. FreshApart'
    <3> SUFFICES ASSUME NEW u \in Threads, pc'[u] = "m_total"
                 PROVE  /\ node[u] > 0 /\ node[u] + FreshLen(u)' <= mapped
                        /\ \A c \in DOMAIN size : \/ c + size[c] <= node[u]
                                                  \/ node[u] + FreshLen(u)' <= c
                        /\ \A v \in Threads \ {u} : pc'[v] = "m_total" =>
                             \/ node[u] + FreshLen(u)' <= node[v]
                             \/ node[v] + FreshLen(v)' <= node[u]
      BY <1>1 DEF FreshApart
    <3>1. ASSUME NEW v \in Threads, pc'[v] = "m_total"
          PROVE  pc[v] = "m_total" /\ FreshLen(v)' = FreshLen(v)
      BY <1>5, <3>1, OthersNeed DEF Alone
    <3> QED
      BY <1>2, <3>1 DEF Blocks, FreshApart
  <2> QED
    BY <2>1, <2>2, <2>3, <2>4 DEF Blocks
<1>8. Dealt'
  BY <1>1, <1>2, DealtKept
<1> QED
  BY <1>4, <1>6, <1>7, <1>8 DEF IInv

\* Nothing moves in this process: a step of the child, or none at all.
LEMMA ParentStillIInv ==
  ASSUME IInv, UNCHANGED <<memory, roster, locks, thread, total_alloc_size, fault>>,
         child' \in [state : {"none", "after_fork", "running"},
                     lock : [Cores -> Threads \cup {NoThread}],
                     arena_list_lock : Threads \cup {NoThread}]
  PROVE  IInv'
<1>1. UNCHANGED <<size, list, live, mapped, count, ArenaList, arena_ct, Arena, lock,
                  arena_list_lock, call, pc, query, node, cursor, seen, total_alloc_size, fault>>
  BY DEF memory, roster, locks, thread
<1>2. TypeOK /\ Dealt /\ Blocks /\ \A t \in Threads : InStep(t) /\ Locked(t) /\ WorksOn(t)
  BY DEF IInv
<1>3. TypeOK'
  BY <1>1, <1>2 DEF TypeOK
<1>4. \A t \in Threads : InStep(t)' /\ Locked(t)' /\ WorksOn(t)'
  <2> TAKE t \in Threads
  <2>1. Needed(t)' = Needed(t)
    BY <1>1 DEF Needed, Asked
  <2> QED
    BY <1>1, <1>2, <2>1 DEF InStep, Locked, WorksOn
<1>5. Blocks'
  <2>1. BlocksApart' /\ ListsEmpty' /\ LiveFits'
    BY <1>1, <1>2 DEF Blocks, BlocksApart, ListsEmpty, LiveFits
  <2>2. OneOwner'
    BY <1>1, <1>2 DEF Blocks, OneOwner, Used
  <2>3. FreshApart'
    <3>1. \A t \in Threads : FreshLen(t)' = FreshLen(t)
      BY <1>1 DEF FreshLen, Needed, Asked
    <3> QED
      BY <1>1, <1>2, <3>1 DEF Blocks, FreshApart
  <2> QED
    BY <2>1, <2>2, <2>3 DEF Blocks
<1>6. Dealt'
  BY <1>1, <1>2, DealtKept
<1> QED
  BY <1>3, <1>4, <1>5, <1>6 DEF IInv

\* after_fork in the child changes the child's copy of the locks only.
LEMMA ChildReleaseIInv ==
  ASSUME IInv, ChildRelease
  PROVE  IInv'
<1>1. /\ child.lock \in [Cores -> Threads \cup {NoThread}]
      /\ child.arena_list_lock \in Threads \cup {NoThread}
  BY DEF IInv, TypeOK
<1>2. /\ [a \in Cores |-> Unlocked(child.lock[a], ChildThread)]
           \in [Cores -> Threads \cup {NoThread}]
      /\ Unlocked(child.arena_list_lock, ChildThread) \in Threads \cup {NoThread}
  BY <1>1 DEF Unlocked
<1>3. child' \in [state : {"none", "after_fork", "running"},
                  lock : [Cores -> Threads \cup {NoThread}],
                  arena_list_lock : Threads \cup {NoThread}]
  BY <1>2 DEF ChildRelease
<1> QED
  BY <1>3, ParentStillIInv DEF ChildRelease

\* No step breaks the invariant.
LEMMA NextIInv ==
  ASSUME IInv, [Next]_vars
  PROVE  IInv'
<1>1. CASE UNCHANGED vars
  <2>1. child' \in [state : {"none", "after_fork", "running"},
                    lock : [Cores -> Threads \cup {NoThread}],
                    arena_list_lock : Threads \cup {NoThread}]
    BY <1>1 DEF IInv, TypeOK, vars
  <2> QED
    BY <1>1, <2>1, ParentStillIInv DEF vars
<1>2. CASE ChildRelease
  BY <1>2, ChildReleaseIInv
<1>3. ASSUME NEW t \in Threads, NEW b \in Held, FreeCall(t, b) PROVE IInv'
  BY <1>3, FreeCallIInv
<1>4. ASSUME NEW t \in Threads, (\E q \in Queries : MallocCall(t, q)) \/ ForkCall(t)
      PROVE  IInv'
  BY <1>4, CallIInv
<1>5. ASSUME NEW t \in Threads, Step(t) PROVE IInv'
  BY <1>5, InitLockIInv, UseTempArenaIInv, CopyTempIInv, AssignArenaIInv, LockIInv,
     FirstFitIInv, RequestMemoryIInv, AddMemoryIInv, OutOfMemoryIInv, SplitIInv, TakeIInv,
     FreeCountIInv, ForkLockArenaIInv, ForkIInv DEF Step
<1> QED
  BY <1>1, <1>2, <1>3, <1>4, <1>5 DEF Next

\* The invariant holds in every state of every run.
THEOREM Invariance == Spec => []IInv
<1>1. IInv /\ [Next]_vars => IInv'
  BY NextIInv
<1> QED
  BY <1>1, InitIInv, PTL DEF Spec

\* Every variable has its type.
THEOREM TypeCorrect == Spec => []TypeOK
<1>1. IInv => TypeOK
  BY DEF IInv
<1> QED
  BY <1>1, Invariance, PTL

\* No two calls work in one arena, and one at most builds the array, assigns an
\* arena or forks.
THEOREM ArenasExclusive == Spec => []ArenaExclusion
<1>1. IInv => ArenaExclusion
  BY DEF IInv, Locked, ArenaExclusion
<1> QED
  BY <1>1, Invariance, PTL

\* No block is on two lists, on one list twice, or on a list while the program
\* holds it: in any arena, with any number of them.
THEOREM BlocksHaveOneOwner == Spec => []OneOwner
<1>1. IInv => OneOwner
  BY DEF IInv, Blocks
<1> QED
  BY <1>1, Invariance, PTL

\* The threads that have an arena are spread evenly: whatever the order of the
\* first calls, no arena serves two threads more than another.
THEOREM ArenasAreBalanced == Spec => []Balanced
<1>1. ASSUME IInv PROVE Balanced
  <2>1. PICK q \in Nat, r \in Cores :
          \A a \in Cores : Cardinality(Served(a)) = IF a < r THEN q + 1 ELSE q
    BY <1>1 DEF IInv, Dealt
  <2>2. \A a \in Cores : Cardinality(Served(a)) \in Nat /\ Cardinality(Served(a)) >= q
                         /\ Cardinality(Served(a)) <= q + 1
    BY <2>1
  <2>3. \A a, b \in Cores : Cardinality(Served(a)) <= Cardinality(Served(b)) + 1
    BY <2>2
  <2> QED
    BY <2>3 DEF Balanced
<1> QED
  BY <1>1, Invariance, PTL

\* When fork copies the memory every arena is locked by the thread that forks,
\* and so is the array: no other thread is half way through a call there.
THEOREM ForkIsQuiescent == Spec => ForkQuiescent
<1> DEFINE Begins == child'.state = "after_fork" /\ child.state # "after_fork"
           AllOut == \A t \in Threads : /\ pc[t] \notin InArena
                                        /\ pc[t] \in InList => pc[t] = "k_fork"
<1>1. ASSUME IInv, [Next]_vars, child'.state = "after_fork", child.state # "after_fork",
             NEW u \in Threads
      PROVE  pc[u] \notin InArena /\ (pc[u] \in InList => pc[u] = "k_fork")
  <2>1. PICK t \in Threads : Fork(t)
    <3>1. CASE UNCHANGED child
      BY <1>1, <3>1
    <3>2. CASE ChildRelease
      <4>1. child'.state = "running"
        BY <3>2 DEF ChildRelease
      <4> QED
        BY <1>1, <4>1
    <3>3. ASSUME NEW t \in Threads, Step(t), ~ Fork(t) PROVE UNCHANGED child
      BY <3>3 DEF Step, InitLock, UseTempArena, CopyTemp, AssignArena, MallocLock, FirstFit,
         RequestMemory, AddMemory, OutOfMemory, Split, Take, FreeLock, FreeCount,
         ForkLockArena, ForkLockList, ForkReleaseArena, ForkReleaseList
    <3>4. ASSUME NEW t \in Threads,
                 \/ \E q \in Queries : MallocCall(t, q)
                 \/ \E b \in Held : FreeCall(t, b)
                 \/ ForkCall(t)
          PROVE  UNCHANGED child
      BY <3>4 DEF MallocCall, FreeCall, ForkCall
    <3> QED
      BY <1>1, <3>1, <3>2, <3>3, <3>4 DEF Next, vars
  <2>2. pc[t] = "k_fork" /\ InStep(t) /\ Locked(t) /\ Locked(u)
    BY <1>1, <2>1 DEF Fork, At, IInv
  <2>3. arena_list_lock = t /\ ArenaList # 0 /\ \A a \in Cores : lock[a] = t
    BY <2>2 DEF InStep, Locked, InList, ForkPcs
  <2>4. pc[u] \notin InArena
    <3> SUFFICES ASSUME pc[u] \in InArena PROVE FALSE
      OBVIOUS
    <3>1. Arena[u] \in Cores /\ lock[Arena[u]] = u
      BY <1>1, <2>2, <2>3, ArenaOfOne DEF Used, Locked
    <3> QED
      BY <2>2, <2>3, <3>1 DEF InArena
  <2>5. pc[u] \in InList => u = t
    BY <2>2, <2>3 DEF Locked
  <2> QED
    BY <2>2, <2>4, <2>5
<1>2. ASSUME IInv, [Next]_vars PROVE [Begins => AllOut]_vars
  <2>1. ASSUME Begins PROVE AllOut
    BY <1>1, <1>2, <2>1
  <2> QED
    BY <2>1
<1>3. Spec => [][Begins => AllOut]_vars
  BY <1>2, Invariance, PTL DEF Spec
<1> QED
  BY <1>3 DEF ForkQuiescent

------------------------------------------------------------------------------
(* The arenas together implement HeapPromise. *)

\* The n bytes behind the header of block b, and those the program holds.
Extent(b, n) == [lo |-> b + OVERHEAD, len |-> n]
Extents == {Extent(b, live[b]) : b \in DOMAIN live}

\* Two blocks hold ranges that share no byte, whichever arenas they are of.
LEMMA ExtentsApart ==
  ASSUME IInv, NEW a \in DOMAIN size, NEW b \in DOMAIN size, a # b,
         NEW m \in Nat, m + OVERHEAD <= size[a],
         NEW n \in Nat, n + OVERHEAD <= size[b]
  PROVE  Promise!Apart(Extent(a, m), Extent(b, n))
<1>1. a \in Nat /\ b \in Nat /\ size[a] \in Nat /\ size[b] \in Nat /\ OVERHEAD \in Nat
  BY BlockFacts, ConstantsAssumption
<1>2. a + size[a] <= b \/ b + size[b] <= a
  BY <1>1 DEF IInv, Blocks, BlocksApart
<1> QED
  BY <1>1, <1>2 DEF Promise!Apart, Extent

\* malloc's last step hands out a range clear of those still held.
LEMMA TakeGrants ==
  ASSUME IInv, NEW t \in Threads, Take(t)
  PROVE  Promise!Grant
<1>1. /\ pc[t] = "m_fit" /\ size[node[t]] = Needed(t)
      /\ live' = [c \in DOMAIN live \cup {node[t]} |-> IF c = node[t] THEN Asked(t) ELSE live[c]]
  BY DEF Take, At
<1>2. PICK n \in DOMAIN size, q \in Nat :
        /\ n = node[t] /\ q = Asked(t) /\ q + OVERHEAD <= size[n] /\ n \notin DOMAIN live
  <2>1. Asked(t) \in Nat /\ Asked(t) + OVERHEAD <= Needed(t)
    BY <1>1, NeededFacts, SizesAssumption, ConstantsAssumption DEF MallocPcs
  <2> QED
    BY <1>1, <2>1, BlockOfOne
<1>3. /\ DOMAIN live' = DOMAIN live \cup {n} /\ live'[n] = q
      /\ \A c \in DOMAIN live : live'[c] = live[c]
  BY <1>1, <1>2
<1> DEFINE e == Extent(n, q)
<1>4. Extents' = Extents \cup {e}
  BY <1>3 DEF Extents
<1>5. \A c \in DOMAIN live :
        c \in DOMAIN size /\ c # n /\ live[c] \in Nat /\ live[c] + OVERHEAD <= size[c]
  BY <1>2, ConstantsAssumption DEF IInv, TypeOK, Blocks, LiveFits
<1>6. \A f \in Extents : Promise!Apart(e, f)
  BY <1>2, <1>5, ExtentsApart DEF Extents
<1>7. e \notin Extents
  <2>1. \A c \in DOMAIN live : c + OVERHEAD # n + OVERHEAD
    BY <1>5, BlockFacts, ConstantsAssumption
  <2> QED
    BY <2>1 DEF Extents, Extent
<1>8. \E g \in Extents' : /\ g \notin Extents /\ Extents' = Extents \cup {g}
                          /\ \A f \in Extents : Promise!Apart(g, f)
  BY <1>4, <1>6, <1>7
<1> QED
  BY <1>8 DEF Promise!Grant, Extents, Extent

\* The call of free gives one range back.
LEMMA FreeCallReturns ==
  ASSUME IInv, NEW t \in Threads, NEW b \in Held, FreeCall(t, b)
  PROVE  Promise!Return
<1>1. b \in DOMAIN live /\ live' = [c \in DOMAIN live \ {b} |-> live[c]]
  BY DEF FreeCall, Held
<1>2. \A c \in DOMAIN live : c # b => Extent(c, live[c]) # Extent(b, live[b])
  <2>1. \A c \in DOMAIN live : c # b => c + OVERHEAD # b + OVERHEAD
    BY <1>1, ConstantsAssumption DEF IInv, TypeOK
  <2> QED
    BY <2>1 DEF Extent
<1>3. DOMAIN live' = DOMAIN live \ {b} /\ \A c \in DOMAIN live \ {b} : live'[c] = live[c]
  BY <1>1
<1>4. Extents' = Extents \ {Extent(b, live[b])}
  BY <1>2, <1>3 DEF Extents
<1>5. \E e \in Extents : Extents' = Extents \ {e}
  BY <1>1, <1>4 DEF Extents
<1> QED
  BY <1>5 DEF Promise!Return, Extents, Extent

\* Every step of every thread in every arena hands out one range clear of the
\* others, takes one back, or changes none.
THEOREM ImplementsPromise == Spec => KeepsPromise
<1>1. Init => Promise!Init
  BY DEF Init, Promise!Init
<1>2. ASSUME IInv, [Next]_vars
      PROVE  Promise!Next \/ UNCHANGED Extents
  <2>1. CASE UNCHANGED live
    BY <2>1 DEF Extents, Extent
  <2>2. ASSUME NEW t \in Threads, Take(t) PROVE Promise!Next
    BY <1>2, <2>2, TakeGrants DEF Promise!Next
  <2>3. ASSUME NEW t \in Threads, NEW b \in Held, FreeCall(t, b) PROVE Promise!Next
    BY <1>2, <2>3, FreeCallReturns DEF Promise!Next
  <2>4. ASSUME NEW t \in Threads, Step(t), ~ Take(t) PROVE UNCHANGED live
    BY <2>4 DEF Step, InitLock, UseTempArena, CopyTemp, AssignArena, MallocLock, FirstFit,
       RequestMemory, AddMemory, OutOfMemory, Split, FreeLock, FreeCount, ForkLockArena,
       ForkLockList, Fork, ForkReleaseArena, ForkReleaseList, memory
  <2>5. ASSUME NEW t \in Threads, (\E q \in Queries : MallocCall(t, q)) \/ ForkCall(t)
        PROVE  UNCHANGED live
    BY <2>5 DEF MallocCall, ForkCall, memory
  <2>6. ASSUME ChildRelease \/ UNCHANGED vars PROVE UNCHANGED live
    BY <2>6 DEF ChildRelease, vars, memory
  <2> QED
    BY <1>2, <2>1, <2>2, <2>3, <2>4, <2>5, <2>6 DEF Next
<1>3. IInv /\ [Next]_vars => [Promise!Next]_Extents
  BY <1>2
<1> QED
  BY <1>1, <1>3, Invariance, PTL DEF Spec, KeepsPromise, Promise!Spec, Extents, Extent

------------------------------------------------------------------------------
(* The counters. *)

\* Blocks are counted as they are taken, and as free some steps after the program
\* has given them back: the calls of free between the two make the difference.
\* Before the array exists only the temporary arena counts.
UsedBlk == [a \in Arenas |-> count[a].used_blk]
Freeing == {t \in Threads : pc[t] \in FreePcs}
InUse == DOMAIN live

AllCounted ==
  SumFunctionOnSet(UsedBlk, Used) = Cardinality(InUse) + Cardinality(Freeing)

Counts ==
  /\ IsFiniteSet(InUse) /\ IsFiniteSet(Freeing)
  /\ fault = "none" => AllCounted
  /\ ArenaList = 0 => \A a \in Cores : count[a].used_blk = 0

\* The arenas in use are finitely many, and each has a number for its counter.
LEMMA UsedFinite ==
  ASSUME TypeOK
  PROVE  /\ IsFiniteSet(Used) /\ Used \subseteq Arenas
         /\ \A a \in Arenas : UsedBlk[a] = count[a].used_blk /\ UsedBlk[a] \in Int
<1>1. IsFiniteSet(Cores)
  <2>1. 0 \in Int /\ CORE_COUNT - 1 \in Int
    BY ConstantsAssumption
  <2> QED
    BY <2>1, FS_Interval DEF Cores
<1>2. IsFiniteSet({Temp})
  BY FS_Singleton
<1> QED
  BY <1>1, <1>2 DEF Used, Arenas, UsedBlk, TypeOK

\* At first no block is in use, and no counter counts one.
LEMMA InitCounts == Init => Counts
<1> SUFFICES ASSUME Init PROVE Counts
  OBVIOUS
<1>1. InUse = {} /\ Freeing = {} /\ fault = "none" /\ ArenaList = 0
  BY DEF Init, InUse, Freeing, FreePcs
<1>2. \A a \in Arenas : count[a].used_blk = 0
  BY DEF Init, Zero
<1>3. TypeOK
  BY <1>1, InitIInv DEF IInv
<1>4. SumFunctionOnSet(UsedBlk, Used) = 0
  BY <1>2, <1>3, UsedFinite, SumZero
<1>5. IsFiniteSet({}) /\ Cardinality({}) = 0
  BY FS_EmptySet
<1> QED
  BY <1>1, <1>2, <1>4, <1>5 DEF Counts, AllCounted, Arenas

\* Nothing that is counted changes.
LEMMA CountsSame ==
  ASSUME Counts, TypeOK, UNCHANGED ArenaList, fault' = "none" => fault = "none",
         InUse' = InUse, Freeing' = Freeing,
         \A a \in Arenas : count'[a].used_blk = count[a].used_blk
  PROVE  Counts'
<1>1. UsedBlk' = UsedBlk
  BY DEF UsedBlk
<1>2. Used' = Used
  BY DEF Used
<1>3. AllCounted' <=> AllCounted
  BY <1>1, <1>2 DEF AllCounted
<1> QED
  BY <1>3 DEF Counts, Arenas

\* The counter of one arena in use changes by as much as the blocks in use and
\* the calls of free together.
LEMMA CountsMove ==
  ASSUME Counts, TypeOK, UNCHANGED <<ArenaList, fault>>, fault = "none",
         IsFiniteSet(InUse'), IsFiniteSet(Freeing'), NEW a \in Used, NEW d \in Int,
         count'[a].used_blk = count[a].used_blk + d,
         ArenaList = 0 => a \notin Cores,
         \A b \in Arenas \ {a} : count'[b] = count[b],
         Cardinality(InUse') + Cardinality(Freeing')
           = (Cardinality(InUse) + Cardinality(Freeing)) + d
  PROVE  Counts'
<1>1. /\ IsFiniteSet(Used) /\ a \in Arenas /\ Used \subseteq Arenas
      /\ \A b \in Arenas : UsedBlk[b] = count[b].used_blk /\ UsedBlk[b] \in Int
  BY UsedFinite
<1>2. \A b \in Arenas : UsedBlk'[b] = count'[b].used_blk
  BY DEF UsedBlk
<1>3. UsedBlk'[a] = UsedBlk[a] + d /\ \A b \in Used \ {a} : UsedBlk'[b] = UsedBlk[b]
  BY <1>1, <1>2
<1>4. \A b \in Used : UsedBlk[b] \in Int /\ UsedBlk'[b] \in Int
  BY <1>1, <1>3
<1>5. SumFunctionOnSet(UsedBlk', Used)
        = SumFunctionOnSet(UsedBlk, Used) + (UsedBlk'[a] - UsedBlk[a])
  <2> DEFINE S == Used
             f == UsedBlk
             e == UsedBlk'
  <2>1. IsFiniteSet(S) /\ a \in S
    BY <1>1
  <2>2. \A b \in S : f[b] \in Int /\ e[b] \in Int
    BY <1>4
  <2>3. \A b \in S \ {a} : e[b] = f[b]
    BY <1>3
  <2>4. a \in S
    OBVIOUS
  <2> HIDE DEF S, f, e
  <2>5. SumFunctionOnSet(e, S) = SumFunctionOnSet(f, S) + (e[a] - f[a])
    BY ONLY <2>1, <2>2, <2>3, <2>4, SumChanged
  <2> QED
    BY <2>5 DEF S, f, e
<1>6. SumFunctionOnSet(UsedBlk', Used) = SumFunctionOnSet(UsedBlk, Used) + d
  <2>1. UsedBlk[a] \in Int
    BY <1>4
  <2>2. UsedBlk'[a] - UsedBlk[a] = d
    BY <1>3, <2>1
  <2> QED
    BY <1>5, <2>2
<1>7. Used' = Used
  BY DEF Used
<1>8. AllCounted'
  BY <1>6, <1>7 DEF AllCounted, Counts
<1>9. ArenaList' = 0 => \A b \in Cores : count'[b].used_blk = 0
  BY DEF Counts, Arenas
<1> QED
  BY <1>8, <1>9 DEF Counts

\* The threads in free: one comes in, or leaves, or none does.
LEMMA FreeingFacts ==
  ASSUME TypeOK, IsFiniteSet(Freeing), NEW t \in Threads,
         \A u \in Threads \ {t} : pc'[u] = pc[u]
  PROVE  /\ IsFiniteSet(Freeing')
         /\ pc[t] \in FreePcs /\ pc'[t] \in FreePcs => Freeing' = Freeing
         /\ pc[t] \notin FreePcs /\ pc'[t] \notin FreePcs => Freeing' = Freeing
         /\ pc[t] \notin FreePcs /\ pc'[t] \in FreePcs =>
              Cardinality(Freeing') = Cardinality(Freeing) + 1
         /\ pc[t] \in FreePcs /\ pc'[t] \notin FreePcs =>
              Cardinality(Freeing') = Cardinality(Freeing) - 1
         /\ Cardinality(Freeing) \in Nat /\ Cardinality(Freeing') \in Nat
<1>1. /\ t \in Freeing <=> pc[t] \in FreePcs
      /\ t \in Freeing' <=> pc'[t] \in FreePcs
      /\ \A u : u # t => (u \in Freeing' <=> u \in Freeing)
  BY DEF Freeing
<1>2. \/ Freeing' = Freeing
      \/ Freeing' = Freeing \cup {t} /\ t \notin Freeing
      \/ Freeing' = Freeing \ {t} /\ t \in Freeing
  BY <1>1
<1> DEFINE F == Freeing
           G == Freeing'
<1>3. /\ IsFiniteSet(F \cup {t})
      /\ Cardinality(F \cup {t}) = IF t \in F THEN Cardinality(F) ELSE Cardinality(F) + 1
      /\ IsFiniteSet(F \ {t})
      /\ Cardinality(F \ {t}) = IF t \in F THEN Cardinality(F) - 1 ELSE Cardinality(F)
      /\ Cardinality(F) \in Nat
  BY FS_AddElement, FS_RemoveElement, FS_CardinalityType
<1>4. IsFiniteSet(G)
  BY <1>2, <1>3
<1>5. Cardinality(G) \in Nat
  BY <1>4, FS_CardinalityType
<1> HIDE DEF F, G
<1>6. /\ t \in F /\ t \in G => G = F
      /\ t \notin F /\ t \notin G => G = F
      /\ t \notin F /\ t \in G => Cardinality(G) = Cardinality(F) + 1
      /\ t \in F /\ t \notin G => Cardinality(G) = Cardinality(F) - 1
  BY <1>2, <1>3 DEF F, G
<1> QED
  BY <1>1, <1>3, <1>4, <1>5, <1>6 DEF F, G

\* The steps that count nothing, or count a block that is not in use.
LEMMA UncountedSteps ==
  ASSUME IInv, Counts, NEW t \in Threads,
         \/ ForkCall(t) \/ \E q \in Queries : MallocCall(t, q)
         \/ InitLock(t) \/ UseTempArena(t) \/ AssignArena(t)
         \/ MallocLock(t) \/ FirstFit(t) \/ RequestMemory(t) \/ AddMemory(t)
         \/ OutOfMemory(t) \/ Split(t) \/ FreeLock(t)
         \/ ForkLockArena(t) \/ ForkLockList(t) \/ Fork(t)
         \/ ForkReleaseArena(t) \/ ForkReleaseList(t)
  PROVE  Counts'
<1>1. TypeOK
  BY DEF IInv
<1>2. UNCHANGED <<ArenaList, live>> /\ fault = "none"
  BY DEF ForkCall, MallocCall, InitLock, UseTempArena, AssignArena, MallocLock, FirstFit,
         RequestMemory, AddMemory, OutOfMemory, Split, FreeLock, ForkLockArena, ForkLockList,
         Fork, ForkReleaseArena, ForkReleaseList, At, memory, roster
<1>3. \A a \in Arenas : count'[a].used_blk = count[a].used_blk
  <2>1. CASE UNCHANGED count
    BY <2>1
  <2>2. CASE AddMemory(t) \/ Split(t)
    <3>1. count' = [count EXCEPT ![Arena[t]] = Counted(@, 1, 0, 1)]
      BY <2>2 DEF AddMemory, Split
    <3> SUFFICES ASSUME NEW a \in Arenas PROVE count'[a].used_blk = count[a].used_blk
      OBVIOUS
    <3>2. CASE a = Arena[t]
      <4>1. count'[a] = Counted(count[a], 1, 0, 1) /\ count[a].used_blk \in Int
        BY <1>1, <3>1, <3>2 DEF TypeOK
      <4>2. count'[a].used_blk = count[a].used_blk + 0
        BY <4>1 DEF Counted
      <4> QED
        BY <4>1, <4>2
    <3>3. CASE a # Arena[t]
      BY <1>1, <3>1, <3>3 DEF TypeOK
    <3> QED
      BY <3>2, <3>3
  <2>3. UNCHANGED count \/ AddMemory(t) \/ Split(t)
    BY DEF ForkCall, MallocCall, InitLock, UseTempArena, AssignArena, MallocLock, FirstFit,
           RequestMemory, OutOfMemory, FreeLock, ForkLockArena, ForkLockList,
           Fork, ForkReleaseArena, ForkReleaseList, memory
  <2> QED
    BY <2>1, <2>2, <2>3
<1>4. /\ \A u \in Threads \ {t} : pc'[u] = pc[u]
      /\ pc[t] \in FreePcs <=> pc'[t] \in FreePcs
  <2>0. pc = [u \in Threads |-> pc[u]]
    BY <1>1 DEF TypeOK
  <2>1. CASE ForkCall(t) \/ \E q \in Queries : MallocCall(t, q)
    BY <2>0, <2>1 DEF ForkCall, MallocCall, At, Goto, FreePcs
  <2>2. CASE InitLock(t) \/ UseTempArena(t) \/ AssignArena(t)
    BY <2>0, <2>2 DEF InitLock, UseTempArena, AssignArena, AfterInit, At, Goto, FreePcs
  <2>3. CASE MallocLock(t) \/ FirstFit(t) \/ RequestMemory(t) \/ AddMemory(t)
    BY <2>0, <2>3 DEF MallocLock, FirstFit, RequestMemory, AddMemory, At, Goto, FreePcs
  <2>4. CASE OutOfMemory(t) \/ Split(t) \/ FreeLock(t)
    BY <2>0, <2>4 DEF OutOfMemory, Split, FreeLock, Return, At, Goto, FreePcs
  <2>5. CASE ForkLockArena(t) \/ ForkLockList(t) \/ Fork(t)
    BY <2>0, <2>5 DEF ForkLockArena, ForkLockList, Fork, At, Goto, FreePcs
  <2>6. CASE ForkReleaseArena(t) \/ ForkReleaseList(t)
    BY <2>0, <2>6 DEF ForkReleaseArena, ForkReleaseList, Return, At, Goto, FreePcs
  <2> QED
    BY <2>1, <2>2, <2>3, <2>4, <2>5, <2>6
<1>5. Freeing' = Freeing
  <2>1. IsFiniteSet(Freeing)
    BY DEF Counts
  <2> QED
    BY <1>1, <1>4, <2>1, FreeingFacts
<1>6. InUse' = InUse
  BY <1>2 DEF InUse
<1> QED
  BY <1>1, <1>2, <1>3, <1>5, <1>6, CountsSame

\* A block that is taken comes into use and into the count of its arena.
LEMMA TakeCounts ==
  ASSUME IInv, Counts, NEW t \in Threads, Take(t)
  PROVE  Counts'
<1>1. /\ fault = "none" /\ pc[t] = "m_fit"
      /\ count' = [count EXCEPT ![Arena[t]] = Counted(@, 0, 1, -1)]
      /\ DOMAIN live' = DOMAIN live \cup {node[t]}
      /\ pc' = [pc EXCEPT ![t] = IF Arena[t] = Temp THEN "i_copy" ELSE "idle"]
      /\ UNCHANGED <<ArenaList, fault>>
  BY DEF Take, At, Goto, Return, roster
<1>2. TypeOK /\ WorksOn(t) /\ OneOwner
  BY DEF IInv, Blocks
<1>3. /\ Arena[t] \in Used /\ Arena[t] \in Arenas
      /\ ArenaList = 0 => Arena[t] \notin Cores
  BY <1>1, ArenaOfOne DEF InArena
<1>4. node[t] \notin InUse
  <2>1. node[t] \in ToSet(list[Arena[t]])
    BY <1>1, <1>2 DEF WorksOn
  <2> QED
    BY <1>2, <1>3, <2>1 DEF OneOwner, ToSet, InUse
<1>5. /\ IsFiniteSet(InUse') /\ Cardinality(InUse') = Cardinality(InUse) + 1
      /\ Cardinality(InUse) \in Nat
  <2>1. InUse' = InUse \cup {node[t]} /\ IsFiniteSet(InUse)
    BY <1>1 DEF InUse, Counts
  <2> QED
    BY <1>4, <2>1, FS_AddElement, FS_CardinalityType
<1>6. IsFiniteSet(Freeing') /\ Freeing' = Freeing /\ Cardinality(Freeing) \in Nat
  <2>1. pc[t] \notin FreePcs /\ pc'[t] \notin FreePcs
        /\ \A u \in Threads \ {t} : pc'[u] = pc[u]
    BY <1>1, <1>2 DEF TypeOK, FreePcs
  <2>2. IsFiniteSet(Freeing)
    BY DEF Counts
  <2> QED
    BY <1>2, <2>1, <2>2, FreeingFacts
<1>7. /\ count'[Arena[t]].used_blk = count[Arena[t]].used_blk + 1
      /\ \A b \in Arenas \ {Arena[t]} : count'[b] = count[b]
  <2>1. /\ count'[Arena[t]] = Counted(count[Arena[t]], 0, 1, -1)
        /\ \A b \in Arenas \ {Arena[t]} : count'[b] = count[b]
    BY <1>1, <1>2, <1>3 DEF TypeOK
  <2> QED
    BY <2>1 DEF Counted
<1>8. Cardinality(InUse') + Cardinality(Freeing')
        = (Cardinality(InUse) + Cardinality(Freeing)) + 1
  BY <1>5, <1>6
<1> QED
  BY <1>1, <1>2, <1>3, <1>5, <1>6, <1>7, <1>8, CountsMove

\* A call of free ends, and has counted in the arena of its thread.
LEMMA FreeCountCounts ==
  ASSUME IInv, Counts, NEW t \in Threads, FreeCount(t)
  PROVE  Counts'
<1>1. /\ fault = "none" /\ pc[t] = "f_count"
      /\ count' = [count EXCEPT ![Arena[t]] = Counted(@, 0, -1, 1)]
      /\ pc' = [pc EXCEPT ![t] = "idle"]
      /\ UNCHANGED <<live, ArenaList, fault>>
  BY DEF FreeCount, At, Goto, Return, roster
<1>2. TypeOK
  BY DEF IInv
<1>3. /\ Arena[t] \in Used /\ Arena[t] \in Arenas
      /\ ArenaList = 0 => Arena[t] \notin Cores
  BY <1>1, ArenaOfOne DEF InArena
<1>5. /\ IsFiniteSet(InUse') /\ InUse' = InUse /\ Cardinality(InUse) \in Nat
  <2>1. InUse' = InUse /\ IsFiniteSet(InUse)
    BY <1>1 DEF InUse, Counts
  <2> QED
    BY <2>1, FS_CardinalityType
<1>6. /\ IsFiniteSet(Freeing') /\ Cardinality(Freeing') = Cardinality(Freeing) - 1
      /\ Cardinality(Freeing) \in Nat
  <2>1. pc[t] \in FreePcs /\ pc'[t] \notin FreePcs
        /\ \A u \in Threads \ {t} : pc'[u] = pc[u]
    BY <1>1, <1>2 DEF TypeOK, FreePcs
  <2>2. IsFiniteSet(Freeing)
    BY DEF Counts
  <2> QED
    BY <1>2, <2>1, <2>2, FreeingFacts
<1>7. /\ count'[Arena[t]].used_blk = count[Arena[t]].used_blk + (-1)
      /\ \A b \in Arenas \ {Arena[t]} : count'[b] = count[b]
  <2>1. /\ count'[Arena[t]] = Counted(count[Arena[t]], 0, -1, 1)
        /\ \A b \in Arenas \ {Arena[t]} : count'[b] = count[b]
    BY <1>1, <1>2, <1>3 DEF TypeOK
  <2> QED
    BY <2>1 DEF Counted
<1>8. Cardinality(InUse') + Cardinality(Freeing')
        = (Cardinality(InUse) + Cardinality(Freeing)) + (-1)
  BY <1>5, <1>6
<1> QED
  BY <1>1, <1>2, <1>3, <1>5, <1>6, <1>7, <1>8, CountsMove

\* A block goes out of use, and the call of free that gives it back is under way.
LEMMA FreeCallCounts ==
  ASSUME IInv, Counts, NEW t \in Threads, NEW b \in Held, FreeCall(t, b)
  PROVE  Counts'
<1>1. /\ fault = "none" /\ pc[t] = "idle" /\ DOMAIN live' = DOMAIN live \ {b}
      /\ b \in DOMAIN live
      /\ \/ fault' = "free" /\ UNCHANGED pc
         \/ pc' = [pc EXCEPT ![t] = "f_lock"] /\ fault' = "none"
      /\ UNCHANGED <<count, ArenaList>>
  BY DEF FreeCall, At, Goto, Held, roster
<1>2. TypeOK
  BY DEF IInv
<1>3. IsFiniteSet(InUse) /\ IsFiniteSet(Freeing)
  BY DEF Counts
<1>4. /\ IsFiniteSet(InUse') /\ Cardinality(InUse') = Cardinality(InUse) - 1
      /\ Cardinality(InUse) \in Nat
  <2>1. InUse' = InUse \ {b} /\ b \in InUse
    BY <1>1 DEF InUse
  <2> QED
    BY <1>3, <2>1, FS_RemoveElement, FS_CardinalityType
<1>5. ArenaList' = 0 => \A a \in Cores : count'[a].used_blk = 0
  BY <1>1 DEF Counts
<1>6. CASE fault' = "free" /\ UNCHANGED pc
  <2>1. IsFiniteSet(Freeing')
    BY <1>3, <1>6 DEF Freeing
  <2> QED
    BY <1>4, <1>5, <1>6, <2>1 DEF Counts
<1>7. CASE pc' = [pc EXCEPT ![t] = "f_lock"] /\ fault' = "none"
  <2>1. pc[t] \notin FreePcs /\ pc'[t] \in FreePcs
        /\ \A u \in Threads \ {t} : pc'[u] = pc[u]
    BY <1>1, <1>2, <1>7 DEF TypeOK, FreePcs
  <2>2. /\ IsFiniteSet(Freeing') /\ Cardinality(Freeing') = Cardinality(Freeing) + 1
        /\ Cardinality(Freeing) \in Nat
    BY <1>2, <1>3, <2>1, FreeingFacts
  <2>3. UsedBlk' = UsedBlk /\ Used' = Used
    BY <1>1 DEF UsedBlk, Used
  <2>4. Cardinality(InUse') + Cardinality(Freeing') = Cardinality(InUse) + Cardinality(Freeing)
    BY <1>4, <2>2
  <2>5. AllCounted'
    BY <1>1, <2>3, <2>4 DEF AllCounted, Counts
  <2> QED
    BY <1>4, <1>5, <2>2, <2>5 DEF Counts
<1> QED
  BY <1>1, <1>6, <1>7

\* Arena 0 takes over what the temporary arena has counted; the others start at 0.
LEMMA CopyTempCounts ==
  ASSUME IInv, Counts, NEW t \in Threads, CopyTemp(t)
  PROVE  Counts'
<1>1. /\ fault = "none" /\ pc[t] = "i_copy"
      /\ pc' = [pc EXCEPT ![t] = IF call[t] = "malloc" THEN "m_lock" ELSE "k_arenas"]
      /\ ArenaList' = node[t]
      /\ count' = [count EXCEPT ![0] = count[Temp]]
      /\ UNCHANGED <<live, fault>>
  BY DEF CopyTemp, AfterInit, TempCounts, Goto, At
<1>2. TypeOK /\ InStep(t) /\ WorksOn(t)
  BY DEF IInv
<1>3. /\ Temp \in Arenas /\ 0 \in Arenas /\ 0 \in Cores /\ Cores \subseteq Arenas
      /\ Temp \notin Cores
  BY ConstantsAssumption DEF Arenas, Cores
<1>4. ArenaList = 0 /\ ArenaList' # 0
  BY <1>1, <1>2 DEF InStep, WorksOn, TypeOK
<1>5. Used = {Temp} /\ Used' = Cores
  BY <1>4 DEF Used
<1>6. /\ \A a \in Arenas : UsedBlk[a] = count[a].used_blk /\ UsedBlk[a] \in Int
      /\ IsFiniteSet(Cores)
  <2>1. IsFiniteSet(Cores)
    <3>1. 0 \in Int /\ CORE_COUNT - 1 \in Int
      BY ConstantsAssumption
    <3> QED
      BY <3>1, FS_Interval DEF Cores
  <2> QED
    BY <1>2, <2>1, UsedFinite
<1>7. PICK e : e = UsedBlk'
  OBVIOUS
<1>8. e[0] = UsedBlk[Temp] /\ \A a \in Cores \ {0} : e[a] = 0
  <2>1. \A a \in Arenas : e[a] = count'[a].used_blk
    BY <1>7 DEF UsedBlk
  <2>2. count'[0] = count[Temp] /\ \A a \in Cores \ {0} : count'[a] = count[a]
    BY <1>1, <1>2, <1>3 DEF TypeOK
  <2> QED
    BY <1>3, <1>4, <1>6, <2>1, <2>2 DEF Counts
<1>9. SumFunctionOnSet(e, Cores) = SumFunctionOnSet(UsedBlk, {Temp})
  <2> DEFINE Rest == Cores \ {0}
  <2>1. IsFiniteSet(Rest)
    BY <1>6, FS_RemoveElement
  <2>2. \A a \in Rest : e[a] = 0
    BY <1>8
  <2>3. SumFunctionOnSet(e, Rest) = 0
    <3> HIDE DEF Rest
    <3> QED
      BY ONLY <2>1, <2>2, SumZero
  <2>4. \A a \in Cores : e[a] \in Int
    BY <1>3, <1>6, <1>8
  <2>5. SumFunctionOnSet(e, Cores) = e[0] + SumFunctionOnSet(e, Rest)
    <3>1. 0 \in Cores /\ IsFiniteSet(Cores)
      BY <1>3, <1>6
    <3> QED
      BY ONLY <2>4, <3>1, SumStep DEF Rest
  <2>6. UsedBlk[Temp] \in Int
    BY <1>3, <1>6
  <2>7. SumFunctionOnSet(UsedBlk, {Temp}) = UsedBlk[Temp]
    BY ONLY <2>6, SumOfOne
  <2> HIDE DEF Rest
  <2>8. SumFunctionOnSet(e, Cores) = e[0] + 0 /\ e[0] \in Int
    BY <1>8, <2>3, <2>5, <2>6
  <2> QED
    BY <1>8, <2>7, <2>8
<1>10. IsFiniteSet(Freeing') /\ Freeing' = Freeing
  <2>1. pc[t] \notin FreePcs /\ pc'[t] \notin FreePcs
        /\ \A u \in Threads \ {t} : pc'[u] = pc[u]
    BY <1>1, <1>2 DEF TypeOK, FreePcs
  <2>2. IsFiniteSet(Freeing)
    BY DEF Counts
  <2> QED
    BY <1>2, <2>1, <2>2, FreeingFacts
<1>11. InUse' = InUse
  BY <1>1 DEF InUse
<1>12. AllCounted'
  <2>1. AllCounted
    BY <1>1 DEF Counts
  <2> QED
    BY <1>5, <1>7, <1>9, <1>10, <1>11, <2>1 DEF AllCounted
<1> QED
  BY <1>4, <1>10, <1>11, <1>12 DEF Counts

\* Every step keeps the counters.
LEMMA NextCounts ==
  ASSUME IInv, Counts, [Next]_vars
  PROVE  Counts'
<1>1. CASE UNCHANGED <<memory, roster, thread, fault>>
  <2>1. TypeOK /\ InUse' = InUse /\ Freeing' = Freeing
    BY <1>1 DEF IInv, InUse, Freeing, memory, thread
  <2> QED
    BY <1>1, <2>1, CountsSame DEF memory, roster
<1>2. CASE UNCHANGED vars \/ ChildRelease
  BY <1>1, <1>2 DEF vars, ChildRelease
<1>3. ASSUME NEW t \in Threads, NEW b \in Held, FreeCall(t, b) PROVE Counts'
  BY <1>3, FreeCallCounts
<1>4. ASSUME NEW t \in Threads, (\E q \in Queries : MallocCall(t, q)) \/ ForkCall(t)
      PROVE  Counts'
  BY <1>4, UncountedSteps
<1>5. ASSUME NEW t \in Threads, Step(t) PROVE Counts'
  BY <1>5, UncountedSteps, TakeCounts, FreeCountCounts, CopyTempCounts DEF Step
<1> QED
  BY <1>2, <1>3, <1>4, <1>5 DEF Next

\* Together the counters of the arenas tell how many blocks are in use, whenever
\* no call is under way: whichever threads free what others have allocated, and
\* when the temporary arena gives way to the array.
THEOREM UsedBlocksAreCounted == Spec => []UsedInAll
<1>1. IInv /\ Counts /\ [Next]_vars => Counts'
  BY NextCounts
<1>2. ASSUME IInv, Counts PROVE UsedInAll
  <2> SUFFICES ASSUME fault = "none", \A t \in Threads : pc[t] = "idle"
               PROVE  SumFunction([a \in Used |-> count[a].used_blk]) = Cardinality(DOMAIN live)
    BY Zenon DEF UsedInAll
  <2> DEFINE f == [a \in Used |-> count[a].used_blk]
  <2>1. Freeing = {}
    BY DEF Freeing, FreePcs
  <2>2. IsFiniteSet({}) /\ Cardinality({}) = 0 /\ Cardinality(InUse) \in Nat
    BY <1>2, FS_EmptySet, FS_CardinalityType DEF Counts
  <2>3. SumFunctionOnSet(UsedBlk, Used) = Cardinality(InUse)
    BY <1>2, <2>1, <2>2 DEF Counts, AllCounted
  <2>4. /\ IsFiniteSet(Used)
        /\ \A a \in Used : UsedBlk[a] = f[a] /\ UsedBlk[a] \in Int
    BY <1>2, UsedFinite DEF IInv
  <2>5. SumFunction(f) = SumFunctionOnSet(f, Used)
    BY DEF SumFunction
  <2> HIDE DEF f
  <2>6. SumFunctionOnSet(f, Used) = SumFunctionOnSet(UsedBlk, Used)
    BY ONLY <2>4, SumSame
  <2> QED
    BY <2>3, <2>5, <2>6 DEF f, InUse
<1> QED
  BY <1>1, <1>2, InitCounts, Invariance, PTL DEF Spec

------------------------------------------------------------------------------
(* Who holds a lock, and who waits for one. *)

\* The places where a thread may have an arena's lock, or the array's.
Holds(t, a) ==
  \/ pc[t] \in InArena /\ Arena[t] = a
  \/ a \in Cores /\ \/ pc[t] = "k_arenas" /\ a < cursor[t]
                    \/ pc[t] \in {"k_list", "k_fork"}
                    \/ pc[t] = "k_release" /\ cursor[t] <= a
HoldsList(t) == pc[t] \in InList \cup {"k_release"} \/ Arena[t] = Temp

Holders ==
  \A t \in Threads : /\ \A a \in Arenas : lock[a] = t => Holds(t, a)
                     /\ arena_list_lock = t => HoldsList(t)

\* A thread that is in a call and finds the next lock taken.
Waits(t) ==
  \/ pc[t] \in {"i_lock", "k_list"} /\ arena_list_lock # NoThread
  \/ pc[t] \in {"m_lock", "f_lock"} /\ lock[Arena[t]] # NoThread
  \/ pc[t] = "k_arenas" /\ lock[cursor[t]] # NoThread

\* If any thread is in a call, one of them does not wait.
SomeoneDoesNotWait ==
  (\E t \in Threads : pc[t] # "idle") => \E t \in Threads : pc[t] # "idle" /\ ~ Waits(t)

\* At first nobody holds a lock.
LEMMA InitHolders == Init => Holders
BY ConstantsAssumption DEF Init, Holders

\* The other threads get no lock in a step of t.
LEMMA HoldersKept ==
  ASSUME Holders, NEW t \in Threads, Alone(t),
         \A u \in Threads \ {t} : /\ \A a \in Arenas : lock'[a] = u => lock[a] = u
                                  /\ arena_list_lock' = u => arena_list_lock = u,
         \A a \in Arenas : lock'[a] = t => Holds(t, a)',
         arena_list_lock' = t => HoldsList(t)'
  PROVE  Holders'
<1>1. ASSUME NEW u \in Threads \ {t}
      PROVE  /\ \A a \in Arenas : Holds(u, a)' <=> Holds(u, a)
             /\ HoldsList(u)' <=> HoldsList(u)
  BY DEF Alone, Holds, HoldsList
<1> QED
  BY <1>1 DEF Holders

\* The steps that take or give up a lock of the array, or none.
LEMMA ListStepsHolders ==
  ASSUME IInv, Holders, NEW t \in Threads,
         \/ ForkCall(t) \/ \E q \in Queries : MallocCall(t, q)
         \/ \E b \in Held : FreeCall(t, b)
         \/ InitLock(t) \/ UseTempArena(t) \/ AssignArena(t)
         \/ FirstFit(t) \/ RequestMemory(t) \/ AddMemory(t)
         \/ Split(t) \/ ForkLockList(t) \/ Fork(t) \/ ForkReleaseList(t)
  PROVE  Holders'
<1>1. /\ TypeOK /\ InStep(t) /\ Locked(t) /\ fault = "none"
      /\ \A a \in Arenas : lock[a] = t => Holds(t, a)
      /\ arena_list_lock = t => HoldsList(t)
      /\ pc = [u \in Threads |-> pc[u]]
  BY DEF IInv, Holders, TypeOK, ForkCall, MallocCall, FreeCall, InitLock, UseTempArena,
         AssignArena, FirstFit, RequestMemory, AddMemory, Split, ForkLockList, Fork,
         ForkReleaseList, At
<1>2. CASE ForkCall(t) \/ (\E q \in Queries : MallocCall(t, q)) \/ \E b \in Held : FreeCall(t, b)
  <2>1. /\ Alone(t) /\ UNCHANGED <<lock, arena_list_lock>>
        /\ pc[t] = "idle" /\ Arena'[t] = Arena[t]
    BY <1>1, <1>2 DEF ForkCall, MallocCall, FreeCall, At, Goto, locks, roster, TypeOK, Alone
  <2>2. arena_list_lock # t /\ \A a \in Arenas : lock[a] # t
    BY <1>1, <2>1 DEF Holds, HoldsList, InArena, InList, InStep
  <2> QED
    BY <2>1, <2>2, HoldersKept
<1>3. CASE InitLock(t) \/ ForkLockList(t)
  <2>1. /\ pc[t] \in {"i_lock", "k_list"}
        /\ pc' = [pc EXCEPT ![t] = IF pc[t] = "i_lock" THEN "i_list" ELSE "k_fork"]
        /\ arena_list_lock' = t
        /\ UNCHANGED <<lock, Arena, call, query, node, cursor>>
    BY <1>3 DEF InitLock, ForkLockList, LockForInit, LockList, At, Goto, roster
  <2>2. Alone(t) /\ pc'[t] = IF pc[t] = "i_lock" THEN "i_list" ELSE "k_fork"
    BY <1>1, <2>1 DEF Alone
  <2>3. \A a \in Arenas : lock'[a] = t => Holds(t, a)'
    BY <1>1, <2>1, <2>2 DEF Holds, InArena
  <2>4. HoldsList(t)'
    BY <2>1, <2>2 DEF HoldsList, InList
  <2> QED
    BY <2>1, <2>2, <2>3, <2>4, HoldersKept
<1>4. CASE UseTempArena(t)
  <2>1. /\ pc[t] = "i_list" /\ pc' = [pc EXCEPT ![t] = "m_lock"]
        /\ Arena' = [Arena EXCEPT ![t] = Temp]
        /\ UNCHANGED <<lock, arena_list_lock, call, query, node, cursor>>
    BY <1>4 DEF UseTempArena, At, Goto, locks
  <2>2. Alone(t) /\ Arena'[t] = Temp
    BY <1>1, <2>1 DEF Alone, TypeOK
  <2>3. \A a \in Arenas : lock[a] # t
    BY <1>1, <2>1 DEF Holds, InArena
  <2> QED
    BY <2>1, <2>2, <2>3, HoldersKept DEF HoldsList
<1>5. CASE AssignArena(t) \/ ForkReleaseList(t)
  <2>1. /\ pc[t] \in {"i_list", "k_release"} /\ (pc[t] = "k_release" => cursor[t] = CORE_COUNT)
        /\ arena_list_lock' = Unlocked(arena_list_lock, t) /\ UNCHANGED lock
        /\ Alone(t)
    BY <1>1, <1>5 DEF AssignArena, ForkReleaseList, AfterInit, Return, At, Goto, memory, roster,
                      Alone, TypeOK
  <2>2. \A a \in Arenas : lock[a] # t
    <3>1. \A a \in Cores : ~ (CORE_COUNT <= a)
      BY ConstantsAssumption DEF Cores
    <3> QED
      BY <1>1, <2>1, <3>1 DEF Holds, InArena
  <2>3. /\ arena_list_lock' # t
        /\ \A u \in Threads : arena_list_lock' = u => arena_list_lock = u
    BY <2>1, ConstantsAssumption DEF Unlocked
  <2> QED
    BY <2>1, <2>2, <2>3, HoldersKept
<1>6. CASE FirstFit(t) \/ RequestMemory(t) \/ AddMemory(t) \/ Split(t)
  <2>1. /\ pc[t] \in {"m_search", "m_total", "m_fit"}
        /\ pc'[t] \in {"m_total", "m_fit"}
        /\ Alone(t) /\ UNCHANGED <<lock, arena_list_lock, Arena>>
    BY <1>1, <1>6 DEF FirstFit, RequestMemory, AddMemory, Split, At, Goto, locks, roster,
                      Alone, TypeOK
  <2>2. /\ \A a \in Arenas : lock[a] = t => Arena[t] = a
        /\ arena_list_lock = t => Arena[t] = Temp
    BY <1>1, <2>1 DEF Holds, HoldsList, InList
  <2>3. /\ \A a \in Arenas : lock'[a] = t => Holds(t, a)'
        /\ arena_list_lock' = t => HoldsList(t)'
    BY <2>1, <2>2 DEF Holds, HoldsList, InArena
  <2> QED
    BY <2>1, <2>3, HoldersKept
<1>7. CASE Fork(t)
  <2>1. /\ pc[t] = "k_fork" /\ pc' = [pc EXCEPT ![t] = "k_release"]
        /\ UNCHANGED <<lock, arena_list_lock, Arena, call, query, node, cursor>>
    BY <1>7 DEF Fork, At, Goto, locks, roster
  <2>2. Alone(t) /\ pc'[t] = "k_release" /\ cursor'[t] = 0
    BY <1>1, <2>1 DEF Alone, InStep
  <2>3. \A a \in Arenas : lock'[a] = t => Holds(t, a)'
    BY <1>1, <2>1, <2>2 DEF Holds, InArena, Cores
  <2> QED
    BY <2>1, <2>2, <2>3, HoldersKept DEF HoldsList
<1> QED
  BY <1>2, <1>3, <1>4, <1>5, <1>6, <1>7

\* A call takes the lock of its arena, or gives it up.
LEMMA ArenaStepsHolders ==
  ASSUME IInv, Holders, NEW t \in Threads,
         MallocLock(t) \/ FreeLock(t) \/ OutOfMemory(t) \/ Take(t) \/ FreeCount(t)
  PROVE  Holders'
<1>1. /\ TypeOK /\ InStep(t) /\ Locked(t)
      /\ \A a \in Arenas : lock[a] = t => Holds(t, a)
      /\ arena_list_lock = t => HoldsList(t)
      /\ lock = [a \in Arenas |-> lock[a]] /\ pc = [u \in Threads |-> pc[u]]
  BY DEF IInv, Holders, TypeOK
<1>2. CASE MallocLock(t) \/ FreeLock(t)
  <2>1. /\ pc[t] \in {"m_lock", "f_lock"} /\ pc'[t] \in {"m_search", "f_count"}
        /\ lock[Arena[t]] = NoThread /\ lock' = [lock EXCEPT ![Arena[t]] = t]
        /\ Alone(t) /\ UNCHANGED <<arena_list_lock, Arena>>
    BY <1>1, <1>2 DEF MallocLock, FreeLock, LockArena, At, Goto, roster, Alone, TypeOK
  <2>2. \A a \in Arenas : lock[a] # t
    BY <1>1, <2>1 DEF Holds, InArena
  <2>3. \A a \in Arenas : lock'[a] = IF a = Arena[t] THEN t ELSE lock[a]
    BY <1>1, <2>1
  <2>4. /\ \A a \in Arenas : lock'[a] = t => Holds(t, a)'
        /\ arena_list_lock' = t => HoldsList(t)'
    BY <1>1, <2>1, <2>2, <2>3 DEF Holds, HoldsList, InArena, InList
  <2>5. \A u \in Threads \ {t}, a \in Arenas : lock'[a] = u => lock[a] = u
    BY <2>3
  <2> QED
    BY <2>1, <2>4, <2>5, HoldersKept
<1>3. CASE OutOfMemory(t) \/ Take(t) \/ FreeCount(t)
  <2>1. /\ pc[t] \in {"m_search", "m_fit", "f_count"}
        /\ pc'[t] = IF Arena[t] = Temp THEN "i_copy" ELSE "idle"
        /\ lock' = [lock EXCEPT ![Arena[t]] = Unlocked(@, t)]
        /\ Alone(t) /\ UNCHANGED <<arena_list_lock, Arena>>
    <3>1. CASE OutOfMemory(t)
      BY <1>1, <3>1 DEF OutOfMemory, Return, At, Goto, roster, Alone, TypeOK
    <3>2. CASE Take(t)
      BY <1>1, <3>2 DEF Take, Return, At, Goto, roster, Alone, TypeOK
    <3>3. CASE FreeCount(t)
      <4>1. Arena[t] # Temp
        BY <1>1, <3>3, ConstantsAssumption DEF FreeCount, At, InStep, FreePcs
      <4> QED
        BY <1>1, <3>3, <4>1 DEF FreeCount, Return, At, Goto, roster, Alone, TypeOK
    <3> QED
      BY <1>3, <3>1, <3>2, <3>3
  <2>2. \A a \in Arenas : lock[a] = t => a = Arena[t]
    BY <1>1, <2>1 DEF Holds
  <2>3. \A a \in Arenas : lock'[a] = IF a = Arena[t] THEN Unlocked(lock[a], t) ELSE lock[a]
    BY <1>1, <2>1
  <2>4. \A a \in Arenas : /\ lock'[a] # t
                          /\ \A u \in Threads : lock'[a] = u => lock[a] = u
    BY <2>2, <2>3, ConstantsAssumption DEF Unlocked
  <2>5. arena_list_lock' = t => HoldsList(t)'
    BY <1>1, <2>1 DEF HoldsList, InList
  <2> QED
    BY <2>1, <2>4, <2>5, HoldersKept
<1> QED
  BY <1>2, <1>3

\* fork takes the locks of the arenas one after the other, and gives them up so.
LEMMA ForkStepsHolders ==
  ASSUME IInv, Holders, NEW t \in Threads, ForkLockArena(t) \/ ForkReleaseArena(t)
  PROVE  Holders'
<1>1. /\ TypeOK /\ InStep(t) /\ Locked(t)
      /\ \A a \in Arenas : lock[a] = t => Holds(t, a)
      /\ arena_list_lock = t => HoldsList(t)
      /\ lock = [a \in Arenas |-> lock[a]] /\ cursor[t] \in 0 .. CORE_COUNT
      /\ CORE_COUNT \in Nat \ {0}
  BY ConstantsAssumption DEF IInv, Holders, TypeOK
<1>2. CASE ForkLockArena(t)
  <2>1. /\ pc[t] = "k_arenas" /\ cursor[t] \in Cores
        /\ lock' = [lock EXCEPT ![cursor[t]] = t]
        /\ \/ cursor[t] = CORE_COUNT - 1 /\ pc'[t] = "k_list"
           \/ cursor'[t] = cursor[t] + 1 /\ pc'[t] = "k_arenas"
        /\ Alone(t) /\ UNCHANGED <<arena_list_lock, Arena>>
    BY <1>1, <1>2 DEF ForkLockArena, LockNext, LockArena, ArenaToLock, At, Goto, roster, Alone,
                      TypeOK, Locked
  <2>2. \A a \in Arenas : lock'[a] = IF a = cursor[t] THEN t ELSE lock[a]
    BY <1>1, <2>1
  <2>3. ASSUME NEW a \in Arenas, lock'[a] = t PROVE Holds(t, a)'
    <3>1. a \in Cores /\ a <= cursor[t]
      <4>1. CASE a = cursor[t]
        BY <2>1, <4>1 DEF Cores
      <4>2. CASE a # cursor[t]
        <5>1. a \in Cores /\ a < cursor[t]
          BY <1>1, <2>1, <2>2, <2>3, <4>2 DEF Holds, InArena
        <5> QED
          BY <2>1, <5>1 DEF Cores
      <4> QED
        BY <4>1, <4>2
    <3>2. cursor'[t] = cursor[t] + 1 => a < cursor'[t]
      BY <2>1, <3>1 DEF Cores
    <3> QED
      BY <2>1, <3>1, <3>2 DEF Holds
  <2>4. arena_list_lock' = t => HoldsList(t)'
    BY <1>1, <2>1 DEF HoldsList, InList
  <2> QED
    BY <2>1, <2>2, <2>3, <2>4, HoldersKept
<1>3. CASE ForkReleaseArena(t)
  <2>1. /\ pc[t] = "k_release" /\ pc'[t] = "k_release" /\ cursor[t] \in Cores
        /\ lock' = [lock EXCEPT ![cursor[t]] = Unlocked(@, t)]
        /\ cursor'[t] = cursor[t] + 1
        /\ Alone(t) /\ UNCHANGED <<arena_list_lock, Arena>>
    <3>1. cursor[t] \in Cores
      BY <1>1, <1>3 DEF ForkReleaseArena, Cores
    <3> QED
      BY <1>1, <1>3, <3>1 DEF ForkReleaseArena, At, roster, Alone, TypeOK
  <2>2. \A a \in Arenas : lock'[a] = IF a = cursor[t] THEN Unlocked(lock[a], t) ELSE lock[a]
    BY <1>1, <2>1
  <2>3. \A a \in Arenas : /\ lock'[a] = t => a # cursor[t]
                          /\ \A u \in Threads : lock'[a] = u => lock[a] = u
    BY <2>2, ConstantsAssumption DEF Unlocked
  <2>4. ASSUME NEW a \in Arenas, lock'[a] = t PROVE Holds(t, a)'
    <3>1. a \in Cores /\ cursor[t] <= a /\ a # cursor[t]
      BY <1>1, <2>1, <2>3, <2>4 DEF Holds, InArena
    <3>2. cursor[t] + 1 <= a
      BY <2>1, <3>1 DEF Cores
    <3> QED
      BY <2>1, <3>1, <3>2 DEF Holds
  <2>5. arena_list_lock' = t => HoldsList(t)'
    BY <2>1 DEF HoldsList
  <2> QED
    BY <2>1, <2>3, <2>4, <2>5, HoldersKept
<1> QED
  BY <1>2, <1>3

\* Nobody holds the lock of the temporary arena but its user, while it works there.
LEMMA TempLockFree ==
  ASSUME IInv, Holders, NEW t \in Threads, Arena[t] = Temp, pc[t] \notin InArena
  PROVE  lock[Temp] = NoThread
<1>1. TypeOK /\ Temp \in Arenas /\ Temp \notin Cores
  BY ConstantsAssumption DEF IInv, Arenas
<1> SUFFICES ASSUME NEW u \in Threads, lock[Temp] = u PROVE FALSE
  BY <1>1 DEF TypeOK
<1>2. pc[u] \in InArena /\ Arena[u] = Temp
  BY <1>1 DEF Holders, Holds
<1>3. arena_list_lock = u /\ arena_list_lock = t
  BY <1>2 DEF IInv, InStep
<1> QED
  BY <1>2, <1>3

\* Arena 0 takes over the temporary arena's lock, which is free by then.
LEMMA CopyTempHolders ==
  ASSUME IInv, Holders, NEW t \in Threads, CopyTemp(t)
  PROVE  Holders'
<1>1. /\ pc[t] = "i_copy" /\ lock' = [lock EXCEPT ![0] = lock[Temp]]
      /\ arena_list_lock' = Unlocked(arena_list_lock, t)
  BY DEF CopyTemp, At
<1>2. TypeOK /\ InStep(t) /\ NoThread \notin Threads /\ 0 \in Arenas
  BY ConstantsAssumption DEF IInv, Arenas, Cores
<1>3. Alone(t)
  BY <1>2 DEF CopyTemp, AfterInit, Goto, TypeOK, Alone
<1>4. lock[Temp] = NoThread
  BY <1>1, <1>2, TempLockFree DEF InStep, InArena
<1>5. \A a \in Arenas : lock[a] # t
  BY <1>1 DEF Holders, Holds, InArena
<1>6. \A a \in Arenas : /\ lock'[a] # t
                        /\ \A u \in Threads : lock'[a] = u => lock[a] = u
  BY <1>1, <1>2, <1>4, <1>5 DEF TypeOK
<1>7. /\ arena_list_lock' # t
      /\ \A u \in Threads : arena_list_lock' = u => arena_list_lock = u
  BY <1>1, <1>2 DEF Unlocked
<1> QED
  BY <1>3, <1>6, <1>7, HoldersKept

\* Every step leaves the locks with threads at those places.
LEMMA NextHolders ==
  ASSUME IInv, Holders, [Next]_vars
  PROVE  Holders'
<1>1. CASE UNCHANGED vars \/ ChildRelease
  BY <1>1 DEF vars, ChildRelease, locks, roster, thread, Holders, Holds, HoldsList
<1>2. ASSUME NEW t \in Threads,
             \/ ForkCall(t) \/ (\E q \in Queries : MallocCall(t, q))
             \/ \E b \in Held : FreeCall(t, b)
             \/ Step(t)
      PROVE  Holders'
  BY <1>2, ListStepsHolders, ArenaStepsHolders, ForkStepsHolders, CopyTempHolders DEF Step
<1> QED
  BY <1>1, <1>2 DEF Next

\* The locks are taken in one order: the arenas of the array by their number,
\* then the array's; the temporary arena's is taken under the array's, but by
\* then nobody else can want it.  Who holds the last lock in this order that
\* anybody holds can go on.
LEMMA LastHolderMoves ==
  ASSUME IInv, Holders
  PROVE  SomeoneDoesNotWait
<1> SUFFICES ASSUME NEW t \in Threads, pc[t] # "idle",
                    \A u \in Threads : pc[u] # "idle" => Waits(u)
             PROVE  FALSE
  BY DEF SomeoneDoesNotWait
<1>1. TypeOK /\ NoThread \notin Threads
  BY ConstantsAssumption DEF IInv
<1>2. ASSUME NEW u \in Threads, Arena[u] = Temp PROVE pc[u] = "idle" \/ ~ Waits(u)
  <2>1. InStep(u) /\ Temp \notin Cores
    BY ConstantsAssumption DEF IInv
  <2>2. pc[u] \notin ForkPcs \cup FreePcs \cup {"i_lock", "i_list"}
    BY <1>2, <2>1, ConstantsAssumption DEF InStep, Arenas
  <2>3. pc[u] = "m_lock" => lock[Arena[u]] = NoThread
    BY <1>2, TempLockFree DEF InArena
  <2> QED
    BY <2>2, <2>3 DEF Waits, ForkPcs, FreePcs
<1>3. arena_list_lock = NoThread
  <2> SUFFICES ASSUME NEW u \in Threads, arena_list_lock = u PROVE FALSE
    BY <1>1 DEF TypeOK
  <2>1. HoldsList(u)
    BY DEF Holders
  <2>2. pc[u] # "idle"
    BY <2>1 DEF HoldsList, InList, IInv, InStep
  <2> QED
    BY <1>2, <2>1, <2>2 DEF HoldsList, InList, Waits
<1>4. ASSUME NEW u \in Threads, pc[u] # "idle"
      PROVE  \E a \in Cores : /\ lock[a] \in Threads
                              /\ pc[u] = "k_arenas" => cursor[u] = a
  <2>0. Waits(u)
    BY <1>4
  <2>1. InStep(u) /\ Locked(u) /\ Arena[u] \in Arenas \cup {NoArena} /\ Cores \subseteq Arenas
    BY <1>1 DEF IInv, TypeOK, Arenas
  <2>2. CASE pc[u] = "k_arenas"
    <3>1. cursor[u] \in Cores /\ lock[cursor[u]] # NoThread
      BY <2>0, <2>1, <2>2 DEF Locked, Waits
    <3> QED
      BY <1>1, <2>1, <3>1 DEF TypeOK
  <2>3. CASE pc[u] # "k_arenas"
    <3>1. pc[u] \in {"m_lock", "f_lock"} /\ lock[Arena[u]] # NoThread
      BY <1>3, <2>0, <2>3 DEF Waits
    <3>2. Arena[u] # Temp
      BY <1>2, <1>4
    <3>3. Arena[u] \in Cores
      BY <2>1, <3>1, <3>2 DEF InStep, MallocPcs, FreePcs, ForkPcs, Arenas
    <3> QED
      BY <1>1, <2>1, <2>3, <3>1, <3>3 DEF TypeOK
  <2> QED
    BY <2>2, <2>3
<1>5. ASSUME NEW a \in Cores, lock[a] \in Threads
      PROVE  pc[lock[a]] = "k_arenas" /\ a < cursor[lock[a]]
  <2>1. Holds(lock[a], a)
    BY <1>5 DEF Holders, Arenas
  <2>2. pc[lock[a]] # "idle"
    BY <2>1 DEF Holds, InArena
  <2>3. Waits(lock[a])
    BY <1>5, <2>2
  <2> QED
    BY <1>3, <2>1, <2>3 DEF Waits, Holds, InArena
<1> DEFINE Taken == {a \in Cores : lock[a] \in Threads}
<1>6. PICK a \in Taken : \A b \in Taken : a >= b
  <2>1. Taken # {}
    BY <1>4
  <2>2. Taken \in SUBSET Nat /\ CORE_COUNT \in Nat /\ \A b \in Taken : b <= CORE_COUNT
    BY ConstantsAssumption DEF Cores
  <2> HIDE DEF Taken
  <2> QED
    BY <2>1, <2>2, GreatestNumber
<1>7. PICK b \in Taken : b = cursor[lock[a]]
  <2>1. lock[a] \in Threads /\ pc[lock[a]] = "k_arenas"
    BY <1>5, <1>6
  <2> QED
    BY <1>4, <2>1
<1>8. a < b /\ a >= b /\ a \in Nat /\ b \in Nat
  BY <1>5, <1>6, <1>7, ConstantsAssumption DEF Cores
<1> QED
  BY <1>8

\* No circle of waiting: as long as a thread is in a call, there is one in a call
\* that does not find the lock taken that it needs next, whatever the number of
\* threads and arenas, however forks, first calls, malloc and free meet.
THEOREM LocksNeverCircle == Spec => []SomeoneDoesNotWait
<1>1. IInv /\ Holders /\ [Next]_vars => Holders'
  BY NextHolders
<1>2. IInv /\ Holders => SomeoneDoesNotWait
  BY LastHolderMoves
<1> QED
  BY <1>1, <1>2, InitHolders, Invariance, PTL DEF Spec
==============================================================================
