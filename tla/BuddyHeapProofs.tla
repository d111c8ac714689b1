--------------------------- MODULE BuddyHeapProofs ---------------------------
(***************************************************************************)
(* BuddyHeap for any number of threads, any ladder of block sizes, any     *)
(* requests and any limit of the heap: no two blocks ever share a byte,    *)
(* the blocks the program holds are off the free list and large enough,    *)
(* and only the owner of malloc_lock works on the heap.                    *)
(*                                                                         *)
(* None of these is inductive alone.  Splitting and merging keep blocks    *)
(* apart only because the block they work on is the one this call found,   *)
(* with the size it found, and nobody else is changing it: CallsInOrder    *)
(* says what each call knows at each point, MutualExclusion that no other  *)
(* call takes it away.                                                     *)
(*                                                                         *)
(* The second half is about the pages: no block is lost, no byte of a page *)
(* that has been split belongs to no block, and between calls no two       *)
(* halves of one block lie on the list side by side.  The last two rest on *)
(* where the blocks lie: a block of n bytes, a page at most, at a multiple *)
(* of n (Aligned).  A split cuts such a block into two such blocks, and    *)
(* the buddy that find_buddy computes from the offset in the page is the   *)
(* other half of the block both were cut from.                             *)
(*                                                                         *)
(* The last section bounds the steps between a lock and its unlock.        *)
(***************************************************************************)
EXTENDS BuddyHeap, NumberLemmas

\* What a call knows about the block it works on at each point of its way.
CallsInOrder ==
  /\ brk # 0
  /\ \A t \in Threads :
       /\ pc[t] \in {"m_lock", "m_search", "m_sbrk", "m_fit"} => query[t] \in Queries
       /\ pc[t] = "m_fit" =>
            /\ node[t] \in free
            /\ size[node[t]] >= Needed(t)
       /\ pc[t] \in {"f_lock", "f_insert"} => node[t] \in DOMAIN size
       /\ pc[t] = "f_buddy" => node[t] \in free
       /\ pc[t] \in {"idle", "m_lock", "m_search", "m_sbrk", "f_unlock"} => node[t] = 0

IInv == /\ TypeOK
        /\ BlocksApart
        /\ HeldBlocksOffList
        /\ MutualExclusion
        /\ CallsInOrder

------------------------------------------------------------------------------
(* The helpers. *)

\* round_up answers every request of the program with a block size that holds
\* the bytes asked for and the header.
LEMMA RoundUpHolds ==
  ASSUME NEW q \in Queries
  PROVE  /\ RoundUp(q + OVERHEAD) \in Sizes
         /\ RoundUp(q + OVERHEAD) >= q + OVERHEAD
<1>1. PICK s \in Sizes : IsRoundedUp(q + OVERHEAD, s)
  BY ConstantsAssumption
<1>2. /\ RoundUp(q + OVERHEAD) \in Sizes
      /\ IsRoundedUp(q + OVERHEAD, RoundUp(q + OVERHEAD))
  BY <1>1, Zenon DEF RoundUp
<1> QED
  BY <1>2 DEF IsRoundedUp

\* round_to_page of a block size is a block size, no smaller and at least a page.
LEMMA RoundToPageHolds ==
  ASSUME NEW n \in Sizes
  PROVE  /\ RoundToPage(n) \in Sizes
         /\ RoundToPage(n) >= n /\ RoundToPage(n) >= PAGE_SIZE
<1>1. n \in Nat /\ PAGE_SIZE \in Nat
  BY SizesAssumption
<1>2. IsRoundedUp(n, n)
  BY <1>1 DEF IsRoundedUp
<1>3. RoundUp(n) \in Sizes /\ IsRoundedUp(n, RoundUp(n))
  BY <1>2, Zenon DEF RoundUp
<1>4. RoundUp(n) >= n /\ RoundUp(n) \in Nat
  BY <1>3, SizesAssumption DEF IsRoundedUp
<1>5. CASE n <= PAGE_SIZE
  BY <1>1, <1>5, SizesAssumption DEF RoundToPage
<1>6. CASE n > PAGE_SIZE
  BY <1>1, <1>3, <1>4, <1>6 DEF RoundToPage
<1> QED
  BY <1>1, <1>5, <1>6

\* A call past its lock knows the block size it is looking for.
LEMMA NeededIsASize ==
  ASSUME NEW t \in Threads, query[t] \in Queries
  PROVE  /\ Needed(t) \in Sizes
         /\ Needed(t) >= query[t] + OVERHEAD
BY RoundUpHolds DEF Needed

\* The block that extend_heap carves out lies between the old break and the new.
LEMMA NewBlockInNewMemory ==
  ASSUME brk \in Nat, white_space \in Nat, NEW t \in Threads, query[t] \in Queries
  PROVE  /\ NewBlock \in Nat /\ NewBlock >= brk
         /\ NewBrk(t) \in Nat /\ NewBrk(t) >= brk
         /\ RoundToPage(Needed(t)) \in Sizes
         /\ RoundToPage(Needed(t)) >= Needed(t)
         /\ NewBlock + RoundToPage(Needed(t)) <= NewBrk(t)
<1>1. PAGE_SIZE \in Nat \ {0} /\ OVERHEAD \in Nat \ {0}
  BY SizesAssumption, ConstantsAssumption
<1>2. /\ (white_space \div OVERHEAD) * OVERHEAD \in Nat
      /\ (white_space \div OVERHEAD) * OVERHEAD <= white_space
  BY <1>1
<1>3. /\ RoundToPage(Needed(t)) \in Sizes
      /\ RoundToPage(Needed(t)) >= Needed(t)
  BY NeededIsASize, RoundToPageHolds
<1>4. RoundToPage(Needed(t)) \in Nat
  BY <1>3, SizesAssumption
<1> QED
  BY <1>2, <1>3, <1>4 DEF NewBlock, NewBrk

\* A block that is too large for the request has two halves that are not.
LEMMA HalfStillFits ==
  ASSUME NEW s \in Sizes, NEW n \in Sizes, s > n
  PROVE  /\ s \div 2 \in Sizes /\ s \div 2 >= n
         /\ s \div 2 \in Nat \ {0} /\ s = s \div 2 + s \div 2
<1>1. /\ s % 2 = 0 /\ s \div 2 \in Sizes /\ s \div 2 >= n
      /\ s \in Nat \ {0} /\ s \div 2 \in Nat \ {0}
  BY SizesAssumption
<1> QED
  BY <1>1

\* The buddy is the block of the same size right before or right behind.
LEMMA BuddyIsNext ==
  ASSUME NEW b, Mergeable(b)
  PROVE  /\ BuddyOf(b) \in free /\ size[BuddyOf(b)] = size[b]
         /\ size[b] < PAGE_SIZE
         /\ BuddyOf(b) = b - size[b] \/ BuddyOf(b) = b + size[b]
BY DEF Mergeable, BuddyOf

------------------------------------------------------------------------------
(* The invariant holds at first, and every action keeps it. *)

\* Before the first call there is no block and no fault.
LEMMA InitIInv == Init => IInv
BY SizesAssumption, ConstantsAssumption
   DEF Init, IInv, TypeOK, BlocksApart, HeldBlocksOffList, MutualExclusion,
       CallsInOrder, Critical, InTransit

\* Steps that leave the heap alone: they only move a call on.
LEMMA CallStepsIInv ==
  ASSUME IInv, NEW t \in Threads,
         \/ \E q \in Queries : MallocCall(t, q)
         \/ MallocLock(t) \/ ReadBreak(t) \/ OutOfMemory(t) \/ FreeLock(t)
         \/ FindBuddyReturn(t) \/ InsertIntoEmptyList(t) \/ NoBuddy(t)
  PROVE  IInv'
<1> USE DEF At, Go, Lock, Unlock, heap
<1>1. UNCHANGED heap
  BY DEF MallocCall, MallocLock, ReadBreak, OutOfMemory, FreeLock,
         FindBuddyReturn, InsertIntoEmptyList, NoBuddy
<1>2. BlocksApart' /\ brk' # 0
  BY <1>1 DEF IInv, BlocksApart, CallsInOrder
<1>3. CASE \E q \in Queries : MallocCall(t, q)
  BY <1>1, <1>2, <1>3, ConstantsAssumption
     DEF MallocCall, IInv, TypeOK, HeldBlocksOffList, MutualExclusion,
         CallsInOrder, Critical, InTransit, Needed
<1>4. CASE MallocLock(t)
  BY <1>1, <1>2, <1>4, ConstantsAssumption
     DEF MallocLock, IInv, TypeOK, HeldBlocksOffList, MutualExclusion,
         CallsInOrder, Critical, InTransit, Needed
<1>5. CASE OutOfMemory(t)
  BY <1>1, <1>2, <1>5, ConstantsAssumption
     DEF OutOfMemory, IInv, TypeOK, HeldBlocksOffList, MutualExclusion,
         CallsInOrder, Critical, InTransit, Needed
<1>6. CASE FreeLock(t)
  BY <1>1, <1>2, <1>6, ConstantsAssumption
     DEF FreeLock, IInv, TypeOK, HeldBlocksOffList, MutualExclusion,
         CallsInOrder, Critical, InTransit, Needed
<1>7. CASE FindBuddyReturn(t)
  BY <1>1, <1>2, <1>7, ConstantsAssumption
     DEF FindBuddyReturn, IInv, TypeOK, HeldBlocksOffList, MutualExclusion,
         CallsInOrder, Critical, InTransit, Needed
<1>8. CASE InsertIntoEmptyList(t)
  BY <1>1, <1>2, <1>8
     DEF InsertIntoEmptyList, IInv, TypeOK, HeldBlocksOffList, MutualExclusion,
         CallsInOrder, Critical, InTransit, Needed
<1>9. CASE NoBuddy(t)
  BY <1>1, <1>2, <1>9
     DEF NoBuddy, IInv, TypeOK, HeldBlocksOffList, MutualExclusion,
         CallsInOrder, Critical, InTransit, Needed
<1>10. CASE ReadBreak(t)
  <2>1. brk % PAGE_SIZE \in Nat
    BY SizesAssumption DEF IInv, TypeOK
  <2> QED
    BY <1>1, <1>2, <1>10, <2>1
       DEF ReadBreak, IInv, TypeOK, HeldBlocksOffList, MutualExclusion,
           CallsInOrder, Critical, InTransit, Needed
<1> QED
  BY <1>3, <1>4, <1>5, <1>6, <1>7, <1>8, <1>9, <1>10

\* The block that the search finds is free and large enough.
LEMMA FirstFitIInv ==
  ASSUME IInv, NEW t \in Threads, FirstFit(t)
  PROVE  IInv'
<1> USE DEF At, Go, heap
<1>1. PICK b \in free : size[b] >= Needed(t) /\ node' = [node EXCEPT ![t] = b]
  BY DEF FirstFit, Fitting
<1> QED
  BY <1>1 DEF FirstFit, IInv, TypeOK, BlocksApart, HeldBlocksOffList,
         MutualExclusion, CallsInOrder, Critical, InTransit, Needed

\* While a call is past its lock, every other call is before it or behind it.
LEMMA OthersOutside ==
  ASSUME IInv, NEW t \in Threads, pc[t] \in Critical,
         NEW u \in Threads \ {t}
  PROVE  pc[u] \in {"idle", "m_lock", "f_lock", "f_unlock"}
BY DEF IInv, TypeOK, MutualExclusion, Critical

\* New pages become one block behind the others.
LEMMA ExtendHeapIInv ==
  ASSUME IInv, NEW t \in Threads, ExtendHeap(t)
  PROVE  IInv'
<1> DEFINE n == RoundToPage(Needed(t))
<1>1. /\ pc[t] = "m_sbrk" /\ query[t] \in Queries
      /\ brk \in Nat /\ white_space \in Nat
  BY DEF ExtendHeap, At, IInv, CallsInOrder, TypeOK
<1>2. /\ NewBlock \in Nat /\ NewBlock >= brk
      /\ NewBrk(t) \in Nat /\ NewBrk(t) >= brk
      /\ n \in Sizes /\ n >= Needed(t) /\ NewBlock + n <= NewBrk(t)
  BY <1>1, NewBlockInNewMemory
<1>3. n \in Nat \ {0} /\ Sizes \subseteq Nat \ {0}
  BY <1>2, SizesAssumption
<1>4. NewBlock \notin DOMAIN size /\ NewBlock # 0
  BY <1>1, <1>2, <1>3 DEF IInv, TypeOK, BlocksApart, CallsInOrder
<1>5. /\ DOMAIN size' = DOMAIN size \cup {NewBlock}
      /\ size'[NewBlock] = n
      /\ \A b \in DOMAIN size : size'[b] = size[b]
      /\ size' \in [DOMAIN size' -> Sizes]
  BY <1>2, <1>4 DEF ExtendHeap, IInv, TypeOK
<1>6. /\ brk' = NewBrk(t) /\ heap_end' \in Nat /\ white_space' = 0
      /\ UNCHANGED <<live, malloc_lock, query, frames>>
  BY <1>2, <1>3 DEF ExtendHeap
<1>7. \/ /\ NewBlock % PAGE_SIZE = 0
         /\ free' = free \cup {NewBlock}
         /\ Start' \in Nat
         /\ node' = [node EXCEPT ![t] = NewBlock]
         /\ pc' = [pc EXCEPT ![t] = "m_fit"]
         /\ fault' = fault
      \/ fault' = "assert" /\ UNCHANGED <<free, Start, node, pc>>
  BY <1>2 DEF ExtendHeap, LinkNewBlock, Connect, IInv, TypeOK
<1>8. TypeOK'
  BY <1>2, <1>4, <1>5, <1>6, <1>7 DEF IInv, TypeOK
<1>9. BlocksApart'
  BY <1>1, <1>2, <1>3, <1>4, <1>5, <1>6 DEF IInv, TypeOK, BlocksApart
<1>10. HeldBlocksOffList'
  BY <1>1, <1>4, <1>5, <1>6, <1>7
     DEF IInv, TypeOK, HeldBlocksOffList, InTransit
<1>11. MutualExclusion'
  BY <1>1, <1>6, <1>7 DEF IInv, TypeOK, MutualExclusion, Critical
<1>12. CallsInOrder'
  <2>1. \A u \in Threads \ {t} : pc[u] \in {"idle", "m_lock", "f_lock", "f_unlock"}
    BY <1>1, OthersOutside DEF Critical
  <2>2. Needed(t)' = Needed(t)
    BY <1>6 DEF Needed
  <2>3. brk' # 0
    BY <1>1, <1>2, <1>6 DEF IInv, CallsInOrder
  <2> QED
    BY <1>1, <1>2, <1>5, <1>6, <1>7, <2>1, <2>2, <2>3
       DEF IInv, TypeOK, CallsInOrder
<1> QED
  BY <1>8, <1>9, <1>10, <1>11, <1>12 DEF IInv

\* A block that is split gives two buddies.
LEMMA SplitIInv ==
  ASSUME IInv, NEW t \in Threads, Split(t)
  PROVE  IInv'
<1> DEFINE left == node[t]
           half == size[left] \div 2
           right == left + half
<1>1. /\ pc[t] = "m_fit" /\ left \in free /\ left \in DOMAIN size
      /\ query[t] \in Queries /\ Needed(t) \in Sizes
      /\ size[left] \in Sizes /\ size[left] > Needed(t)
  BY NeededIsASize DEF Split, At, IInv, TypeOK, CallsInOrder
<1>2. /\ half \in Sizes /\ half >= Needed(t)
      /\ half \in Nat \ {0} /\ size[left] = half + half
  BY <1>1, HalfStillFits
<1>3. left \in Nat \ {0} /\ Sizes \subseteq Nat \ {0} /\ brk \in Nat
  BY <1>1, SizesAssumption DEF IInv, TypeOK
<1>4. right \notin DOMAIN size /\ right \in Nat \ {0}
  BY <1>1, <1>2, <1>3 DEF IInv, TypeOK, BlocksApart
<1>5. /\ DOMAIN size' = DOMAIN size \cup {right}
      /\ size'[left] = half /\ size'[right] = half
      /\ \A b \in DOMAIN size \ {left} : size'[b] = size[b]
      /\ size' \in [DOMAIN size' -> Sizes]
  BY <1>1, <1>2, <1>4 DEF Split, IInv, TypeOK
<1>6. /\ free' = free \cup {right}
      /\ UNCHANGED <<live, brk, Start, heap_end,
                     malloc_lock, pc, node, query, white_space, frames, fault>>
  BY DEF Split, Connect
<1>7. TypeOK'
  BY <1>4, <1>5, <1>6 DEF IInv, TypeOK
<1>8. BlocksApart'
  <2>1. ASSUME NEW a \in DOMAIN size'
        PROVE  a + size'[a] <= brk'
    BY <1>1, <1>2, <1>3, <1>4, <1>5, <1>6 DEF IInv, TypeOK, BlocksApart
  <2>2. ASSUME NEW a \in DOMAIN size', NEW b \in DOMAIN size', a < b
        PROVE  a + size'[a] <= b
    <3>1. a \in Nat /\ b \in Nat
      BY <1>3, <1>4, <1>5 DEF IInv, TypeOK
    <3>2. CASE a = right
      BY <1>1, <1>2, <1>3, <1>4, <1>5, <2>2, <3>1, <3>2
         DEF IInv, TypeOK, BlocksApart
    <3>3. CASE a = left
      BY <1>1, <1>2, <1>3, <1>4, <1>5, <2>2, <3>1, <3>3
         DEF IInv, TypeOK, BlocksApart
    <3>4. CASE a \notin {left, right}
      <4>1. a \in DOMAIN size /\ size'[a] = size[a] /\ size[a] \in Nat
        BY <1>3, <1>5, <3>4 DEF IInv, TypeOK
      <4>2. CASE b \in DOMAIN size
        BY <2>2, <4>1, <4>2 DEF IInv, BlocksApart
      <4>3. CASE b = right
        BY <1>1, <1>2, <1>3, <2>2, <3>1, <3>4, <4>1, <4>3
           DEF IInv, BlocksApart
      <4> QED
        BY <1>5, <4>2, <4>3
    <3> QED
      BY <3>2, <3>3, <3>4
  <2> QED
    BY <2>1, <2>2 DEF BlocksApart
<1>9. HeldBlocksOffList'
  BY <1>1, <1>4, <1>5, <1>6 DEF IInv, TypeOK, HeldBlocksOffList, InTransit
<1>10. MutualExclusion'
  BY <1>6 DEF IInv, MutualExclusion
<1>11. CallsInOrder'
  <2>1. \A u \in Threads \ {t} : pc[u] \in {"idle", "m_lock", "f_lock", "f_unlock"}
    BY <1>1, OthersOutside DEF Critical
  <2>2. Needed(t)' = Needed(t)
    BY <1>6 DEF Needed
  <2> QED
    BY <1>1, <1>2, <1>5, <1>6, <2>1, <2>2 DEF IInv, TypeOK, CallsInOrder
<1> QED
  BY <1>7, <1>8, <1>9, <1>10, <1>11 DEF IInv

\* A block that is taken leaves the list.
LEMMA TakeIInv ==
  ASSUME IInv, NEW t \in Threads, Take(t)
  PROVE  IInv'
<1> DEFINE b == node[t]
<1>1. /\ pc[t] = "m_fit" /\ b \in free /\ b \in DOMAIN size
      /\ query[t] \in Queries /\ size[b] = Needed(t)
      /\ query[t] + OVERHEAD <= size[b]
  <2>1. /\ pc[t] = "m_fit" /\ b \in free /\ b \in DOMAIN size
        /\ query[t] \in Queries /\ size[b] = Needed(t)
    BY DEF Take, Go, At, IInv, TypeOK, CallsInOrder
  <2> QED
    BY <2>1, NeededIsASize, SizesAssumption, ConstantsAssumption
<1>2. /\ pc' = [pc EXCEPT ![t] = "idle"]
      /\ free' = free \ {b}
      /\ live' = [c \in DOMAIN live \cup {b} |->
                    IF c = b THEN query[t] ELSE live[c]]
      /\ malloc_lock' = IF malloc_lock = t THEN NoThread ELSE malloc_lock
      /\ node' = [node EXCEPT ![t] = 0]
      /\ query' = [query EXCEPT ![t] = 0]
      /\ UNCHANGED <<size, brk, Start, heap_end, white_space, frames, fault>>
  BY DEF Take, Go, Unlink, Unlock
<1>3. TypeOK'
  BY <1>1, <1>2 DEF IInv, TypeOK
<1>4. BlocksApart'
  BY <1>2 DEF IInv, BlocksApart
<1>5. HeldBlocksOffList'
  BY <1>1, <1>2 DEF IInv, TypeOK, HeldBlocksOffList, InTransit
<1>6. MutualExclusion'
  BY <1>1, <1>2 DEF IInv, TypeOK, MutualExclusion, Critical
<1>7. CallsInOrder'
  BY <1>1, <1>2, OthersOutside
     DEF IInv, TypeOK, CallsInOrder, Critical, Needed
<1> QED
  BY <1>3, <1>4, <1>5, <1>6, <1>7 DEF IInv

\* A block that is freed was in use; one that free drops is in nobody's hands.
LEMMA FreeCallIInv ==
  ASSUME IInv, NEW t \in Threads, NEW b \in DOMAIN live, FreeCall(t, b)
  PROVE  IInv'
<1>1. /\ pc[t] = "idle"
      /\ live' = [c \in DOMAIN live \ {b} |-> live[c]]
      /\ \/ pc' = [pc EXCEPT ![t] = "f_lock"] /\ node' = [node EXCEPT ![t] = b]
         \/ UNCHANGED <<pc, node>>
      /\ UNCHANGED <<size, free, brk, Start, heap_end,
                     malloc_lock, query, white_space, frames, fault>>
  BY DEF FreeCall, At
<1>2. b \in DOMAIN size /\ b \notin free
  BY DEF IInv, TypeOK, HeldBlocksOffList
<1>3. TypeOK'
  BY <1>1, <1>2 DEF IInv, TypeOK
<1>4. BlocksApart'
  BY <1>1 DEF IInv, BlocksApart
<1>5. HeldBlocksOffList'
  BY <1>1, <1>2 DEF IInv, TypeOK, HeldBlocksOffList, InTransit
<1>6. MutualExclusion'
  BY <1>1 DEF IInv, TypeOK, MutualExclusion, Critical
<1>7. CallsInOrder'
  BY <1>1, <1>2 DEF IInv, TypeOK, CallsInOrder, Needed
<1> QED
  BY <1>3, <1>4, <1>5, <1>6, <1>7 DEF IInv

\* A block that is freed joins the free ones, if there are any.
LEMMA InsertIInv ==
  ASSUME IInv, NEW t \in Threads, Insert(t)
  PROVE  IInv'
<1> DEFINE b == node[t]
<1>1. /\ pc[t] = "f_insert" /\ b \in DOMAIN size /\ InTransit(t, b)
  BY DEF Insert, Go, At, IInv, CallsInOrder, InTransit
<1>2. /\ pc' = [pc EXCEPT ![t] = "f_buddy"]
      /\ free' = free \cup {b}
      /\ frames' = [frames EXCEPT ![t] = 1]
      /\ UNCHANGED <<size, live, brk, Start, heap_end,
                     malloc_lock, node, query, white_space, fault>>
  BY DEF Insert, Go, Connect
<1>3. b \notin DOMAIN live /\ \A u \in Threads \ {t} : ~InTransit(u, b)
  BY <1>1 DEF IInv, HeldBlocksOffList
<1>4. TypeOK'
  BY <1>1, <1>2 DEF IInv, TypeOK
<1>5. BlocksApart'
  BY <1>2 DEF IInv, BlocksApart
<1>6. HeldBlocksOffList'
  BY <1>1, <1>2, <1>3 DEF IInv, TypeOK, HeldBlocksOffList, InTransit
<1>7. MutualExclusion'
  BY <1>1, <1>2 DEF IInv, TypeOK, MutualExclusion, Critical
<1>8. CallsInOrder'
  BY <1>1, <1>2, OthersOutside
     DEF IInv, TypeOK, CallsInOrder, Critical, Needed
<1> QED
  BY <1>4, <1>5, <1>6, <1>7, <1>8 DEF IInv

\* What a merge finds and leaves: two neighbours of one size, both on the list.
LEMMA UniteFacts ==
  ASSUME IInv, NEW t \in Threads, Unite(t)
  PROVE  \E left, right \in DOMAIN size :
           /\ left \in free /\ right \in free /\ node[t] \in {left, right}
           /\ right = left + size[left] /\ size[right] = size[left]
           /\ left # right /\ 2 * size[left] \in Sizes
           /\ DOMAIN size' = DOMAIN size \ {right}
           /\ size'[left] = 2 * size[left]
           /\ \A c \in DOMAIN size \ {left, right} : size'[c] = size[c]
           /\ free' = free \ {right}
           /\ node' = [node EXCEPT ![t] = left]
<1> DEFINE a == node[t]
           b == BuddyOf(a)
           left == IF a < b THEN a ELSE b
           right == IF a < b THEN b ELSE a
<1>1. a \in free /\ a \in DOMAIN size /\ Mergeable(a)
  BY DEF Unite, At, IInv, TypeOK, CallsInOrder
<1>2. /\ b \in free /\ b \in DOMAIN size /\ size[b] = size[a]
      /\ size[a] < PAGE_SIZE
      /\ b = a - size[a] \/ b = a + size[a]
  BY <1>1, BuddyIsNext DEF IInv, TypeOK
<1>3. /\ size[a] \in Sizes /\ size[a] \in Nat \ {0}
      /\ a \in Nat /\ b \in Nat /\ 2 * size[a] \in Sizes
  BY <1>1, <1>2, SizesAssumption DEF IInv, TypeOK
<1>4. /\ right = left + size[left] /\ size[right] = size[left]
      /\ size[left] = size[a] /\ left # right
  BY <1>1, <1>2, <1>3, BuddyIsNext
<1>5. /\ left \in free /\ right \in free /\ node[t] \in {left, right}
      /\ left \in DOMAIN size /\ right \in DOMAIN size
  BY <1>1, <1>2
<1>6. /\ size' = [c \in DOMAIN size \ {right} |->
                    IF c = left THEN 2 * size[a] ELSE size[c]]
      /\ free' = free \ {right}
      /\ node' = [node EXCEPT ![t] = left]
  BY DEF Unite, Unlink
<1>7. /\ DOMAIN size' = DOMAIN size \ {right}
      /\ size'[left] = 2 * size[left]
      /\ \A c \in DOMAIN size \ {left, right} : size'[c] = size[c]
  BY <1>4, <1>5, <1>6
<1> HIDE DEF left, right
<1> QED
  BY <1>3, <1>4, <1>5, <1>6, <1>7

\* Two buddies are replaced by the block they are halves of.
LEMMA UniteIInv ==
  ASSUME IInv, NEW t \in Threads, Unite(t)
  PROVE  IInv'
<1>1. PICK left, right \in DOMAIN size :
           /\ left \in free /\ right \in free /\ node[t] \in {left, right}
           /\ right = left + size[left] /\ size[right] = size[left]
           /\ left # right /\ 2 * size[left] \in Sizes
           /\ DOMAIN size' = DOMAIN size \ {right}
           /\ size'[left] = 2 * size[left]
           /\ \A c \in DOMAIN size \ {left, right} : size'[c] = size[c]
           /\ free' = free \ {right}
           /\ node' = [node EXCEPT ![t] = left]
  BY UniteFacts
<1>2. /\ pc[t] = "f_buddy"
      /\ frames' = [frames EXCEPT ![t] = @ + 1]
      /\ UNCHANGED <<live, brk, Start, heap_end, malloc_lock, pc, query,
                     white_space, fault>>
  BY DEF Unite, At
<1>3. \A u \in Threads \ {t} : pc[u] \in {"idle", "m_lock", "f_lock", "f_unlock"}
  BY <1>2, OthersOutside DEF Critical
<1>4. right \notin DOMAIN live
  BY <1>1 DEF IInv, HeldBlocksOffList
<1>5. \A u \in Threads \ {t} : node[u] # right
  <2>1. right # 0
    BY <1>1 DEF IInv, TypeOK
  <2>2. \A u \in Threads : pc[u] = "f_lock" => node[u] # right
    BY <1>1 DEF IInv, HeldBlocksOffList, InTransit
  <2> QED
    BY <1>3, <2>1, <2>2 DEF IInv, CallsInOrder
<1>6. TypeOK'
  <2>1. size' \in [DOMAIN size' -> Sizes]
    <3>1. size' = [c \in DOMAIN size' |-> size'[c]]
      BY Zenon DEF Unite
    <3>2. \A c \in DOMAIN size' : size'[c] \in Sizes
      BY <1>1 DEF IInv, TypeOK
    <3> QED
      BY <3>1, <3>2
  <2> QED
    BY <1>1, <1>2, <1>4, <1>5, <2>1 DEF IInv, TypeOK
<1>7. BlocksApart'
  <2>1. Sizes \subseteq Nat \ {0} /\ DOMAIN size \subseteq Nat /\ brk \in Nat
        /\ \A c \in DOMAIN size : size[c] \in Sizes
    BY SizesAssumption DEF IInv, TypeOK
  <2>2. ASSUME NEW c \in DOMAIN size'
        PROVE  c + size'[c] <= brk'
    <3>1. c + size[c] <= brk /\ right + size[right] <= brk
      BY <1>1 DEF IInv, BlocksApart
    <3>2. c \in Nat /\ size[c] \in Nat /\ size[left] \in Nat /\ left \in Nat
      BY <1>1, <2>1
    <3> QED
      BY <1>1, <1>2, <2>1, <3>1, <3>2
  <2>3. ASSUME NEW c \in DOMAIN size', NEW d \in DOMAIN size', c < d
        PROVE  c + size'[c] <= d
    <3>1. /\ c \in DOMAIN size \ {right} /\ d \in DOMAIN size \ {right}
          /\ c \in Nat /\ d \in Nat /\ left \in Nat /\ right \in Nat
          /\ size[c] \in Nat \ {0} /\ size[left] \in Nat \ {0}
      BY <1>1, <2>1
    <3>2. c + size[c] <= d
      BY <2>3, <3>1 DEF IInv, BlocksApart
    <3>3. CASE c = left
      <4>1. right < d
        BY <1>1, <3>1, <3>2, <3>3
      <4>2. right + size[right] <= d
        BY <3>1, <4>1 DEF IInv, BlocksApart
      <4> QED
        BY <1>1, <3>1, <3>3, <4>2
    <3>4. CASE c # left
      BY <1>1, <3>1, <3>2, <3>4
    <3> QED
      BY <3>3, <3>4
  <2> QED
    BY <2>2, <2>3 DEF BlocksApart
<1>8. HeldBlocksOffList'
  <2>1. \A b \in DOMAIN live : b \in DOMAIN size \ {left, right}
    BY <1>1 DEF IInv, TypeOK, HeldBlocksOffList
  <2>2. \A b \in DOMAIN live : b \notin free' /\ live[b] + OVERHEAD <= size'[b]
    BY <1>1, <2>1 DEF IInv, HeldBlocksOffList
  <2>3. \A u \in Threads : \A b : InTransit(u, b)' => InTransit(u, b)
    BY <1>1, <1>2 DEF InTransit, IInv, TypeOK
  <2> QED
    BY <1>1, <1>2, <2>2, <2>3 DEF IInv, HeldBlocksOffList
<1>9. MutualExclusion'
  BY <1>2 DEF IInv, MutualExclusion
<1>10. CallsInOrder'
  BY <1>1, <1>2, <1>3, <1>5 DEF IInv, TypeOK, CallsInOrder
<1> QED
  BY <1>6, <1>7, <1>8, <1>9, <1>10 DEF IInv

\* Memory that others take from the break belongs to no block.
LEMMA ForeignSbrkIInv ==
  ASSUME IInv, NEW n \in Bumps, ForeignSbrk(n)
  PROVE  IInv'
<1>1. n \in Nat /\ brk \in Nat /\ brk' = brk + n
  BY ConstantsAssumption DEF ForeignSbrk, IInv, TypeOK
<1>2. UNCHANGED <<size, free, live, Start, heap_end,
                  malloc_lock, pc, node, query, white_space, frames, fault>>
  BY DEF ForeignSbrk
<1>3. DOMAIN size \subseteq Nat /\ \A b \in DOMAIN size : size[b] \in Nat
  BY SizesAssumption DEF IInv, TypeOK
<1>4. BlocksApart'
  BY <1>1, <1>2, <1>3 DEF IInv, BlocksApart
<1> QED
  BY <1>1, <1>2, <1>4
     DEF IInv, TypeOK, HeldBlocksOffList, MutualExclusion, CallsInOrder,
         InTransit, Needed

\* Every step keeps the invariant.
LEMMA NextIInv == IInv /\ [Next]_vars => IInv'
<1> SUFFICES ASSUME IInv, [Next]_vars PROVE IInv'
  OBVIOUS
<1>1. CASE UNCHANGED vars
  BY <1>1 DEF vars, heap, IInv, TypeOK, BlocksApart, HeldBlocksOffList,
         MutualExclusion, CallsInOrder, InTransit, Needed
<1>2. ASSUME NEW t \in Threads, NEW q \in Queries, MallocCall(t, q)
      PROVE  IInv'
  BY <1>2, CallStepsIInv
<1>3. ASSUME NEW t \in Threads, NEW b \in DOMAIN live, FreeCall(t, b)
      PROVE  IInv'
  BY <1>3, FreeCallIInv
<1>4. ASSUME NEW t \in Threads, Step(t)
      PROVE  IInv'
  BY <1>4, CallStepsIInv, FirstFitIInv, ExtendHeapIInv, SplitIInv, TakeIInv,
     InsertIInv, UniteIInv DEF Step
<1>5. ASSUME NEW n \in Bumps, ForeignSbrk(n)
      PROVE  IInv'
  BY <1>5, ForeignSbrkIInv
<1> QED
  BY <1>1, <1>2, <1>3, <1>4, <1>5 DEF Next

\* The inductive invariant holds in every state.
LEMMA Invariance == Spec => []IInv
BY InitIInv, NextIInv, PTL DEF Spec

------------------------------------------------------------------------------
(* The theorems. *)

\* Every variable of the allocator keeps its type, and every block that the
\* list, the program or a call names has a header in memory.
THEOREM TypeCorrect == Spec => []TypeOK
BY Invariance, PTL DEF IInv

\* However the threads interleave, the splits of malloc and the merges of free
\* never make two blocks that share a byte, nor one beyond the break.
THEOREM BlocksStayApart == Spec => []BlocksApart
BY Invariance, PTL DEF IInv

\* A block between malloc and the end of its free is never on the free list,
\* in the hands of one call at most, and large enough for its request.
THEOREM HeldBlocksStayOffList == Spec => []HeldBlocksOffList
BY Invariance, PTL DEF IInv

\* The surplus unlocks of find_buddy's frames let no second thread into the
\* critical section.
THEOREM CriticalSectionExclusive == Spec => []MutualExclusion
BY Invariance, PTL DEF IInv

\* No step of any thread resizes or removes a block that the program holds.
THEOREM HeldBlocksStayUntouched == Spec => HeldBlocksUntouched
<1> DEFINE Untouched == \A b \in DOMAIN live : b \in DOMAIN size' /\ size'[b] = size[b]
<1>1. ASSUME IInv, [Next]_vars PROVE [Untouched]_vars
  <2>1. CASE UNCHANGED size
    BY <1>1, <2>1 DEF IInv, TypeOK
  <2>2. ASSUME NEW t \in Threads, ExtendHeap(t) PROVE Untouched
    <3>1. DOMAIN live \subseteq DOMAIN size /\ NewBlock \notin DOMAIN size
      <4>1. query[t] \in Queries /\ brk \in Nat /\ white_space \in Nat
        BY <1>1, <2>2 DEF ExtendHeap, At, IInv, CallsInOrder, TypeOK
      <4>2. NewBlock \in Nat /\ NewBlock >= brk
        BY <4>1, NewBlockInNewMemory
      <4>3. DOMAIN live \subseteq DOMAIN size
        BY <1>1 DEF IInv, TypeOK
      <4>4. \A b \in DOMAIN size : b < brk
        <5>1. \A b \in DOMAIN size : b \in Nat /\ size[b] \in Nat \ {0}
          BY <1>1, SizesAssumption DEF IInv, TypeOK
        <5>2. \A b \in DOMAIN size : b + size[b] <= brk
          BY <1>1 DEF IInv, BlocksApart
        <5> QED
          BY <4>1, <5>1, <5>2
      <4> QED
        BY <1>1, <4>1, <4>2, <4>3, <4>4 DEF IInv, TypeOK
    <3> QED
      BY <2>2, <3>1 DEF ExtendHeap
  <2>3. ASSUME NEW t \in Threads, Split(t) PROVE Untouched
    <3> DEFINE left == node[t]
               half == size[left] \div 2
    <3>1. left \in free /\ query[t] \in Queries /\ size[left] > Needed(t)
          /\ left \in DOMAIN size /\ size[left] \in Sizes
      BY <1>1, <2>3 DEF Split, At, IInv, CallsInOrder, TypeOK
    <3>2. half \in Nat \ {0} /\ size[left] = half + half
      BY <3>1, NeededIsASize, HalfStillFits
    <3>3. left + half \notin DOMAIN size
      BY <1>1, <3>1, <3>2 DEF IInv, TypeOK, BlocksApart
    <3>4. DOMAIN live \subseteq DOMAIN size \ {left}
      BY <1>1, <3>1 DEF IInv, TypeOK, HeldBlocksOffList
    <3> QED
      BY <2>3, <3>3, <3>4 DEF Split
  <2>4. ASSUME NEW t \in Threads, Unite(t) PROVE Untouched
    <3>1. PICK left, right \in DOMAIN size :
                /\ left \in free /\ right \in free
                /\ DOMAIN size' = DOMAIN size \ {right}
                /\ \A c \in DOMAIN size \ {left, right} : size'[c] = size[c]
      BY <1>1, <2>4, UniteFacts
    <3>2. DOMAIN live \subseteq DOMAIN size \ {left, right}
      BY <1>1, <3>1 DEF IInv, TypeOK, HeldBlocksOffList
    <3> QED
      BY <3>1, <3>2
  <2> QED
    BY <1>1, <2>1, <2>2, <2>3, <2>4
       DEF Next, Step, vars, heap, MallocCall, FreeCall, MallocLock, FirstFit,
           ReadBreak, OutOfMemory, Take, FreeLock, Insert, InsertIntoEmptyList, NoBuddy,
           FindBuddyReturn, ForeignSbrk
<1> QED
  BY <1>1, Invariance, PTL DEF Spec, HeldBlocksUntouched

------------------------------------------------------------------------------
(* The allocator implements HeapPromise. *)

\* The n bytes behind the header of block b, and those the program holds.
Extent(b, n) == [lo |-> b + OVERHEAD, len |-> n]
Extents == {Extent(b, live[b]) : b \in DOMAIN live}

\* Two blocks of the heap hold ranges that share no byte.
LEMMA ExtentsApart ==
  ASSUME IInv, NEW a \in DOMAIN size, NEW b \in DOMAIN size, a # b,
         NEW m \in Nat, m + OVERHEAD <= size[a],
         NEW n \in Nat, n + OVERHEAD <= size[b]
  PROVE  Promise!Apart(Extent(a, m), Extent(b, n))
<1>1. /\ a \in Nat /\ b \in Nat /\ size[a] \in Nat /\ size[b] \in Nat
      /\ OVERHEAD \in Nat
  BY SizesAssumption, ConstantsAssumption DEF IInv, TypeOK
<1>2. a + size[a] <= b \/ b + size[b] <= a
  BY <1>1 DEF IInv, BlocksApart
<1> QED
  BY <1>1, <1>2 DEF Promise!Apart, Extent

\* malloc's last step hands out a range clear of those still held.
LEMMA TakeGrants ==
  ASSUME IInv, NEW t \in Threads, Take(t)
  PROVE  Promise!Grant
<1> DEFINE b == node[t]
           e == Extent(b, query[t])
<1>1. /\ b \in free /\ b \in DOMAIN size /\ query[t] \in Queries
      /\ size[b] = Needed(t) /\ query[t] \in Nat
      /\ live' = [c \in DOMAIN live \cup {b} |->
                     IF c = b THEN query[t] ELSE live[c]]
  BY ConstantsAssumption
     DEF Take, Go, At, IInv, TypeOK, CallsInOrder
<1>2. query[t] + OVERHEAD <= size[b]
  BY <1>1, NeededIsASize, SizesAssumption, ConstantsAssumption
<1>3. b \notin DOMAIN live
  BY <1>1 DEF IInv, HeldBlocksOffList
<1>4. Extents' = Extents \cup {e}
  <2>1. /\ DOMAIN live' = DOMAIN live \cup {b}
        /\ live'[b] = query[t]
        /\ \A c \in DOMAIN live : live'[c] = live[c]
    BY <1>1, <1>3
  <2> QED
    BY <2>1 DEF Extents
<1>5. \A c \in DOMAIN live :
        /\ c \in DOMAIN size /\ c # b
        /\ live[c] \in Nat /\ live[c] + OVERHEAD <= size[c]
  BY <1>3, ConstantsAssumption DEF IInv, TypeOK, HeldBlocksOffList
<1>6. \A f \in Extents : Promise!Apart(e, f)
  BY <1>1, <1>2, <1>5, ExtentsApart DEF Extents
<1>7. e \notin Extents
  <2>1. \A c \in DOMAIN live : c + OVERHEAD # b + OVERHEAD
    BY <1>1, <1>5, ConstantsAssumption DEF IInv, TypeOK
  <2> QED
    BY <2>1 DEF Extents, Extent
<1>8. \E g \in Extents' : /\ g \notin Extents
                          /\ Extents' = Extents \cup {g}
                          /\ \A f \in Extents : Promise!Apart(g, f)
  BY <1>4, <1>6, <1>7
<1> QED
  BY <1>8 DEF Promise!Grant, Extents, Extent

\* The call of free gives one range back.
LEMMA FreeCallReturns ==
  ASSUME IInv, NEW t \in Threads, NEW b \in DOMAIN live, FreeCall(t, b)
  PROVE  Promise!Return
<1>1. live' = [c \in DOMAIN live \ {b} |-> live[c]]
  BY DEF FreeCall
<1>2. \A c \in DOMAIN live : c # b => Extent(c, live[c]) # Extent(b, live[b])
  <2>1. \A c \in DOMAIN live : c # b => c + OVERHEAD # b + OVERHEAD
    BY ConstantsAssumption DEF IInv, TypeOK
  <2> QED
    BY <2>1 DEF Extent
<1>3. /\ DOMAIN live' = DOMAIN live \ {b}
      /\ \A c \in DOMAIN live \ {b} : live'[c] = live[c]
  BY <1>1
<1>4. Extents' = Extents \ {Extent(b, live[b])}
  BY <1>2, <1>3 DEF Extents
<1>5. \E e \in Extents : Extents' = Extents \ {e}
  BY <1>4 DEF Extents
<1> QED
  BY <1>5 DEF Promise!Return, Extents, Extent

\* malloc and free implement the promise: every step of every thread hands out
\* one range clear of the others, takes one back, or changes none.
THEOREM ImplementsPromise == Spec => KeepsPromise
<1>1. Init => Promise!Init
  BY DEF Init, Promise!Init
<1>2. ASSUME IInv, [Next]_vars
      PROVE  Promise!Next \/ UNCHANGED Extents
  <2>1. CASE UNCHANGED live
    BY <2>1 DEF Extents, Extent
  <2>2. ASSUME NEW t \in Threads, Take(t) PROVE Promise!Next
    BY <1>2, <2>2, TakeGrants DEF Promise!Next
  <2>3. ASSUME NEW t \in Threads, NEW b \in DOMAIN live, FreeCall(t, b)
        PROVE  Promise!Next
    BY <1>2, <2>3, FreeCallReturns DEF Promise!Next
  <2> QED
    BY <1>2, <2>1, <2>2, <2>3
       DEF Next, Step, vars, heap, MallocCall, MallocLock, FirstFit, ReadBreak,
           ExtendHeap, OutOfMemory, Split, FreeLock, Insert, InsertIntoEmptyList, Unite,
           NoBuddy, FindBuddyReturn, ForeignSbrk
<1>3. IInv /\ [Next]_vars => [Promise!Next]_Extents
  BY <1>2
<1> QED
  BY <1>1, <1>3, Invariance, PTL
     DEF Spec, KeepsPromise, Promise!Spec, Extents, Extent

------------------------------------------------------------------------------
(* Where the blocks lie.                                                   *)

\* A block lies at a multiple of its size; one of more than a page, at a page.
\* The assertion of extend_heap kills the process where this would end.
Aligned ==
  fault = "none" =>
    \A b \in DOMAIN size : IF size[b] <= PAGE_SIZE THEN b % size[b] = 0
                                                   ELSE b % PAGE_SIZE = 0

\* Halves lie side by side on the list only while a call splits or merges them.
CoalescedBut ==
  \A a, b \in free : Halves(a, b) =>
    \E t \in Threads : \/ pc[t] = "m_fit" /\ node[t] = a
                       \/ pc[t] = "f_buddy" /\ node[t] \in {a, b}

\* Of two block sizes the smaller divides the larger: the least size above n
\* that n does not divide would be twice a smaller one.
LEMMA SizesDivide ==
  ASSUME NEW s \in Sizes, NEW n \in Sizes, s >= n
  PROVE  s % n = 0
<1> DEFINE T == {r \in Sizes : r >= n /\ r % n # 0}
<1>1. Sizes \subseteq Nat \ {0} /\ n \in Nat \ {0}
  BY SizesAssumption
<1>2. n % n = 0
  BY <1>1
<1>3. ASSUME NEW r \in T, \A y \in T : r <= y PROVE FALSE
  <2>1. r \in Sizes /\ r > n /\ r % n # 0 /\ r \in Nat
    BY <1>1, <1>2
  <2>2. /\ r \div 2 \in Sizes /\ r \div 2 >= n
        /\ r \div 2 \in Nat \ {0} /\ r = r \div 2 + r \div 2
    BY <2>1, HalfStillFits
  <2>3. (r \div 2) % n = 0
    BY <1>3, <2>1, <2>2
  <2>4. r % (r \div 2) = 0
    BY <2>1, <2>2
  <2> QED
    BY <1>1, <2>1, <2>2, <2>3, <2>4, DividesTransitive
<1>4. T = {}
  <2> T \in SUBSET Nat
    BY <1>1
  <2> HIDE DEF T
  <2> QED
    BY <1>3, LeastNumber
<1> QED
  BY <1>4

\* What is smaller than a page divides it into an even number of parts.
LEMMA PageDivides ==
  ASSUME NEW s \in Sizes
  PROVE  /\ s \in Nat \ {0} /\ PAGE_SIZE \in Nat \ {0}
         /\ s <= PAGE_SIZE => PAGE_SIZE % s = 0
         /\ s < PAGE_SIZE => /\ 2 * s \in Sizes /\ 2 * s <= PAGE_SIZE
                             /\ PAGE_SIZE % (2 * s) = 0
         /\ s >= PAGE_SIZE => s % PAGE_SIZE = 0
<1>1. s \in Nat \ {0} /\ PAGE_SIZE \in Nat \ {0} /\ PAGE_SIZE \in Sizes
  BY SizesAssumption
<1>2. CASE s < PAGE_SIZE
  <2>1. 2 * s \in Sizes
    BY <1>2, SizesAssumption
  <2>2. PAGE_SIZE \div 2 >= s /\ PAGE_SIZE = PAGE_SIZE \div 2 + PAGE_SIZE \div 2
        /\ PAGE_SIZE \div 2 \in Nat
    BY <1>1, <1>2, HalfStillFits
  <2>3. 2 * s <= PAGE_SIZE /\ 2 * s \in Nat
    BY <1>1, <2>2
  <2> QED
    BY <1>1, <1>2, <2>1, <2>3, SizesDivide
<1> QED
  BY <1>1, <1>2, SizesDivide

------------------------------------------------------------------------------
(* Nothing is lost.                                                        *)
(*                                                                         *)
(* free drops a pointer that lies outside the heap or on no boundary of 16 *)
(* bytes, and the block behind it with it.  That it drops none of malloc's *)
(* rests on where the blocks lie.                                          *)

\* Every block lies between the bounds that free compares a pointer with, at a
\* multiple of 16, whatever pages and splits it comes from.
InBounds ==
  fault = "none" =>
    /\ Start <= brk /\ heap_end <= brk
    /\ Start = 0 => DOMAIN size = {}
    /\ \A b \in DOMAIN size : /\ Start <= b /\ b + size[b] <= heap_end
                              /\ b % 16 = 0

\* Block sizes and pages are multiples of 16.
LEMMA SixteenDivides ==
  /\ PAGE_SIZE \in Nat \ {0} /\ PAGE_SIZE % 16 = 0
  /\ \A s \in Sizes : s \in Nat \ {0} /\ s % 16 = 0
BY SizesAssumption

\* free takes every block that the program holds.
LEMMA HeldBlocksAccepted ==
  ASSUME IInv, InBounds, fault = "none", NEW b \in DOMAIN live
  PROVE  Accepted(b)
<1>1. /\ b \in DOMAIN size /\ b \in Nat /\ size[b] \in Nat /\ live[b] \in Nat
      /\ OVERHEAD \in Nat /\ Start \in Nat /\ heap_end \in Nat
  BY SizesAssumption, ConstantsAssumption DEF IInv, TypeOK
<1>2. live[b] + OVERHEAD <= size[b]
  BY DEF IInv, HeldBlocksOffList
<1>3. Start <= b /\ b + size[b] <= heap_end /\ b % 16 = 0
  BY <1>1 DEF InBounds
<1> QED
  BY <1>1, <1>2, <1>3 DEF Accepted

\* The pages that extend_heap makes and the halves that a split makes lie in
\* bounds; a merge leaves its left half's address and its right half's end.
LEMMA NextInBounds ==
  ASSUME IInv, InBounds, [Next]_vars
  PROVE  InBounds'
<1> USE DEF At, Go
<1>1. /\ \A b \in DOMAIN size : b \in Nat \ {0} /\ size[b] \in Sizes /\ size[b] \in Nat
      /\ brk \in Nat /\ Start \in Nat /\ heap_end \in Nat /\ white_space \in Nat
  BY SizesAssumption DEF IInv, TypeOK
<1>2. CASE /\ UNCHANGED <<size, brk, Start, heap_end>>
           /\ fault' = "none" => fault = "none"
  BY <1>2 DEF InBounds
<1>3. ASSUME NEW n \in Bumps, ForeignSbrk(n)
      PROVE  InBounds'
  <2>1. /\ n \in Nat /\ brk' = brk + n
        /\ UNCHANGED <<size, Start, heap_end, fault>>
    BY <1>3, ConstantsAssumption DEF ForeignSbrk
  <2> QED
    BY <1>1, <2>1 DEF InBounds
<1>4. ASSUME NEW t \in Threads, ExtendHeap(t)
      PROVE  InBounds'
  <2> DEFINE n == RoundToPage(Needed(t))
  <2>1. query[t] \in Queries /\ fault = "none"
    BY <1>4 DEF ExtendHeap, IInv, CallsInOrder
  <2>2. /\ NewBlock \in Nat /\ NewBlock >= brk /\ NewBrk(t) \in Nat
        /\ n \in Sizes /\ NewBlock + n <= NewBrk(t)
    BY <1>1, <2>1, NewBlockInNewMemory
  <2>3. n \in Nat
    BY <2>2, SizesAssumption
  <2>4. /\ brk' = NewBrk(t) /\ heap_end' = NewBlock + n
        /\ DOMAIN size' = DOMAIN size \cup {NewBlock}
        /\ \A b \in DOMAIN size' : size'[b] = IF b = NewBlock THEN n ELSE size[b]
    BY <1>4 DEF ExtendHeap
  <2>5. CASE NewBlock % PAGE_SIZE # 0
    BY <1>4, <2>5 DEF ExtendHeap, InBounds
  <2>6. CASE NewBlock % PAGE_SIZE = 0
    <3>1. NewBlock % 16 = 0
      <4> HIDE DEF n
      <4>1. NewBlock \in Nat /\ 16 \in Nat \ {0}
        BY <2>2
      <4>2. \A a \in Nat : a % PAGE_SIZE = 0 => a % 16 = 0
        BY <4>1, SixteenDivides, DividesTransitive
      <4> QED
        BY <2>6, <4>1, <4>2
    <3>2. Start' = IF Start = 0 THEN NewBlock ELSE Start
      BY <1>4, <2>6 DEF ExtendHeap, LinkNewBlock
    <3>3. NewBlock # 0
      BY <1>1, <2>2 DEF IInv, CallsInOrder
    <3>4. Start' <= NewBlock /\ Start' \in Nat /\ Start' # 0
      BY <1>1, <2>1, <2>2, <3>2, <3>3 DEF InBounds
    <3>5. ASSUME NEW b \in DOMAIN size, b # NewBlock
          PROVE  Start' <= b /\ b + size'[b] <= heap_end' /\ b % 16 = 0
      <4>1. /\ Start # 0 /\ Start <= b /\ b + size[b] <= heap_end /\ b % 16 = 0
            /\ heap_end <= brk
        BY <2>1 DEF InBounds
      <4> HIDE DEF n
      <4>2. size'[b] = size[b] /\ b \in Nat /\ size[b] \in Nat /\ Start' = Start
        BY <1>1, <2>4, <3>2, <3>5, <4>1
      <4> QED
        BY <1>1, <2>2, <2>3, <2>4, <4>1, <4>2
    <3>6. size'[NewBlock] = n
      BY <2>4
    <3>7. Start' <= brk' /\ heap_end' <= brk'
      BY <2>2, <2>3, <2>4, <3>4
    <3> HIDE DEF n
    <3> QED
      BY <2>2, <2>3, <2>4, <3>1, <3>4, <3>5, <3>6, <3>7 DEF InBounds
  <2> QED
    BY <2>5, <2>6
<1>5. ASSUME NEW t \in Threads, Split(t)
      PROVE  InBounds'
  <2> DEFINE left == node[t]
             half == size[left] \div 2
             right == left + half
  <2>1. /\ left \in DOMAIN size /\ query[t] \in Queries /\ fault = "none"
        /\ size[left] \in Sizes /\ size[left] > Needed(t)
    BY <1>1, <1>5 DEF Split, IInv, CallsInOrder, TypeOK
  <2>2. half \in Sizes /\ half \in Nat \ {0} /\ size[left] = half + half
    BY <2>1, NeededIsASize, HalfStillFits
  <2>3. /\ DOMAIN size' = DOMAIN size \cup {right}
        /\ \A b \in DOMAIN size' :
             size'[b] = IF b \in {left, right} THEN half ELSE size[b]
        /\ UNCHANGED <<brk, Start, heap_end, fault>>
    BY <1>5 DEF Split
  <2> HIDE DEF half
  <2>4. /\ left \in Nat /\ Start <= left /\ left + size[left] <= heap_end
        /\ left % 16 = 0
    BY <1>1, <2>1 DEF InBounds
  <2>5. right % 16 = 0
    BY <2>2, <2>4, SixteenDivides, SumOfMultiples
  <2>6. /\ Start <= right /\ right + half <= heap_end
        /\ left + half <= heap_end
    BY <1>1, <2>2, <2>4
  <2>7. /\ Start <= brk /\ heap_end <= brk /\ Start # 0
        /\ \A b \in DOMAIN size : /\ Start <= b /\ b + size[b] <= heap_end
                                  /\ b % 16 = 0
    BY <2>1 DEF InBounds
  <2> HIDE DEF left, right
  <2> QED
    BY <2>3, <2>4, <2>5, <2>6, <2>7 DEF InBounds, right
<1>6. ASSUME NEW t \in Threads, Unite(t)
      PROVE  InBounds'
  <2>1. PICK left, right \in DOMAIN size :
           /\ right = left + size[left] /\ size[right] = size[left] /\ left # right
           /\ DOMAIN size' = DOMAIN size \ {right}
           /\ size'[left] = 2 * size[left]
           /\ \A c \in DOMAIN size \ {left, right} : size'[c] = size[c]
    BY <1>6, UniteFacts
  <2>2. fault = "none" /\ UNCHANGED <<brk, Start, heap_end>>
    BY <1>6 DEF Unite
  <2>3. left + size'[left] <= heap_end
    <3>1. right + size[right] <= heap_end
      BY <2>2 DEF InBounds
    <3> QED
      BY <1>1, <2>1, <3>1
  <2> QED
    BY <2>1, <2>2, <2>3 DEF InBounds
<1> QED
  BY <1>2, <1>3, <1>4, <1>5, <1>6
     DEF Next, Step, vars, heap, MallocCall, FreeCall, MallocLock, FirstFit,
         ReadBreak, OutOfMemory, Take, FreeLock, Insert, InsertIntoEmptyList,
         NoBuddy, FindBuddyReturn

\* No step loses a block.
LEMMA NextNothingLost ==
  ASSUME IInv, InBounds, NothingLost, [Next]_vars
  PROVE  NothingLost'
<1> USE DEF At, Go
<1>1. ASSUME fault = "none", UNCHANGED <<size, free, live>>,
             \A t \in Threads : pc[t] \in {"f_lock", "f_insert"} =>
               pc'[t] \in {"f_lock", "f_insert"} /\ node'[t] = node[t]
      PROVE  NothingLost'
  BY <1>1 DEF NothingLost, InTransit
<1>2. CASE UNCHANGED vars
  BY <1>2 DEF vars, heap, NothingLost, InTransit
<1>3. ASSUME NEW t \in Threads, NEW q \in Queries, MallocCall(t, q)
      PROVE  NothingLost'
  BY <1>1, <1>3 DEF MallocCall, heap, IInv, TypeOK
<1>4. ASSUME NEW t \in Threads, NEW b \in DOMAIN live, FreeCall(t, b)
      PROVE  NothingLost'
  <2>1. Accepted(b)
    BY <1>4, HeldBlocksAccepted DEF FreeCall
  <2> QED
    BY <1>4, <2>1 DEF FreeCall, NothingLost, InTransit, IInv, TypeOK
<1>5. ASSUME NEW t \in Threads, Step(t)
      PROVE  NothingLost'
  <2>1. CASE \/ MallocLock(t) \/ FirstFit(t) \/ ReadBreak(t) \/ OutOfMemory(t)
             \/ NoBuddy(t) \/ FindBuddyReturn(t) \/ FreeLock(t)
    BY <1>1, <2>1 DEF MallocLock, FirstFit, ReadBreak, OutOfMemory, NoBuddy,
                      FindBuddyReturn, FreeLock, heap, IInv, TypeOK
  <2>2. CASE InsertIntoEmptyList(t)
    BY <2>2 DEF InsertIntoEmptyList, NothingLost
  <2>3. CASE ExtendHeap(t)
    BY <2>3 DEF ExtendHeap, LinkNewBlock, Connect, NothingLost, InTransit,
                IInv, TypeOK
  <2>4. CASE Split(t)
    BY <2>4 DEF Split, Connect, NothingLost, InTransit
  <2>5. CASE Take(t)
    BY <2>5 DEF Take, Unlink, NothingLost, InTransit, IInv, TypeOK
  <2>6. CASE Insert(t)
    BY <2>6 DEF Insert, Connect, NothingLost, InTransit, IInv, TypeOK
  <2>7. CASE Unite(t)
    <3>1. PICK right \in DOMAIN size :
             /\ DOMAIN size' = DOMAIN size \ {right}
             /\ free' = free \ {right}
      BY <2>7, UniteFacts
    <3>2. /\ fault = "none" /\ UNCHANGED <<live, pc>> /\ pc[t] = "f_buddy"
          /\ \A u \in Threads \ {t} : node'[u] = node[u]
      BY <2>7 DEF Unite, IInv, TypeOK
    <3> QED
      BY <3>1, <3>2 DEF NothingLost, InTransit
  <2> QED
    BY <1>5, <2>1, <2>2, <2>3, <2>4, <2>5, <2>6, <2>7 DEF Step
<1>6. ASSUME NEW n \in Bumps, ForeignSbrk(n)
      PROVE  NothingLost'
  BY <1>1, <1>6 DEF ForeignSbrk
<1> QED
  BY <1>2, <1>3, <1>4, <1>5, <1>6 DEF Next

\* A block that malloc has made is for ever on the list, held by the program,
\* part of a block, or on its way from the program to the list; free drops none
\* without linking it in, though two of its returns would.
THEOREM NoBlockLost == Spec => []NothingLost
<1>1. Init => InBounds /\ NothingLost
  BY SizesAssumption DEF Init, InBounds, NothingLost
<1>2. IInv /\ InBounds /\ NothingLost /\ [Next]_vars => (InBounds /\ NothingLost)'
  BY NextInBounds, NextNothingLost
<1> QED
  BY <1>1, <1>2, Invariance, PTL DEF Spec
------------------------------------------------------------------------------
\* Blocks lie at multiples of their size.

\* The halves of a block that lies at a multiple of its size do so too, and
\* only the left one at a multiple of twice its size.
LEMMA Half ==
  ASSUME NEW a \in Nat, NEW h \in Sizes, 2 * h <= PAGE_SIZE, a % (2 * h) = 0
  PROVE  a % h = 0 /\ (a + h) % h = 0 /\ (a + h) % (2 * h) = h
<1>1. h \in Nat \ {0} /\ 2 * h \in Nat \ {0} /\ h \in 0 .. 2 * h - 1
  BY SizesAssumption
<1>2. (2 * h) % h = 0
  BY <1>1, Multiple
<1>3. a % h = 0
  BY <1>1, <1>2, DividesTransitive
<1>4. (a + h) % (2 * h) = h
  BY <1>1, RestBehind
<1>5. (a + h) % h = 0
  <2>1. h % h = 0
    BY <1>1
  <2> QED
    BY <1>1, <1>3, <2>1, SumOfMultiples
<1> QED
  BY <1>3, <1>4, <1>5

\* The halves that a split makes, the block that a merge makes and the pages
\* that extend_heap makes lie at multiples of their sizes.
LEMMA NextAligned ==
  ASSUME IInv, Aligned, [Next]_vars
  PROVE  Aligned'
<1> USE DEF At, Go
<1>1. CASE UNCHANGED size /\ (fault' = "none" => fault = "none")
  BY <1>1 DEF Aligned
<1>2. ASSUME NEW t \in Threads, ExtendHeap(t)
      PROVE  Aligned'
  <2> DEFINE n == RoundToPage(Needed(t))
  <2>1. CASE NewBlock % PAGE_SIZE # 0
    BY <1>2, <2>1 DEF ExtendHeap, Aligned
  <2>2. CASE NewBlock % PAGE_SIZE = 0
    <3>1. query[t] \in Queries /\ n \in Sizes /\ n >= PAGE_SIZE
      <4>1. query[t] \in Queries /\ Needed(t) \in Sizes
        BY <1>2, NeededIsASize DEF ExtendHeap, IInv, CallsInOrder
      <4> QED
        BY <4>1, RoundToPageHolds
    <3>2. /\ fault = "none" /\ DOMAIN size' = DOMAIN size \cup {NewBlock}
          /\ \A b \in DOMAIN size' : size'[b] = IF b = NewBlock THEN n ELSE size[b]
      BY <1>2 DEF ExtendHeap
    <3>3. n <= PAGE_SIZE => n = PAGE_SIZE
      BY <3>1, PageDivides
    <3> HIDE DEF n
    <3> QED
      BY <2>2, <3>1, <3>2, <3>3 DEF Aligned
  <2> QED
    BY <2>1, <2>2
<1>3. ASSUME NEW t \in Threads, Split(t)
      PROVE  Aligned'
  <2> DEFINE left == node[t]
             half == size[left] \div 2
             right == left + half
  <2>1. /\ left \in DOMAIN size /\ left \in Nat /\ query[t] \in Queries
        /\ Needed(t) \in Sizes /\ size[left] \in Sizes /\ size[left] > Needed(t)
    BY <1>3, NeededIsASize DEF Split, IInv, TypeOK, CallsInOrder
  <2>2. half \in Sizes /\ half \in Nat \ {0} /\ size[left] = 2 * half
    BY <2>1, HalfStillFits
  <2>3. /\ fault = "none" /\ fault' = "none"
        /\ DOMAIN size' = DOMAIN size \cup {right}
        /\ \A b \in DOMAIN size' :
             size'[b] = IF b \in {left, right} THEN half ELSE size[b]
    BY <1>3 DEF Split
  <2>4. IF half <= PAGE_SIZE THEN left % half = 0 /\ right % half = 0
                             ELSE left % PAGE_SIZE = 0 /\ right % PAGE_SIZE = 0
    <3> HIDE DEF left, half
    <3>0. PAGE_SIZE \in Nat \ {0}
      BY SizesAssumption
    <3>1. CASE size[left] <= PAGE_SIZE
      <4>1. left % (2 * half) = 0 /\ 2 * half <= PAGE_SIZE
        BY <2>1, <2>2, <2>3, <3>1 DEF Aligned
      <4> QED
        BY <2>1, <2>2, <3>0, <4>1, Half
    <3>2. CASE size[left] > PAGE_SIZE
      <4>1. left % PAGE_SIZE = 0
        BY <2>1, <2>2, <2>3, <3>0, <3>2 DEF Aligned
      <4>2. half >= PAGE_SIZE /\ half % PAGE_SIZE = 0
        <5>1. half >= PAGE_SIZE
          BY <2>1, <3>2, SizesAssumption DEF half
        <5> QED
          BY <2>2, <5>1, PageDivides
      <4>3. right % PAGE_SIZE = 0
        BY <2>1, <2>2, <3>0, <4>1, <4>2, SumOfMultiples
      <4> QED
        BY <2>2, <3>0, <4>1, <4>2, <4>3
    <3> QED
      BY <2>1, <2>2, <3>0, <3>1, <3>2
  <2> HIDE DEF left, half, right
  <2> QED
    BY <2>3, <2>4 DEF Aligned
<1>4. ASSUME NEW t \in Threads, Unite(t)
      PROVE  Aligned'
  <2> DEFINE a == node[t]
             s == size[a]
             left == IF a < BuddyOf(a) THEN a ELSE BuddyOf(a)
  <2>1. /\ Mergeable(a) /\ fault = "none" /\ a \in DOMAIN size /\ a \in Nat
        /\ s \in Sizes /\ s < PAGE_SIZE /\ BuddyOf(a) \in Nat
    BY <1>4 DEF Unite, IInv, TypeOK, CallsInOrder, Mergeable
  <2>2. /\ s \in Nat \ {0} /\ PAGE_SIZE \in Nat \ {0} /\ 2 * s \in Nat \ {0}
        /\ 2 * s <= PAGE_SIZE /\ PAGE_SIZE % (2 * s) = 0
    <3> HIDE DEF s
    <3> QED BY <2>1, PageDivides
  <2>3. a % s = 0
    BY <2>1, <2>2 DEF Aligned
  <2>4. (a % PAGE_SIZE) % (2 * s) = a % (2 * s)
    <3> HIDE DEF s, a
    <3> QED BY <2>1, <2>2, OffsetRest
  <2>5. left % (2 * s) = 0
    <3>1. CASE a % (2 * s) = 0
      <4>1. BuddyOf(a) = a + s
        BY <2>4, <3>1 DEF BuddyOf
      <4>2. left = a
        BY <2>1, <2>2, <4>1
      <4> QED
        BY <3>1, <4>2
    <3>2. CASE a % (2 * s) # 0
      <4>1. BuddyOf(a) = a - s
        BY <2>4, <3>2 DEF BuddyOf
      <4>2. left = a - s
        BY <2>1, <2>2, <4>1
      <4>3. (a - s) % (2 * s) = 0
        <5> HIDE DEF s, a
        <5> QED BY <2>1, <2>2, <2>3, <3>2, OddMultiple
      <4> QED
        BY <4>2, <4>3
    <3> QED
      BY <3>1, <3>2
  <2>6. \A c \in DOMAIN size' : /\ c \in DOMAIN size
                                /\ size'[c] = IF c = left THEN 2 * s ELSE size[c]
    BY <1>4 DEF Unite
  <2> HIDE DEF left, a, s
  <2> QED
    BY <2>1, <2>2, <2>5, <2>6 DEF Aligned
<1> QED
  BY <1>1, <1>2, <1>3, <1>4
     DEF Next, Step, vars, heap, MallocCall, FreeCall, MallocLock, FirstFit,
         ReadBreak, OutOfMemory, Take, FreeLock, Insert, InsertIntoEmptyList,
         NoBuddy, FindBuddyReturn, ForeignSbrk
------------------------------------------------------------------------------
\* Pages stay tiled.

\* A byte that lies in a block lies in one for ever.
LEMMA NextCovered ==
  ASSUME IInv, [Next]_vars, NEW x \in Nat, Covered(x)
  PROVE  Covered(x)'
<1> USE DEF At, Go
<1>1. PICK c \in DOMAIN size : c <= x /\ x < c + size[c]
  BY DEF Covered
<1>2. /\ \A b \in DOMAIN size : b \in Nat /\ size[b] \in Sizes /\ size[b] \in Nat
      /\ c \in Nat /\ size[c] \in Nat
  BY SizesAssumption DEF IInv, TypeOK
<1>3. CASE UNCHANGED size
  BY <1>3 DEF Covered
<1>4. ASSUME NEW t \in Threads, ExtendHeap(t)
      PROVE  Covered(x)'
  <2>1. query[t] \in Queries /\ brk \in Nat /\ white_space \in Nat
    BY <1>4 DEF ExtendHeap, IInv, CallsInOrder, TypeOK
  <2>2. NewBlock \in Nat /\ NewBlock >= brk
    BY <2>1, NewBlockInNewMemory
  <2>3. c # NewBlock
    BY <1>1, <1>2, <2>1, <2>2 DEF IInv, BlocksApart
  <2>4. c \in DOMAIN size' /\ size'[c] = size[c]
    BY <1>4, <2>3 DEF ExtendHeap
  <2> QED
    BY <1>1, <2>4 DEF Covered
<1>5. ASSUME NEW t \in Threads, Split(t)
      PROVE  Covered(x)'
  <2> DEFINE left == node[t]
             half == size[left] \div 2
             right == left + half
  <2>1. /\ left \in DOMAIN size /\ query[t] \in Queries /\ size[left] > Needed(t)
    BY <1>5 DEF Split, IInv, CallsInOrder, TypeOK
  <2>2. half \in Nat \ {0} /\ size[left] = half + half
    BY <1>2, <2>1, NeededIsASize, HalfStillFits
  <2>3. /\ DOMAIN size' = DOMAIN size \cup {right}
        /\ \A b \in DOMAIN size' :
             size'[b] = IF b \in {left, right} THEN half ELSE size[b]
    BY <1>5 DEF Split
  <2>4. right \notin DOMAIN size
    BY <1>2, <2>1, <2>2 DEF IInv, BlocksApart
  <2>5. CASE c = left
    <3>1. \/ left <= x /\ x < left + size'[left]
          \/ right <= x /\ x < right + size'[right]
      BY <1>1, <1>2, <2>1, <2>2, <2>3, <2>5
    <3> QED
      BY <2>1, <2>3, <3>1 DEF Covered
  <2>6. CASE c # left
    BY <1>1, <2>3, <2>4, <2>6 DEF Covered
  <2> QED
    BY <2>5, <2>6
<1>6. ASSUME NEW t \in Threads, Unite(t)
      PROVE  Covered(x)'
  <2>1. PICK left, right \in DOMAIN size :
           /\ right = left + size[left] /\ size[right] = size[left] /\ left # right
           /\ DOMAIN size' = DOMAIN size \ {right}
           /\ size'[left] = 2 * size[left]
           /\ \A b \in DOMAIN size \ {left, right} : size'[b] = size[b]
    BY <1>6, UniteFacts
  <2>2. CASE c \in {left, right}
    <3>1. left <= x /\ x < left + size'[left]
      BY <1>1, <1>2, <2>1, <2>2
    <3> QED
      BY <2>1, <3>1 DEF Covered
  <2>3. CASE c \notin {left, right}
    BY <1>1, <2>1, <2>3 DEF Covered
  <2> QED
    BY <2>2, <2>3
<1> QED
  BY <1>3, <1>4, <1>5, <1>6
     DEF Next, Step, vars, heap, MallocCall, FreeCall, MallocLock, FirstFit,
         ReadBreak, OutOfMemory, Take, FreeLock, Insert, InsertIntoEmptyList,
         NoBuddy, FindBuddyReturn, ForeignSbrk

\* The page that address a lies in.
Page(a) == (a \div PAGE_SIZE) * PAGE_SIZE
PageTiled(a) == \A x \in 0 .. PAGE_SIZE - 1 : Covered(Page(a) + x)

\* A block of a page at most lies in one page, and covers it if it is a page.
LEMMA InOnePage ==
  ASSUME NEW a \in Nat, NEW s \in Sizes, s <= PAGE_SIZE, a % s = 0,
         NEW d \in 0 .. s - 1
  PROVE  /\ Page(a + d) = Page(a)
         /\ s = PAGE_SIZE => Page(a) = a
<1>1. s \in Nat \ {0} /\ PAGE_SIZE \in Nat \ {0} /\ PAGE_SIZE % s = 0
  BY PageDivides
<1>2. PICK q \in Nat, r \in 0 .. PAGE_SIZE - 1 :
         a = (PAGE_SIZE * q) + r /\ a \div PAGE_SIZE = q /\ a % PAGE_SIZE = r
  BY <1>1, Quotient
<1>3. r + s <= PAGE_SIZE
  BY <1>1, <1>2, EndsInPage
<1>4. (a + d) \div PAGE_SIZE = q
  <2>1. r + d \in 0 .. PAGE_SIZE - 1 /\ a + d = (PAGE_SIZE * q) + (r + d)
    BY <1>1, <1>2, <1>3
  <2> QED
    BY <1>1, <2>1, UniqueQuotient
<1>5. s = PAGE_SIZE => r = 0
  BY <1>1, <1>3
<1> QED
  BY <1>1, <1>2, <1>4, <1>5 DEF Page

\* A block smaller than a page comes from one in the same page.
LEMMA NextPagesTiled ==
  ASSUME IInv, Aligned, PagesTiled, [Next]_vars
  PROVE  PagesTiled'
<1> USE DEF At, Go
<1>1. \A b \in DOMAIN size : b \in Nat /\ size[b] \in Sizes /\ size[b] \in Nat
  BY SizesAssumption DEF IInv, TypeOK
<1>2. \A b \in Nat : PageTiled(b) => PageTiled(b)'
  <2>1. \A b \in Nat : Page(b) \in Nat
    BY SizesAssumption DEF Page
  <2>2. \A b \in Nat : \A x \in 0 .. PAGE_SIZE - 1 : Page(b) + x \in Nat
    BY <2>1, SizesAssumption
  <2>3. \A y \in Nat : Covered(y) => Covered(y)'
    BY NextCovered
  <2> QED
    BY <2>2, <2>3, Zenon DEF PageTiled, Page
<1>3. \A b \in DOMAIN size : size[b] < PAGE_SIZE => PageTiled(b)'
  BY <1>1, <1>2 DEF PagesTiled, PageTiled, Page
<1>4. SUFFICES ASSUME NEW b \in DOMAIN size', size'[b] < PAGE_SIZE
               PROVE  PageTiled(b)'
  BY DEF PagesTiled, PageTiled, Page
<1>5. CASE UNCHANGED size
  BY <1>3, <1>4, <1>5
<1>6. ASSUME NEW t \in Threads, ExtendHeap(t)
      PROVE  PageTiled(b)'
  <2> DEFINE n == RoundToPage(Needed(t))
  <2>1. n >= PAGE_SIZE /\ n \in Nat
    BY <1>6, NeededIsASize, RoundToPageHolds, SizesAssumption
       DEF ExtendHeap, IInv, CallsInOrder
  <2>2. /\ b \in DOMAIN size \cup {NewBlock}
        /\ size'[b] = IF b = NewBlock THEN n ELSE size[b]
    BY <1>6 DEF ExtendHeap
  <2> HIDE DEF n
  <2>3. b # NewBlock
    <3>1. b = NewBlock => n < PAGE_SIZE
      BY <1>4, <2>2
    <3> QED
      BY <2>1, <3>1, SizesAssumption
  <2>4. b \in DOMAIN size /\ size[b] < PAGE_SIZE
    BY <1>4, <2>2, <2>3
  <2> QED
    BY <1>3, <2>4
<1>7. ASSUME NEW t \in Threads, Split(t)
      PROVE  PageTiled(b)'
  <2>1. PICK left \in DOMAIN size, half \in Sizes :
          /\ half \in Nat \ {0} /\ size[left] = half + half
          /\ b \in DOMAIN size \cup {left + half}
          /\ size'[b] = IF b \in {left, left + half} THEN half ELSE size[b]
    <3>1. /\ node[t] \in DOMAIN size /\ query[t] \in Queries
          /\ size[node[t]] > Needed(t) /\ size[node[t]] \in Sizes
      BY <1>1, <1>7 DEF Split, IInv, CallsInOrder, TypeOK
    <3> DEFINE half == size[node[t]] \div 2
    <3>2. half \in Nat \ {0} /\ half \in Sizes /\ size[node[t]] = half + half
      BY <3>1, NeededIsASize, HalfStillFits
    <3>3. /\ b \in DOMAIN size \cup {node[t] + half}
          /\ size'[b] = IF b \in {node[t], node[t] + half} THEN half ELSE size[b]
      BY <1>7 DEF Split
    <3> HIDE DEF half
    <3> QED
      BY <3>1, <3>2, <3>3
  <2>2. left \in Nat /\ size[left] \in Sizes /\ fault = "none" /\ PAGE_SIZE \in Nat \ {0}
    BY <1>1, <1>7, SizesAssumption DEF Split
  <2>3. CASE b \notin {left, left + half}
    BY <1>3, <1>4, <2>1, <2>3
  <2>4. CASE b \in {left, left + half}
    <3>1. half < PAGE_SIZE
      BY <1>4, <2>1, <2>4
    <3>2. size[left] <= PAGE_SIZE
      BY <2>1, <2>2, <3>1, PageDivides
    <3>3. left % size[left] = 0
      BY <2>2, <3>2 DEF Aligned
    <3>4. /\ Page(left + half) = Page(left)
          /\ size[left] = PAGE_SIZE => Page(left) = left
      <4>1. half \in 0 .. size[left] - 1
        BY <2>1
      <4> QED
        BY <2>2, <3>2, <3>3, <4>1, InOnePage
    <3>5. PageTiled(left)
      <4>1. CASE size[left] < PAGE_SIZE
        BY <4>1 DEF PagesTiled, PageTiled, Page
      <4>2. CASE size[left] = PAGE_SIZE
        <5>1. \A x \in 0 .. PAGE_SIZE - 1 :
                left <= left + x /\ left + x < left + size[left]
          BY <2>2, <4>2
        <5> QED
          BY <3>4, <4>2, <5>1 DEF PageTiled, Covered
      <4> QED
        BY <1>1, <2>2, <3>2, <4>1, <4>2
    <3>6. PageTiled(left)'
      BY <1>2, <2>2, <3>5
    <3> QED
      BY <2>4, <3>4, <3>6 DEF PageTiled
  <2> QED
    BY <2>3, <2>4
<1>8. ASSUME NEW t \in Threads, Unite(t)
      PROVE  PageTiled(b)'
  <2>1. PICK left, right \in DOMAIN size :
           /\ DOMAIN size' = DOMAIN size \ {right}
           /\ size'[left] = 2 * size[left]
           /\ \A c \in DOMAIN size \ {left, right} : size'[c] = size[c]
    BY <1>8, UniteFacts
  <2>2. b \in DOMAIN size /\ size[b] < PAGE_SIZE
    BY <1>1, <1>4, <2>1, SizesAssumption
  <2> QED
    BY <1>3, <2>2
<1> QED
  BY <1>5, <1>6, <1>7, <1>8
     DEF Next, Step, vars, heap, MallocCall, FreeCall, MallocLock, FirstFit,
         ReadBreak, OutOfMemory, Take, FreeLock, Insert, InsertIntoEmptyList,
         NoBuddy, FindBuddyReturn, ForeignSbrk
------------------------------------------------------------------------------
\* Halves are merged.

\* A call at the point where it splits or merges blocks a and b.
AtWork(t, a, b) == \/ pc[t] = "m_fit" /\ node[t] = a
                   \/ pc[t] = "f_buddy" /\ node[t] \in {a, b}

\* A thread that is past the lock, and neither splits nor merges, finds no
\* halves side by side.
LEMMA AloneCoalesced ==
  ASSUME IInv, CoalescedBut, NEW t \in Threads, pc[t] \in Critical,
         NEW a \in free, NEW b \in free, Halves(a, b)
  PROVE  AtWork(t, a, b)
<1>1. PICK u \in Threads : AtWork(u, a, b)
  BY DEF CoalescedBut, AtWork
<1> QED
  BY <1>1, OthersOutside DEF AtWork

\* find_buddy of a half finds the other one, and agrees to merge.
LEMMA HalvesAreBuddies ==
  ASSUME IInv, Aligned, fault = "none",
         NEW a \in free, NEW b \in free, Halves(a, b)
  PROVE  Mergeable(a) /\ Mergeable(b)
<1>1. /\ a \in Nat /\ b \in Nat /\ size[a] \in Sizes /\ size[a] \in Nat \ {0}
      /\ PAGE_SIZE \in Nat \ {0} /\ 2 * size[a] <= PAGE_SIZE
      /\ a \in DOMAIN size /\ b \in DOMAIN size
      /\ b = a + size[a] /\ size[b] = size[a] /\ a % (2 * size[a]) = 0
  BY SizesAssumption DEF IInv, TypeOK, Halves
<1> DEFINE s == size[a]
<1>2. PAGE_SIZE % (2 * s) = 0 /\ s < PAGE_SIZE /\ 2 * s \in Nat \ {0}
  <2>1. s < PAGE_SIZE
    BY <1>1
  <2> QED
    BY <1>1, <2>1, PageDivides
<1>3. b % (2 * s) = s
  BY <1>1, Half
<1>4. (a % PAGE_SIZE) % (2 * s) = 0 /\ (b % PAGE_SIZE) % (2 * s) = s
  <2> HIDE DEF s
  <2>1. (a % PAGE_SIZE) % (2 * s) = a % (2 * s)
    BY <1>1, <1>2, OffsetRest
  <2>2. (b % PAGE_SIZE) % (2 * s) = b % (2 * s)
    BY <1>1, <1>2, OffsetRest
  <2> QED
    BY <1>1, <1>3, <2>1, <2>2 DEF s
<1>5. BuddyOf(a) = b
  BY <1>1, <1>4 DEF BuddyOf
<1>6. BuddyOf(b) = a
  <2>1. BuddyOf(b) = b - size[b]
    BY <1>1, <1>4 DEF BuddyOf
  <2> QED
    BY <1>1, <2>1
<1> QED
  BY <1>1, <1>2, <1>5, <1>6 DEF Mergeable

\* Halves come to lie side by side on the list by the split or the insertion
\* that works on one of them, and it goes on until one is taken or both merged.
LEMMA NextCoalesced ==
  ASSUME IInv, Aligned, CoalescedBut, [Next]_vars
  PROVE  CoalescedBut'
<1> USE DEF At, Go
<1>1. /\ \A b \in DOMAIN size : b \in Nat /\ size[b] \in Sizes /\ size[b] \in Nat \ {0}
      /\ free \subseteq DOMAIN size /\ PAGE_SIZE \in Nat \ {0}
  BY SizesAssumption DEF IInv, TypeOK
<1>2. SUFFICES ASSUME NEW a \in free', NEW b \in free', Halves(a, b)'
               PROVE  \E t \in Threads : AtWork(t, a, b)'
  BY DEF CoalescedBut, AtWork
<1>3. ASSUME a \in free, b \in free, Halves(a, b),
             \A t \in Threads : pc[t] \in {"m_fit", "f_buddy"} =>
               pc'[t] = pc[t] /\ node'[t] = node[t]
      PROVE  \E t \in Threads : AtWork(t, a, b)'
  BY <1>3 DEF CoalescedBut, AtWork
<1>4. CASE UNCHANGED <<size, free, pc, node>>
  BY <1>2, <1>3, <1>4 DEF Halves
<1>5. ASSUME NEW t \in Threads,
             \/ \E q \in Queries : MallocCall(t, q)
             \/ \E c \in DOMAIN live : FreeCall(t, c)
             \/ MallocLock(t) \/ FirstFit(t) \/ ReadBreak(t) \/ OutOfMemory(t)
             \/ FreeLock(t) \/ FindBuddyReturn(t)
      PROVE  \E u \in Threads : AtWork(u, a, b)'
  <2>1. UNCHANGED <<size, free>>
    BY <1>5 DEF MallocCall, FreeCall, MallocLock, FirstFit, ReadBreak, OutOfMemory,
                FreeLock, FindBuddyReturn, heap
  <2>2. \A u \in Threads : pc[u] \in {"m_fit", "f_buddy"} =>
               pc'[u] = pc[u] /\ node'[u] = node[u]
    BY <1>5 DEF MallocCall, FreeCall, MallocLock, FirstFit, ReadBreak, OutOfMemory,
                FreeLock, FindBuddyReturn, heap, IInv, TypeOK
  <2> QED
    BY <1>2, <1>3, <2>1, <2>2 DEF Halves
<1>6. ASSUME NEW t \in Threads, ExtendHeap(t)
      PROVE  \E u \in Threads : AtWork(u, a, b)'
  <2> DEFINE n == RoundToPage(Needed(t))
  <2>1. n >= PAGE_SIZE /\ n \in Nat /\ pc[t] = "m_sbrk"
    BY <1>6, NeededIsASize, RoundToPageHolds, SizesAssumption
       DEF ExtendHeap, IInv, CallsInOrder
  <2>2. /\ \A c \in DOMAIN size' : size'[c] = IF c = NewBlock THEN n ELSE size[c]
        /\ free' \subseteq free \cup {NewBlock}
        /\ DOMAIN size' = DOMAIN size \cup {NewBlock}
    BY <1>6 DEF ExtendHeap, LinkNewBlock, Connect
  <2> HIDE DEF n
  <2>3. /\ size'[a] = IF a = NewBlock THEN n ELSE size[a]
        /\ size'[b] = IF b = NewBlock THEN n ELSE size[b]
    BY <1>1, <2>2
  <2>4. size'[a] = size'[b] /\ 2 * size'[a] <= PAGE_SIZE
    BY <1>2 DEF Halves
  <2>5. a # NewBlock /\ b # NewBlock
    BY <1>1, <2>1, <2>3, <2>4
  <2>6. a \in free /\ b \in free /\ Halves(a, b)
    BY <1>2, <2>2, <2>3, <2>5 DEF Halves
  <2> QED
    BY <2>1, <2>6, AloneCoalesced DEF Critical, AtWork
<1>7. ASSUME NEW t \in Threads, Split(t)
      PROVE  \E u \in Threads : AtWork(u, a, b)'
  <2>1. PICK left \in free, half \in Sizes :
          /\ half \in Nat \ {0} /\ size[left] = half + half /\ left = node[t]
          /\ \A c \in DOMAIN size' :
               size'[c] = IF c \in {left, left + half} THEN half ELSE size[c]
          /\ free' = free \cup {left + half}
          /\ DOMAIN size' = DOMAIN size \cup {left + half}
          /\ UNCHANGED <<pc, node, fault>>
    <3>1. /\ node[t] \in free /\ node[t] \in DOMAIN size /\ query[t] \in Queries
          /\ size[node[t]] > Needed(t) /\ size[node[t]] \in Sizes
      BY <1>1, <1>7 DEF Split, IInv, CallsInOrder, TypeOK
    <3> DEFINE half == size[node[t]] \div 2
    <3>2. half \in Nat \ {0} /\ half \in Sizes /\ size[node[t]] = half + half
      BY <3>1, NeededIsASize, HalfStillFits
    <3>3. /\ \A c \in DOMAIN size' :
               size'[c] = IF c \in {node[t], node[t] + half} THEN half ELSE size[c]
          /\ free' = free \cup {node[t] + half}
          /\ DOMAIN size' = DOMAIN size \cup {node[t] + half}
          /\ UNCHANGED <<pc, node, fault>>
      BY <1>7 DEF Split, Connect
    <3> HIDE DEF half
    <3> QED
      BY <3>1, <3>2, <3>3
  <2>2. pc[t] = "m_fit" /\ pc'[t] = "m_fit" /\ node'[t] = left /\ fault = "none"
    BY <1>7, <2>1 DEF Split
  <2> DEFINE right == left + half
  <2>3. left \in Nat /\ right \in Nat /\ left \in DOMAIN size
    BY <1>1, <2>1
  <2>4. CASE a = left
    BY <2>2, <2>4 DEF AtWork
  <2>5. CASE a \notin {left, right} /\ b \notin {left, right}
    <3>1. a \in free /\ b \in free /\ size'[a] = size[a] /\ size'[b] = size[b]
      BY <1>1, <2>1, <2>5
    <3>2. Halves(a, b)
      BY <1>2, <3>1 DEF Halves
    <3>3. a = left
      BY <2>1, <2>2, <3>1, <3>2, AloneCoalesced DEF Critical, AtWork
    <3> QED
      BY <2>5, <3>3
  <2>6. CASE a = right \/ b = left \/ (b = right /\ a # left)
    <3>1. /\ a \in DOMAIN size \cup {right} /\ a \in Nat /\ b \in Nat
          /\ size'[a] = IF a \in {left, right} THEN half ELSE size[a]
          /\ size'[b] = IF b \in {left, right} THEN half ELSE size[b]
          /\ b = a + size'[a] /\ size'[b] = size'[a]
          /\ 2 * size'[a] <= PAGE_SIZE /\ a % (2 * size'[a]) = 0
      BY <1>1, <1>2, <2>1, <2>3 DEF Halves
    <3>2. /\ size'[a] = half /\ 2 * half <= PAGE_SIZE /\ a % (2 * half) = 0
          /\ b = a + half
      BY <2>6, <3>1
    <3>3. left % (2 * half) = 0
      <4>1. size[left] = 2 * half
        BY <2>1
      <4> QED
        BY <1>1, <2>1, <2>2, <2>3, <3>2, <4>1 DEF Aligned
    <3>4. (left + half) % (2 * half) = half /\ (a + half) % (2 * half) = half
      BY <2>1, <2>3, <3>1, <3>2, <3>3, Half
    <3>5. b # left /\ a # right
      BY <2>1, <3>2, <3>3, <3>4
    <3>6. b = right => a = left
      <4>1. /\ a \in Nat /\ half \in Nat /\ left \in Nat
            /\ b = a + half
        BY <2>1, <2>3, <3>1, <3>2
      <4> QED
        BY <4>1
    <3> QED
      BY <2>6, <3>5, <3>6
  <2> QED
    BY <2>4, <2>5, <2>6
<1>8. ASSUME NEW t \in Threads, Take(t)
      PROVE  \E u \in Threads : AtWork(u, a, b)'
  <2>1. /\ pc[t] = "m_fit" /\ free' = free \ {node[t]} /\ UNCHANGED size
    BY <1>8 DEF Take, Unlink
  <2>2. a \in free /\ b \in free /\ Halves(a, b)
    BY <1>2, <2>1 DEF Halves
  <2>3. a = node[t]
    BY <2>1, <2>2, AloneCoalesced DEF Critical, AtWork
  <2> QED
    BY <2>1, <2>3
<1>9. ASSUME NEW t \in Threads, Insert(t)
      PROVE  \E u \in Threads : AtWork(u, a, b)'
  <2>1. /\ pc[t] = "f_insert" /\ pc'[t] = "f_buddy" /\ node'[t] = node[t]
        /\ free' = free \cup {node[t]} /\ UNCHANGED size
    BY <1>9 DEF Insert, Connect, IInv, TypeOK
  <2>2. CASE node[t] \in {a, b}
    BY <2>1, <2>2 DEF AtWork
  <2>3. CASE node[t] \notin {a, b}
    <3>1. a \in free /\ b \in free /\ Halves(a, b)
      BY <1>2, <2>1, <2>3 DEF Halves
    <3> QED
      BY <2>1, <3>1, AloneCoalesced DEF Critical, AtWork
  <2> QED
    BY <2>2, <2>3
<1>10. ASSUME NEW t \in Threads, Unite(t)
      PROVE  \E u \in Threads : AtWork(u, a, b)'
  <2>1. PICK left, right \in DOMAIN size :
           /\ node[t] \in {left, right}
           /\ DOMAIN size' = DOMAIN size \ {right}
           /\ \A c \in DOMAIN size \ {left, right} : size'[c] = size[c]
           /\ free' = free \ {right}
           /\ node' = [node EXCEPT ![t] = left]
    BY <1>10, UniteFacts
  <2>2. pc[t] = "f_buddy" /\ pc'[t] = "f_buddy" /\ node'[t] = left
    BY <1>10, <2>1 DEF Unite, IInv, TypeOK
  <2>3. CASE left \in {a, b}
    BY <2>2, <2>3 DEF AtWork
  <2>4. CASE left \notin {a, b}
    <3>1. a \in free /\ b \in free /\ Halves(a, b) /\ {a, b} \cap {left, right} = {}
      BY <1>1, <1>2, <2>1, <2>4 DEF Halves
    <3> QED
      BY <2>1, <2>2, <3>1, AloneCoalesced DEF Critical, AtWork
  <2> QED
    BY <2>3, <2>4
<1>11. ASSUME NEW t \in Threads, NoBuddy(t)
      PROVE  \E u \in Threads : AtWork(u, a, b)'
  <2>1. /\ pc[t] = "f_buddy" /\ fault = "none" /\ ~ Mergeable(node[t])
        /\ UNCHANGED <<size, free>>
    BY <1>11 DEF NoBuddy, heap
  <2>2. a \in free /\ b \in free /\ Halves(a, b)
    BY <1>2, <2>1 DEF Halves
  <2>3. node[t] \in {a, b}
    BY <2>1, <2>2, AloneCoalesced DEF Critical, AtWork
  <2> QED
    BY <2>1, <2>2, <2>3, HalvesAreBuddies
<1> QED
  BY <1>4, <1>5, <1>6, <1>7, <1>8, <1>9, <1>10, <1>11
     DEF Next, Step, vars, heap, InsertIntoEmptyList, ForeignSbrk

------------------------------------------------------------------------------
Layout == Aligned /\ PagesTiled /\ CoalescedBut

\* The three hold in every state, on top of the invariant of BuddyHeapProofs.
LEMMA LayoutInvariance == Spec => [](IInv /\ Layout)
<1>1. Init => Layout
  BY DEF Init, Layout, Aligned, PagesTiled, CoalescedBut
<1>2. IInv /\ Layout /\ [Next]_vars => Layout'
  BY NextAligned, NextPagesTiled, NextCoalesced DEF Layout
<1> QED
  BY <1>1, <1>2, Invariance, PTL DEF Spec

\* However splits and merges follow each other, the blocks that share a page
\* leave no hole in it.
THEOREM PagesStayTiled == Spec => []PagesTiled
BY LayoutInvariance, PTL DEF Layout

\* Whenever no call holds the lock, every merge that find_buddy could make has
\* been made.
THEOREM HalvesAreMerged == Spec => []Coalesced
<1>1. IInv /\ Layout => Coalesced
  BY ConstantsAssumption
     DEF Layout, IInv, CoalescedBut, Coalesced, MutualExclusion, Critical
<1> QED
  BY <1>1, LayoutInvariance, PTL

------------------------------------------------------------------------------
(* The lock is given up.                                                    *)
(*                                                                          *)
(* LockReleased without the scheduler: while a thread owns malloc_lock, a   *)
(* number goes down with each of its steps, and nobody makes it go up.      *)

\* A bound on the steps a call has left before its first unlock: the search, the
\* two calls of sbrk, then the halves of the block it found, or the merges that a page has room for.
StepsToUnlock(t) ==
  CASE pc[t] = "m_search" -> HeapLimit + 2
    [] pc[t] = "m_sbrk"   -> HeapLimit + 1
    [] pc[t] = "m_fit"    -> size[node[t]]
    [] pc[t] = "f_insert" -> PAGE_SIZE + 2
    [] pc[t] = "f_buddy"  ->
         1 + (IF size[node[t]] < PAGE_SIZE THEN PAGE_SIZE - size[node[t]] ELSE 0)
    [] OTHER              -> 0

\* The kernel has given the memory that the blocks lie in, and the owner of the
\* lock is inside its critical section or about to unlock.
OwnerWorks ==
  /\ DOMAIN size # {} => brk <= HeapLimit
  /\ \A t \in Threads : malloc_lock = t => pc[t] \in Critical \cup {"f_unlock"}

\* A step of a call that keeps the lock brings the owner closer to its unlock.
GetsCloser(t) ==
  malloc_lock = t /\ malloc_lock' = t /\ fault' = "none" =>
    /\ StepsToUnlock(t)' <= StepsToUnlock(t)
    /\ Step(t) => StepsToUnlock(t)' < StepsToUnlock(t)

\* The bound is a number, and one of every block in the heap.
LEMMA StepsAreNumbers ==
  ASSUME IInv, OwnerWorks
  PROVE  /\ \A b \in DOMAIN size : size[b] \in Nat \ {0} /\ size[b] <= HeapLimit
         /\ \A t \in Threads : malloc_lock = t => StepsToUnlock(t) \in Nat
<1>1. HeapLimit \in Nat /\ PAGE_SIZE \in Nat
  BY SizesAssumption, ConstantsAssumption
<1>2. ASSUME NEW b \in DOMAIN size
      PROVE  size[b] \in Nat \ {0} /\ size[b] <= HeapLimit
  <2>1. b \in Nat /\ size[b] \in Nat \ {0} /\ brk \in Nat
    BY SizesAssumption DEF IInv, TypeOK
  <2>2. b + size[b] <= brk /\ brk <= HeapLimit
    BY DEF IInv, BlocksApart, OwnerWorks
  <2> QED
    BY <1>1, <2>1, <2>2
<1>3. ASSUME NEW t \in Threads, malloc_lock = t
      PROVE  StepsToUnlock(t) \in Nat
  <2>1. pc[t] \in {"m_fit", "f_buddy"} => node[t] \in DOMAIN size
    BY DEF IInv, TypeOK, CallsInOrder
  <2>2. pc[t] \in {"m_fit", "f_buddy"} => size[node[t]] \in Nat
    BY <1>2, <2>1
  <2>3. pc[t] \in {"m_search", "m_sbrk", "m_fit", "f_insert", "f_buddy", "f_unlock"}
    BY <1>3 DEF OwnerWorks, Critical
  <2> QED
    BY <1>1, <2>2, <2>3 DEF StepsToUnlock
<1> QED
  BY <1>2, <1>3

\* Every step keeps the owner at work in memory that the kernel has given.
LEMMA NextOwnerWorks == IInv /\ OwnerWorks /\ [Next]_vars => OwnerWorks'
<1> SUFFICES ASSUME IInv, OwnerWorks, [Next]_vars PROVE OwnerWorks'
  OBVIOUS
<1> USE DEF At, Go, heap
<1>1. CASE UNCHANGED vars
  BY <1>1 DEF vars, OwnerWorks
<1>2. ASSUME NEW t \in Threads,
             (\E q \in Queries : MallocCall(t, q)) \/ (\E b \in DOMAIN live : FreeCall(t, b))
      PROVE  OwnerWorks'
  BY <1>2 DEF MallocCall, FreeCall, OwnerWorks, IInv, TypeOK, Critical
<1>3. ASSUME NEW t \in Threads, Step(t)
      PROVE  OwnerWorks'
  <2> USE DEF OwnerWorks
  <2>1. CASE MallocLock(t) \/ FreeLock(t)
    BY <2>1, ConstantsAssumption DEF MallocLock, FreeLock, Lock, IInv, TypeOK, Critical
  <2>2. CASE FirstFit(t) \/ ReadBreak(t)
    BY <2>2 DEF FirstFit, ReadBreak, IInv, TypeOK, Critical
  <2>3. CASE OutOfMemory(t) \/ FindBuddyReturn(t)
    <3>1. malloc_lock' = IF malloc_lock = t THEN NoThread ELSE malloc_lock
      BY <2>3 DEF OutOfMemory, FindBuddyReturn, Unlock
    <3>2. \A u \in Threads \ {t} : pc'[u] = pc[u]
      BY <2>3 DEF OutOfMemory, FindBuddyReturn, IInv, TypeOK
    <3>3. UNCHANGED <<size, brk>>
      BY <2>3 DEF OutOfMemory, FindBuddyReturn
    <3> QED
      BY <3>1, <3>2, <3>3, ConstantsAssumption
  <2>4. CASE ExtendHeap(t)
    <3>1. brk' <= HeapLimit /\ malloc_lock' = malloc_lock
      BY <2>4 DEF ExtendHeap
    <3>2. pc' = pc \/ pc' = [pc EXCEPT ![t] = "m_fit"]
      BY <2>4 DEF ExtendHeap, LinkNewBlock
    <3> QED
      BY <3>1, <3>2 DEF IInv, TypeOK, Critical
  <2>5. CASE Split(t) \/ Unite(t)
    <3>1. node[t] \in DOMAIN size
      BY <2>5 DEF Split, Unite, IInv, TypeOK, CallsInOrder
    <3>2. UNCHANGED <<brk, malloc_lock, pc>>
      BY <2>5 DEF Split, Unite
    <3> QED
      BY <3>1, <3>2
  <2>6. CASE Take(t)
    <3>1. /\ malloc_lock' = IF malloc_lock = t THEN NoThread ELSE malloc_lock
          /\ UNCHANGED <<size, brk>>
      BY <2>6 DEF Take, Unlock
    <3>2. \A u \in Threads \ {t} : pc'[u] = pc[u]
      BY <2>6 DEF Take, IInv, TypeOK
    <3> QED
      BY <3>1, <3>2, ConstantsAssumption
  <2>7. CASE Insert(t) \/ NoBuddy(t) \/ InsertIntoEmptyList(t)
    BY <2>7 DEF Insert, NoBuddy, InsertIntoEmptyList, IInv, TypeOK, Critical
  <2> QED
    BY <1>3, <2>1, <2>2, <2>3, <2>4, <2>5, <2>6, <2>7 DEF Step
<1>4. ASSUME NEW n \in Bumps, ForeignSbrk(n)
      PROVE  OwnerWorks'
  BY <1>4 DEF ForeignSbrk, OwnerWorks
<1> QED
  BY <1>1, <1>2, <1>3, <1>4 DEF Next

\* A step of the owner lowers its number.
LEMMA OwnStepGetsCloser ==
  ASSUME IInv, OwnerWorks, NEW t \in Threads, Step(t),
         malloc_lock = t, malloc_lock' = t, fault' = "none"
  PROVE  StepsToUnlock(t)' < StepsToUnlock(t)
<1> USE DEF At, Go, heap
<1>1. /\ HeapLimit \in Nat /\ PAGE_SIZE \in Nat \ {0} /\ t # NoThread
      /\ Sizes \subseteq Nat \ {0}
  BY SizesAssumption, ConstantsAssumption
<1>2. \A b \in DOMAIN size : size[b] \in Nat \ {0} /\ size[b] <= HeapLimit
  BY StepsAreNumbers
<1>3. pc \in [Threads -> {"idle", "m_lock", "m_search", "m_sbrk", "m_fit",
                          "f_lock", "f_insert", "f_buddy", "f_unlock"}]
      /\ node \in [Threads -> DOMAIN size \cup {0}]
  BY DEF IInv, TypeOK
<1>4. CASE FirstFit(t)
  <2>1. PICK b \in free : node' = [node EXCEPT ![t] = b]
    BY <1>4 DEF FirstFit, Fitting
  <2>2. b \in DOMAIN size
    BY DEF IInv, TypeOK
  <2>3. pc[t] = "m_search" /\ pc'[t] = "m_fit" /\ node'[t] = b /\ size' = size
    BY <1>3, <1>4, <2>1 DEF FirstFit
  <2>4. StepsToUnlock(t) = HeapLimit + 2 /\ StepsToUnlock(t)' = size[b]
    BY <2>3 DEF StepsToUnlock
  <2> QED
    BY <1>1, <1>2, <2>2, <2>4
<1>5. CASE ExtendHeap(t)
  <2>1. /\ pc[t] = "m_sbrk" /\ query[t] \in Queries
        /\ brk \in Nat /\ white_space \in Nat
    BY <1>5 DEF ExtendHeap, IInv, CallsInOrder, TypeOK
  <2>2. PICK n, b : n = RoundToPage(Needed(t)) /\ b = NewBlock
    OBVIOUS
  <2>3. n \in Nat /\ b \in Nat /\ b + n <= NewBrk(t) /\ NewBrk(t) \in Nat
    BY <1>1, <2>1, <2>2, NewBlockInNewMemory
  <2>4. n <= HeapLimit
    BY <1>1, <1>5, <2>3 DEF ExtendHeap
  <2>5. size'[b] = n
    BY <1>5, <2>2 DEF ExtendHeap
  <2>6. NewBlock % PAGE_SIZE = 0
    BY <1>5 DEF ExtendHeap
  <2>7. node'[t] = b /\ pc'[t] = "m_fit"
    BY <1>3, <1>5, <2>2, <2>6 DEF ExtendHeap, LinkNewBlock
  <2>8. StepsToUnlock(t) = HeapLimit + 1 /\ StepsToUnlock(t)' = n
    BY <2>1, <2>5, <2>7 DEF StepsToUnlock
  <2> QED
    BY <1>1, <2>3, <2>4, <2>8
<1>6. CASE Split(t)
  <2>1. PICK b : b = node[t]
    OBVIOUS
  <2>2. b \in DOMAIN size /\ size[b] \in Sizes /\ query[t] \in Queries
    BY <1>6, <2>1 DEF Split, IInv, TypeOK, CallsInOrder
  <2>3. size[b] > Needed(t) /\ size'[b] = size[b] \div 2
        /\ pc[t] = "m_fit" /\ pc' = pc /\ node'[t] = b
    BY <1>6, <2>1, <2>2 DEF Split
  <2>4. PICK h : h = size[b] \div 2
    OBVIOUS
  <2>5. h \in Nat \ {0} /\ size[b] = h + h
    BY <2>2, <2>3, <2>4, NeededIsASize, HalfStillFits
  <2>6. StepsToUnlock(t) = size[b] /\ StepsToUnlock(t)' = h
    BY <2>1, <2>3, <2>4 DEF StepsToUnlock
  <2> QED
    BY <2>5, <2>6
<1>7. CASE Insert(t)
  <2>1. pc[t] = "f_insert" /\ pc'[t] = "f_buddy" /\ node' = node /\ size' = size
    BY <1>3, <1>7 DEF Insert
  <2>2. PICK s : s = size[node[t]]
    OBVIOUS
  <2>3. s \in Nat \ {0}
    BY <1>2, <2>1, <2>2 DEF IInv, TypeOK, CallsInOrder
  <2>4. /\ StepsToUnlock(t) = PAGE_SIZE + 2
        /\ StepsToUnlock(t)' = 1 + (IF s < PAGE_SIZE THEN PAGE_SIZE - s ELSE 0)
    BY <2>1, <2>2 DEF StepsToUnlock
  <2> QED
    BY <1>1, <2>3, <2>4
<1>8. CASE Unite(t)
  <2>1. PICK left, right \in DOMAIN size :
              /\ node[t] \in {left, right} /\ size[right] = size[left]
              /\ size'[left] = 2 * size[left]
              /\ node' = [node EXCEPT ![t] = left]
    BY <1>8, UniteFacts
  <2>2. PICK s : s = size[left]
    OBVIOUS
  <2>3. size[node[t]] = s /\ s \in Nat \ {0} /\ size'[node'[t]] = 2 * s
    BY <1>2, <1>3, <2>1, <2>2
  <2>4. pc[t] = "f_buddy" /\ pc' = pc /\ s < PAGE_SIZE
    BY <1>8, <2>3 DEF Unite, Mergeable
  <2>5. /\ StepsToUnlock(t) = 1 + (PAGE_SIZE - s)
        /\ StepsToUnlock(t)' = 1 + (IF 2 * s < PAGE_SIZE THEN PAGE_SIZE - 2 * s ELSE 0)
    BY <2>3, <2>4 DEF StepsToUnlock
  <2> QED
    BY <1>1, <2>3, <2>4, <2>5
<1>9. CASE NoBuddy(t)
  <2>1. pc[t] = "f_buddy" /\ pc'[t] = "f_unlock" /\ node[t] \in DOMAIN size
    BY <1>3, <1>9 DEF NoBuddy, IInv, TypeOK, CallsInOrder
  <2>2. PICK s : s = size[node[t]]
    OBVIOUS
  <2>3. s \in Nat
    BY <1>2, <2>1, <2>2
  <2>4. /\ StepsToUnlock(t) = 1 + (IF s < PAGE_SIZE THEN PAGE_SIZE - s ELSE 0)
        /\ StepsToUnlock(t)' = 0
    BY <2>1, <2>2 DEF StepsToUnlock
  <2> QED
    BY <1>1, <2>3, <2>4
<1>10. ~ (MallocLock(t) \/ FreeLock(t) \/ InsertIntoEmptyList(t))
  BY <1>1 DEF MallocLock, FreeLock, Lock, InsertIntoEmptyList
<1>11. ~ (OutOfMemory(t) \/ Take(t) \/ FindBuddyReturn(t))
  BY <1>1 DEF OutOfMemory, Take, FindBuddyReturn, Unlock
<1>12. CASE ReadBreak(t)
  <2>1. pc[t] = "m_search" /\ pc'[t] = "m_sbrk"
    BY <1>3, <1>12 DEF ReadBreak
  <2>2. StepsToUnlock(t) = HeapLimit + 2 /\ StepsToUnlock(t)' = HeapLimit + 1
    BY <2>1 DEF StepsToUnlock
  <2> QED
    BY <1>1, <2>2
<1> QED
  BY <1>4, <1>5, <1>6, <1>7, <1>8, <1>9, <1>10, <1>11, <1>12 DEF Step

\* What the others do meanwhile leaves the owner's call and its block alone.
LEMMA OthersLeaveTheOwner ==
  ASSUME IInv, OwnerWorks, [Next]_vars, NEW t \in Threads, ~ Step(t),
         malloc_lock = t, malloc_lock' = t
  PROVE  StepsToUnlock(t)' = StepsToUnlock(t)
<1> USE DEF At, Go, heap
<1> SUFFICES pc'[t] = pc[t] /\ node'[t] = node[t] /\ size' = size
  BY DEF StepsToUnlock
<1>1. pc[t] \in Critical \cup {"f_unlock"} /\ t # NoThread
  BY ConstantsAssumption DEF OwnerWorks
<1>2. ASSUME NEW u \in Threads, Step(u)
      PROVE  pc'[t] = pc[t] /\ node'[t] = node[t] /\ size' = size
  <2>1. u # t /\ pc[u] \notin Critical
    BY <1>2 DEF IInv, MutualExclusion
  <2>2. FindBuddyReturn(u)
    BY <1>1, <1>2, <2>1
       DEF Step, MallocLock, FirstFit, ReadBreak, ExtendHeap, OutOfMemory, Split,
           Take, FreeLock, Insert, InsertIntoEmptyList, Unite, NoBuddy, Lock, Critical
  <2> QED
    BY <2>1, <2>2 DEF FindBuddyReturn, IInv, TypeOK
<1>3. ASSUME NEW u \in Threads,
             (\E q \in Queries : MallocCall(u, q)) \/ (\E b \in DOMAIN live : FreeCall(u, b))
      PROVE  pc'[t] = pc[t] /\ node'[t] = node[t] /\ size' = size
  <2>1. u # t
    BY <1>1, <1>3 DEF MallocCall, FreeCall, Critical
  <2> QED
    BY <1>3, <2>1 DEF MallocCall, FreeCall, IInv, TypeOK
<1> QED
  BY <1>2, <1>3 DEF Next, ForeignSbrk, vars

\* While a thread owns malloc_lock, each of its own steps lowers a number of at
\* most the heap's size or a page, and no step of another thread raises it: a
\* search, the splits and the merges come to an end, and what is left to say for
\* LockReleased is that the owner has a step and is scheduled.
THEOREM LockIsGivenUp ==
  Spec => /\ [](\A t \in Threads : malloc_lock = t => StepsToUnlock(t) \in Nat)
          /\ [][\A t \in Threads : GetsCloser(t)]_vars
<1> DEFINE Counted == \A t \in Threads : malloc_lock = t => StepsToUnlock(t) \in Nat
           Closer  == \A t \in Threads : GetsCloser(t)
<1>1. Init => OwnerWorks
  BY ConstantsAssumption DEF Init, OwnerWorks
<1>2. IInv /\ OwnerWorks => Counted
  BY StepsAreNumbers
<1>3. ASSUME IInv, OwnerWorks, [Next]_vars PROVE Closer
  <2> SUFFICES ASSUME NEW t \in Threads,
                      malloc_lock = t, malloc_lock' = t, fault' = "none"
               PROVE  /\ StepsToUnlock(t)' <= StepsToUnlock(t)
                      /\ Step(t) => StepsToUnlock(t)' < StepsToUnlock(t)
    BY DEF GetsCloser
  <2>1. StepsToUnlock(t) \in Nat /\ StepsToUnlock(t)' \in Nat
    <3>1. IInv' /\ OwnerWorks'
      BY <1>3, NextIInv, NextOwnerWorks
    <3>2. Counted
      BY <1>2, <1>3
    <3>3. (IInv /\ OwnerWorks => Counted)'
      BY <1>2, PTL
    <3> QED
      BY <3>1, <3>2, <3>3
  <2>2. CASE Step(t)
    <3>1. StepsToUnlock(t)' < StepsToUnlock(t)
      BY <1>3, <2>2, OwnStepGetsCloser
    <3> QED
      BY <2>1, <3>1
  <2>3. CASE ~ Step(t)
    <3>1. StepsToUnlock(t)' = StepsToUnlock(t)
      BY <1>3, <2>3, OthersLeaveTheOwner
    <3> QED
      BY <2>1, <2>3, <3>1
  <2> QED
    BY <2>2, <2>3
<1>4. IInv /\ OwnerWorks /\ [Next]_vars => Closer
  BY <1>3
<1> HIDE DEF Counted, Closer
<1>5. Spec => []Counted /\ [][Closer]_vars
  BY <1>1, <1>2, <1>4, Invariance, NextOwnerWorks, PTL DEF Spec
<1> QED
  BY <1>5 DEF Counted, Closer
==============================================================================
