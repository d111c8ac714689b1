------------------------------ MODULE BuddyHeap ------------------------------
(***************************************************************************)
(* The buddy allocator of hw3: malloc, free and their helpers, called by   *)
(* several threads under the one lock malloc_lock.                         *)
(*                                                                         *)
(* The memory is the map `size' from the address of every block header to  *)
(* the size in that header.  The free list of the code is linked in        *)
(* address order (free.c inserts in place, split and unite keep the order),*)
(* so it is the set `free' of the addresses on it: Head is its least       *)
(* element and the first block that fits is the least that fits.           *)
(*                                                                         *)
(* A call is cut into steps: the lock, the search, every split, every      *)
(* merge and every unlock is one step, so the steps of the threads         *)
(* interleave wherever the lock lets them.                                 *)
(***************************************************************************)
EXTENDS Integers, FiniteSetsExt

CONSTANTS
  Threads,       \* the threads of the program
  NoThread,      \* nobody holds the lock
  OVERHEAD,      \* MEM_NODE_OVERHEAD, the bytes of a header
  PAGE_SIZE,     \* sysconf(_SC_PAGESIZE)
  Sizes,         \* the block sizes: 16, 32, 64, ...
  Queries,       \* the sizes the program asks for
  Bumps,         \* bytes that code outside the allocator takes with sbrk
  HeapLimit      \* bound: the kernel refuses a break beyond it

\* n is rounded up to the least block size that holds it.
IsRoundedUp(n, s) == s >= n /\ \A r \in Sizes : r >= n => s <= r

\* Sizes is a ladder of doublings through 16 and the page: what `c *= 2' and
\* `res *= 2' reach.  The loops stop, for every request the program makes.
ASSUME SizesAssumption ==
  /\ Sizes \subseteq Nat \ {0}
  /\ 16 \in Sizes /\ PAGE_SIZE \in Sizes /\ \A s \in Sizes : s % 16 = 0
  /\ \A s, n \in Sizes : s > n => s % 2 = 0 /\ s \div 2 \in Sizes /\ s \div 2 >= n
  /\ \A s \in Sizes : s < PAGE_SIZE => 2 * s \in Sizes

ASSUME ConstantsAssumption ==
  /\ NoThread \notin Threads
  /\ OVERHEAD \in Nat \ {0} /\ HeapLimit \in Nat
  /\ Queries \subseteq Nat \ {0} /\ Bumps \subseteq Nat
  /\ \A q \in Queries : \E s \in Sizes : IsRoundedUp(q + OVERHEAD, s)

VARIABLES
  size,          \* header address |-> size of the block
  free,          \* addresses of the blocks on the free list
  live,          \* block the program holds |-> bytes it asked for
  brk,           \* the program break
  Start,         \* first block ever mapped, 0 before it
  heap_end,      \* end of the last block mapped
  malloc_lock,   \* the thread that owns the mutex, or NoThread
  pc,            \* where each thread is in its call
  node,          \* the block its call works on
  query,         \* the bytes its malloc was asked for
  white_space,   \* bytes of the last page that extend_heap has found taken
  frames,        \* find_buddy frames of its free that have not unlocked yet
  fault          \* "none", or what killed the process

heap == <<size, free, live, brk, Start, heap_end>>
vars == <<heap, malloc_lock, pc, node, query, white_space, frames, fault>>

------------------------------------------------------------------------------
(* Helpers. *)

\* round_up: the smallest block size that holds n bytes.
RoundUp(n) == CHOOSE s \in Sizes : IsRoundedUp(n, s)

\* round_to_page: the same, a page at least.
\* Variant: a block as large as the request, not a page.
NoRoundToPage(n) == n
RoundToPage(n) == IF n <= PAGE_SIZE THEN PAGE_SIZE ELSE RoundUp(n)

\* The block a request needs; variant: the header is forgotten.
NeededWithoutHeader(t) == RoundUp(query[t])
Needed(t) == RoundUp(query[t] + OVERHEAD)

\* connect: a block is linked into the list at its place.
Connect(b) == free \cup {b}

\* A block leaves the list; variant: it stays.
UnlinkNothing(b) == free
Unlink(b) == free \ {b}

\* The blocks of the list that the search would take.
Fitting(t) == {b \in free : size[b] >= Needed(t)}

\* find_buddy: the buddy lies to the left when the offset in the page is not
\* a multiple of the parent's size.
BuddyOf(b) == IF (b % PAGE_SIZE) % (2 * size[b]) # 0 THEN b - size[b]
                                                     ELSE b + size[b]

\* find_buddy and unite agree to merge: less than a page, buddy on the list
\* and of the same size.
\* Variants: the buddy may be in use; may have been split; pages are never made.
MergeableInUse(b) == /\ size[b] < PAGE_SIZE
                     /\ BuddyOf(b) \in DOMAIN size
                     /\ size[BuddyOf(b)] = size[b]
MergeableAnySize(b) == size[b] < PAGE_SIZE /\ BuddyOf(b) \in free
MergeableBelowPage(b) == /\ 2 * size[b] < PAGE_SIZE
                         /\ BuddyOf(b) \in free
                         /\ size[BuddyOf(b)] = size[b]
Mergeable(b) == /\ size[b] < PAGE_SIZE
                /\ BuddyOf(b) \in free
                /\ size[BuddyOf(b)] = size[b]

\* free takes a pointer for one of its own: in range and on a header boundary.
\* Variant: the pointer is tested, not the header.
AcceptedPointer(b) == /\ Start <= b + OVERHEAD /\ b + OVERHEAD <= heap_end
                      /\ (b + OVERHEAD) % 16 = 0
Accepted(b) == /\ Start <= b + OVERHEAD /\ b + OVERHEAD <= heap_end
               /\ b % 16 = 0

\* extend_heap: the block it carves out of what the second sbrk returned, behind
\* as many bytes as were taken of the last page at the first, sbrk(0).
NewBlock   == brk + (white_space \div OVERHEAD) * OVERHEAD
\* Variant: sbrk is asked for the block alone.
NewBrkNoGap(t) == brk + RoundToPage(Needed(t))
NewBrk(t)  == brk + RoundToPage(Needed(t)) + white_space

\* A process that has been killed takes no step.
At(t, label) == fault = "none" /\ pc[t] = label
Go(t, from, to) == At(t, from) /\ pc' = [pc EXCEPT ![t] = to]

\* pthread_mutex_lock waits for the owner; pthread_mutex_unlock of a recursive
\* mutex by a thread that does not own it fails with EPERM and changes nothing.
Lock(t)   == malloc_lock = NoThread /\ malloc_lock' = t
\* Variant: the unlock of a mutex of the default type, which asks nobody.
UnlockUnowned(t) == malloc_lock' = NoThread
Unlock(t) == malloc_lock' = IF malloc_lock = t THEN NoThread ELSE malloc_lock

------------------------------------------------------------------------------
(* malloc *)

MallocCall(t, q) ==
  /\ Go(t, "idle", "m_lock")
  /\ query' = [query EXCEPT ![t] = q]
  /\ UNCHANGED <<heap, malloc_lock, node, white_space, frames, fault>>

MallocLock(t) ==
  /\ Go(t, "m_lock", "m_search")
  /\ Lock(t)
  /\ UNCHANGED <<heap, node, query, white_space, frames, fault>>

FirstFit(t) ==
  /\ Go(t, "m_search", "m_fit")
  /\ \E b \in Fitting(t) : /\ \A c \in Fitting(t) : b <= c
                           /\ node' = [node EXCEPT ![t] = b]
  /\ UNCHANGED <<heap, malloc_lock, query, white_space, frames, fault>>

\* malloc links the new block in behind the last one, and goes on with fit.
LinkNewBlock(t) ==
  /\ free' = Connect(NewBlock)
  /\ Start' = IF Start = 0 THEN NewBlock ELSE Start
  /\ node' = [node EXCEPT ![t] = NewBlock]
  /\ pc' = [pc EXCEPT ![t] = "m_fit"]

\* No block fits: extend_heap asks where the break is.
ReadBreak(t) ==
  /\ Go(t, "m_search", "m_sbrk")
  /\ Fitting(t) = {}
  /\ white_space' = brk % PAGE_SIZE
  /\ UNCHANGED <<heap, malloc_lock, node, query, frames, fault>>

\* The second sbrk succeeds: a new block, whose address trips the assertion that
\* it is on a page boundary when other code has moved the break in between.
ExtendHeap(t) ==
  /\ At(t, "m_sbrk")
  /\ NewBrk(t) <= HeapLimit
  /\ brk' = NewBrk(t)
  /\ heap_end' = NewBlock + RoundToPage(Needed(t))
  /\ size' = [b \in DOMAIN size \cup {NewBlock} |->
                IF b = NewBlock THEN RoundToPage(Needed(t)) ELSE size[b]]
  /\ IF NewBlock % PAGE_SIZE = 0
       THEN LinkNewBlock(t) /\ UNCHANGED fault
       ELSE fault' = "assert" /\ UNCHANGED <<free, Start, node, pc>>
  /\ white_space' = 0
  /\ UNCHANGED <<live, malloc_lock, query, frames>>

\* sbrk fails: malloc unlocks and returns NULL with ENOMEM.
\* Variant: without the unlock.
OutOfMemoryLocked(t) ==
  /\ Go(t, "m_sbrk", "idle")
  /\ NewBrk(t) > HeapLimit
  /\ query' = [query EXCEPT ![t] = 0] /\ white_space' = 0
  /\ UNCHANGED <<heap, malloc_lock, node, frames, fault>>
OutOfMemory(t) ==
  /\ Go(t, "m_sbrk", "idle")
  /\ NewBrk(t) > HeapLimit
  /\ Unlock(t)
  /\ query' = [query EXCEPT ![t] = 0] /\ white_space' = 0
  /\ UNCHANGED <<heap, node, frames, fault>>

\* fit on a block that is too large: the right half becomes a block of its own
\* behind the left one, and fit goes on with the left half.
Split(t) ==
  LET left == node[t]
      half == size[left] \div 2
  IN /\ At(t, "m_fit") /\ size[left] > Needed(t)
     /\ size' = [b \in DOMAIN size \cup {left + half} |->
                   IF b \in {left, left + half} THEN half ELSE size[b]]
     /\ free' = Connect(left + half)
     /\ UNCHANGED <<live, brk, Start, heap_end,
                    malloc_lock, pc, node, query, white_space, frames, fault>>

\* fit on a block of the right size: it leaves the list and is returned.
Take(t) ==
  /\ Go(t, "m_fit", "idle")
  /\ size[node[t]] = Needed(t)
  /\ free' = Unlink(node[t])
  /\ live' = [b \in DOMAIN live \cup {node[t]} |->
                IF b = node[t] THEN query[t] ELSE live[b]]
  /\ Unlock(t)
  /\ node' = [node EXCEPT ![t] = 0]
  /\ query' = [query EXCEPT ![t] = 0]
  /\ UNCHANGED <<size, brk, Start, heap_end, white_space, frames, fault>>

------------------------------------------------------------------------------
(* free *)

\* The program passes back a block it holds.  The checks run before the lock: a
\* pointer that fails them is dropped without a word, and its block with it.
FreeCall(t, b) ==
  /\ At(t, "idle") /\ b \in DOMAIN live
  /\ live' = [c \in DOMAIN live \ {b} |-> live[c]]
  /\ IF Accepted(b)
       THEN /\ pc' = [pc EXCEPT ![t] = "f_lock"]
            /\ node' = [node EXCEPT ![t] = b]
       ELSE UNCHANGED <<pc, node>>
  /\ UNCHANGED <<size, free, brk, Start, heap_end,
                 malloc_lock, query, white_space, frames, fault>>

FreeLock(t) ==
  /\ Go(t, "f_lock", "f_insert")
  /\ Lock(t)
  /\ UNCHANGED <<heap, node, query, white_space, frames, fault>>

\* The block is linked in at its place and find_buddy is called on it.
Insert(t) ==
  /\ Go(t, "f_insert", "f_buddy")
  /\ free # {}
  /\ free' = Connect(node[t])
  /\ frames' = [frames EXCEPT ![t] = 1]
  /\ UNCHANGED <<size, live, brk, Start, heap_end,
                 malloc_lock, node, query, white_space, fault>>

\* With an empty list cur is NULL and the test `cur->offset == 0' reads it.
InsertIntoEmptyList(t) ==
  /\ At(t, "f_insert") /\ free = {}
  /\ fault' = "segv"
  /\ UNCHANGED <<heap, malloc_lock, pc, node, query, white_space, frames>>

\* The two buddies become one block at the lower address, and unite calls
\* find_buddy on it: one more frame that will unlock.
Unite(t) ==
  LET a == node[t]
      b == BuddyOf(a)
      left == IF a < b THEN a ELSE b
      right == IF a < b THEN b ELSE a
  IN /\ At(t, "f_buddy") /\ Mergeable(a)
     /\ size' = [c \in DOMAIN size \ {right} |->
                   IF c = left THEN 2 * size[a] ELSE size[c]]
     /\ free' = Unlink(right)
     /\ node' = [node EXCEPT ![t] = left]
     /\ frames' = [frames EXCEPT ![t] = @ + 1]
     /\ UNCHANGED <<live, brk, Start, heap_end, malloc_lock, pc, query, white_space, fault>>

\* Nothing left to merge: the frames return one by one.
NoBuddy(t) ==
  /\ Go(t, "f_buddy", "f_unlock")
  /\ ~Mergeable(node[t])
  /\ node' = [node EXCEPT ![t] = 0]
  /\ UNCHANGED <<heap, malloc_lock, query, white_space, frames, fault>>

\* Every find_buddy frame unlocks before it returns to the one that called it.
FindBuddyReturn(t) ==
  /\ At(t, "f_unlock") /\ frames[t] > 0
  /\ Unlock(t)
  /\ frames' = [frames EXCEPT ![t] = @ - 1]
  /\ pc' = [pc EXCEPT ![t] = IF frames[t] = 1 THEN "idle" ELSE "f_unlock"]
  /\ UNCHANGED <<heap, node, query, white_space, fault>>

------------------------------------------------------------------------------
\* Code outside the allocator moves the break.
ForeignSbrk(n) ==
  /\ fault = "none" /\ brk + n <= HeapLimit
  /\ brk' = brk + n
  /\ UNCHANGED <<size, free, live, Start, heap_end,
                 malloc_lock, pc, node, query, white_space, frames, fault>>

Init ==
  /\ size = [b \in {} |-> 0] /\ free = {} /\ live = [b \in {} |-> 0]
  /\ brk = PAGE_SIZE /\ Start = 0 /\ heap_end = 0
  /\ malloc_lock = NoThread
  /\ pc = [t \in Threads |-> "idle"]
  /\ node = [t \in Threads |-> 0]
  /\ query = [t \in Threads |-> 0]
  /\ white_space = 0
  /\ frames = [t \in Threads |-> 0]
  /\ fault = "none"

\* A step of a call that is under way.
Step(t) ==
  \/ MallocLock(t) \/ FirstFit(t) \/ ReadBreak(t) \/ ExtendHeap(t) \/ OutOfMemory(t)
  \/ Split(t) \/ Take(t)
  \/ FreeLock(t) \/ Insert(t) \/ InsertIntoEmptyList(t)
  \/ Unite(t) \/ NoBuddy(t) \/ FindBuddyReturn(t)

Next ==
  \/ \E t \in Threads : \/ \E q \in Queries : MallocCall(t, q)
                        \/ \E b \in DOMAIN live : FreeCall(t, b)
                        \/ Step(t)
  \/ \E n \in Bumps : ForeignSbrk(n)

Spec == Init /\ [][Next]_vars

\* A thread inside a call keeps being scheduled; nothing obliges a thread to
\* make a call, and the mutex promises no order among those that wait.
FairSpec == Spec /\ \A t \in Threads : WF_vars(Step(t))
------------------------------------------------------------------------------
(* Properties. *)

Critical == {"m_search", "m_sbrk", "m_fit", "f_insert", "f_buddy"}

\* The block a thread has given to free and free has not linked in yet.
InTransit(t, b) == pc[t] \in {"f_lock", "f_insert"} /\ node[t] = b

\* Every variable has its type, and every name of a block (on the list, held by
\* the program, worked on by a call) is the address of a header in memory.
TypeOK ==
  /\ DOMAIN size \subseteq Nat \ {0} /\ size \in [DOMAIN size -> Sizes]
  /\ free \subseteq DOMAIN size
  /\ DOMAIN live \subseteq DOMAIN size /\ live \in [DOMAIN live -> Queries]
  /\ brk \in Nat /\ Start \in Nat /\ heap_end \in Nat
  /\ malloc_lock \in Threads \cup {NoThread}
  /\ pc \in [Threads -> {"idle", "m_lock", "m_search", "m_sbrk", "m_fit", "f_lock",
                         "f_insert", "f_buddy", "f_unlock"}]
  /\ node \in [Threads -> DOMAIN size \cup {0}]
  /\ query \in [Threads -> Queries \cup {0}]
  /\ white_space \in Nat
  /\ frames \in [Threads -> Nat]
  /\ fault \in {"none", "segv", "assert"}

\* No two blocks share a byte and none lies beyond the break, whatever sequence
\* of splits (split) and merges (unite) made them.
BlocksApart ==
  \A a \in DOMAIN size :
    /\ a + size[a] <= brk
    /\ \A b \in DOMAIN size : a < b => a + size[a] <= b

\* A block the program holds, or is giving back, is not on the free list, is in
\* the hands of one call only, and is as large as the request it answers.
HeldBlocksOffList ==
  /\ \A b \in DOMAIN live : b \notin free /\ live[b] + OVERHEAD <= size[b]
  /\ \A t \in Threads : \A b \in DOMAIN size :
       InTransit(t, b) => /\ b \notin free /\ b \notin DOMAIN live
                          /\ \A u \in Threads \ {t} : ~InTransit(u, b)

\* Only the owner of malloc_lock is between the lock and the unlock of a call,
\* although free unlocks once per find_buddy frame, the last times without
\* owning the mutex.
MutualExclusion == \A t \in Threads : pc[t] \in Critical => malloc_lock = t

\* Byte x lies in a block.
Covered(x) == \E c \in DOMAIN size : c <= x /\ x < c + size[c]

\* The page of a block smaller than a page belongs to blocks, every byte of it:
\* splitting and merging leave no hole.
PagesTiled ==
  \A b \in DOMAIN size : size[b] < PAGE_SIZE =>
    \A x \in 0 .. PAGE_SIZE - 1 : Covered((b \div PAGE_SIZE) * PAGE_SIZE + x)

\* a and b are the two halves of one block, a page at most.
Halves(a, b) == /\ b = a + size[a] /\ size[b] = size[a]
                /\ 2 * size[a] <= PAGE_SIZE /\ a % (2 * size[a]) = 0

\* Between calls no two halves of one block below or at the page size stay free
\* side by side: every merge that could be made has been made.
Coalesced == malloc_lock = NoThread => \A a, b \in free : ~ Halves(a, b)

\* No block is lost: each is on the list, held by the program, or on its way
\* from the program to the list; no pointer that the program gives back is one
\* that free drops.
NothingLost ==
  fault = "none" =>
    \A b \in DOMAIN size : \/ b \in free \cup DOMAIN live
                           \/ \E t \in Threads : InTransit(t, b)

\* While the program holds a block, no step of any thread resizes or removes it.
HeldBlocksUntouched ==
  [][\A b \in DOMAIN live : b \in DOMAIN size' /\ size'[b] = size[b]]_vars

\* The calls keep the promise of an allocator: the bytes behind the header,
\* as many as were asked for.
Promise == INSTANCE HeapPromise WITH
  extents <- {[lo |-> b + OVERHEAD, len |-> live[b]] : b \in DOMAIN live}

KeepsPromise == Promise!Spec

\* Every path through malloc and free gives the lock up again, ENOMEM included.
LockReleased ==
  \A t \in Threads : (malloc_lock = t) ~> (malloc_lock # t \/ fault # "none")

\* free of a pointer that malloc returned never kills the process.
FreeNeverFaults == fault # "segv"
==============================================================================
