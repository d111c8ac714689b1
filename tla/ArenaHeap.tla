------------------------------ MODULE ArenaHeap ------------------------------
(***************************************************************************)
(* The allocator of hw4: every thread is bound to one of CORE_COUNT arenas *)
(* at its first malloc, each arena has its own lock, free list and         *)
(* counters, and fork takes every lock first.                              *)
(*                                                                         *)
(* A free list is a sequence, head first: make_head pushes, sink removes.  *)
(* free gives no memory back: the test of free.c:74 (x % n || x % n == 0)  *)
(* holds for every pointer, so it only counts; what follows it is dead.    *)
(*                                                                         *)
(* A call is cut where another thread can see the difference: at every     *)
(* lock and unlock, at every split, and between the load and the store of  *)
(* total_alloc_size, which no lock covers.                                 *)
(***************************************************************************)
EXTENDS Integers, SequencesExt

CONSTANTS
  Threads,      \* the threads of the process
  NoThread,     \* nobody holds the lock
  ChildThread,  \* the one thread of a forked child
  CORE_COUNT,   \* the number of arenas
  Temp,         \* temp_arena, in use until the array of arenas exists
  NoArena,      \* Arena == NULL
  OVERHEAD,     \* sizeof(MemoryNode)
  PAGE_SIZE,    \* sysconf(_SC_PAGESIZE)
  Sizes,        \* the block sizes: 16, 32, 64, ...
  Queries,      \* the sizes the program asks for
  ListBytes,    \* CORE_COUNT * sizeof(ArenaNode)
  MapLimit      \* bound: mmap hands out no address beyond it

Cores  == 0 .. CORE_COUNT - 1
Arenas == Cores \cup {Temp}

\* n is rounded up to the least block size that holds it.
IsRoundedUp(n, s) == s >= n /\ \A r \in Sizes : r >= n => s <= r

\* Sizes is a ladder of doublings through 16 and the page: what `c *= 2' and
\* `res *= 2' reach.  The loops stop, for every request the program makes.
ASSUME SizesAssumption ==
  /\ Sizes \subseteq Nat \ {0}
  /\ 16 \in Sizes /\ PAGE_SIZE \in Sizes
  /\ \A s, n \in Sizes : s > n => s % 2 = 0 /\ s \div 2 \in Sizes /\ s \div 2 >= n

ASSUME ConstantsAssumption ==
  /\ NoThread \notin Threads /\ ChildThread \notin Threads \cup {NoThread}
  /\ CORE_COUNT \in Nat \ {0} /\ Temp \notin Cores
  /\ NoArena \notin Arenas
  /\ OVERHEAD \in Nat \ {0} /\ MapLimit \in Nat
  /\ Queries \subseteq Nat /\ ListBytes \in Nat
  /\ \A q \in Queries \cup {ListBytes} : \E s \in Sizes : IsRoundedUp(q + OVERHEAD, s)

VARIABLES
  size,              \* header address |-> size of the block
  list,              \* arena |-> its free list, head first
  live,              \* block in use |-> bytes asked for
  mapped,            \* end of what mmap has handed out
  count,             \* arena |-> its counters of blocks
  lock,              \* arena |-> the thread that owns its mutex, or NoThread
  arena_list_lock,   \* the thread that owns the mutex of the array
  ArenaList,         \* the block of the array of arenas, 0 before it exists
  arena_ct,          \* arenas assigned so far
  Arena,             \* the arena of each thread
  total_alloc_size,  \* bytes mapped, as the code counts them
  seen,              \* the value of total_alloc_size a thread has loaded
  call,              \* the call a thread is in
  pc,                \* where it is in it
  query,             \* the bytes its malloc was asked for
  node,              \* the block it works on
  cursor,            \* the arena its fork handler has come to
  child,             \* the youngest child: its state and its copy of the locks
  fault              \* "none", or what killed the process

memory == <<size, list, live, mapped, count>>
roster == <<ArenaList, arena_ct, Arena>>
locks  == <<lock, arena_list_lock>>
thread == <<call, pc, query, node, cursor, seen>>
vars == <<memory, roster, locks, thread, total_alloc_size, child, fault>>

------------------------------------------------------------------------------
(* Helpers. *)

\* round_up, and round_to_page; variant: a block as large as the request.
RoundUp(n) == CHOOSE s \in Sizes : IsRoundedUp(n, s)
NoRoundToPage(n) == n
RoundToPage(n) == IF n <= PAGE_SIZE THEN PAGE_SIZE ELSE RoundUp(n)

\* The bytes a thread is allocating: its own request, or the array of arenas
\* while it works in the temporary one.
Asked(t) == IF Arena[t] = Temp THEN ListBytes ELSE query[t]
Needed(t) == RoundUp(Asked(t) + OVERHEAD)

\* make_head, and sink: a block enters the list at its head, or leaves it.
\* Variant: the block stays.
Pushed(s, b) == Cons(b, s)
SunkNothing(s, b) == s
Sunk(s, b) == RemoveAt(s, CHOOSE i \in DOMAIN s : s[i] = b)

Zero == [blk |-> 0, used_blk |-> 0, free_blk |-> 0]

\* The counters change together with the list, under the lock of the arena.
Counted(c, blk, used, free) ==
  [blk |-> c.blk + blk, used_blk |-> c.used_blk + used, free_blk |-> c.free_blk + free]

\* The arena a new thread is bound to.
\* Variants: the counter is not consulted; it does not wrap.
AlwaysFirst == 0
NextArenaNoWrap == arena_ct
NextArena == arena_ct % CORE_COUNT

\* A process that has been killed takes no step.
At(t, label) == fault = "none" /\ pc[t] = label
Goto(t, to) == pc' = [pc EXCEPT ![t] = to]

\* pthread_mutex_lock waits for the owner.  A recursive mutex is unlocked by
\* its owner alone: for anyone else the unlock fails and changes nothing.
LockArena(t, a) == lock[a] = NoThread /\ lock' = [lock EXCEPT ![a] = t]
LockList(t) == arena_list_lock = NoThread /\ arena_list_lock' = t
Unlocked(owner, t) == IF owner = t THEN NoThread ELSE owner

\* The end of a call: back in the program.
Return(t) ==
  /\ Goto(t, "idle")
  /\ call' = [call EXCEPT ![t] = "none"]
  /\ query' = [query EXCEPT ![t] = 0]

------------------------------------------------------------------------------
(* The calls begin: initialize_arena comes first for a thread without one. *)

MallocCall(t, q) ==
  /\ At(t, "idle")
  /\ call' = [call EXCEPT ![t] = "malloc"]
  /\ query' = [query EXCEPT ![t] = q]
  /\ Goto(t, IF Arena[t] = NoArena THEN "i_lock" ELSE "m_lock")
  /\ UNCHANGED <<memory, roster, locks, node, cursor, seen,
                 total_alloc_size, child, fault>>

ForkCall(t) ==
  /\ At(t, "idle")
  /\ call' = [call EXCEPT ![t] = "fork"]
  /\ Goto(t, IF Arena[t] = NoArena THEN "i_lock" ELSE "k_arenas")
  /\ UNCHANGED <<memory, roster, locks, query, node, cursor, seen,
                 total_alloc_size, child, fault>>

\* Where a call goes on once its thread has an arena.
AfterInit(t) == Goto(t, IF call[t] = "malloc" THEN "m_lock" ELSE "k_arenas")

\* Variant: whoever finds the array built does without the lock.
LockOnce(t) == IF ArenaList = 0 THEN LockList(t) ELSE UNCHANGED arena_list_lock
LockForInit(t) == LockList(t)
InitLock(t) ==
  /\ At(t, "i_lock") /\ Goto(t, "i_list")
  /\ LockForInit(t)
  /\ UNCHANGED <<memory, roster, lock, call, query, node, cursor, seen,
                 total_alloc_size, child, fault>>

\* The first thread of all borrows temp_arena and allocates the array in it.
UseTempArena(t) ==
  /\ At(t, "i_list") /\ Goto(t, "m_lock")
  /\ ArenaList = 0
  /\ Arena' = [Arena EXCEPT ![t] = Temp]
  /\ UNCHANGED <<memory, ArenaList, arena_ct, locks, call, query, node, cursor,
                 seen, total_alloc_size, child, fault>>

\* The array exists: arena 0 takes over the lock, list and counters of the
\* temporary one, the other arenas start empty.
\* Variant: the counters stay behind.
LosingCounts == Zero
TempCounts == count[Temp]
CopyTemp(t) ==
  /\ At(t, "i_copy") /\ AfterInit(t)
  /\ ArenaList' = node[t]
  /\ list' = [list EXCEPT ![0] = list[Temp]]
  /\ count' = [count EXCEPT ![0] = TempCounts]
  /\ lock' = [lock EXCEPT ![0] = lock[Temp]]
  /\ Arena' = [Arena EXCEPT ![t] = 0]
  /\ arena_ct' = arena_ct + 1
  /\ arena_list_lock' = Unlocked(arena_list_lock, t)
  /\ node' = [node EXCEPT ![t] = 0]
  /\ UNCHANGED <<size, live, mapped, call, query, cursor, seen,
                 total_alloc_size, child, fault>>

\* Every later thread gets the next arena of the array.
AssignArena(t) ==
  /\ At(t, "i_list") /\ AfterInit(t)
  /\ ArenaList # 0
  /\ Arena' = [Arena EXCEPT ![t] = NextArena]
  /\ arena_ct' = arena_ct + 1
  /\ arena_list_lock' = Unlocked(arena_list_lock, t)
  /\ UNCHANGED <<memory, ArenaList, lock, call, query, node, cursor, seen,
                 total_alloc_size, child, fault>>

------------------------------------------------------------------------------
(* malloc *)

MallocLock(t) ==
  /\ At(t, "m_lock") /\ Goto(t, "m_search")
  /\ LockArena(t, Arena[t])
  /\ UNCHANGED <<memory, roster, arena_list_lock, call, query, node, cursor,
                 seen, total_alloc_size, child, fault>>

\* The positions of the list whose block is large enough.
Fitting(t) == {i \in DOMAIN list[Arena[t]] : size[list[Arena[t]][i]] >= Needed(t)}

FirstFit(t) ==
  /\ At(t, "m_search") /\ Goto(t, "m_fit")
  /\ \E i \in Fitting(t) : /\ \A j \in Fitting(t) : i <= j
                           /\ node' = [node EXCEPT ![t] = list[Arena[t]][i]]
  /\ UNCHANGED <<memory, roster, locks, call, query, cursor, seen,
                 total_alloc_size, child, fault>>

\* request_memory: mmap gives fresh pages, and the total is loaded ...
RequestMemory(t) ==
  /\ At(t, "m_search") /\ Goto(t, "m_total")
  /\ Fitting(t) = {}
  /\ mapped + RoundToPage(Needed(t)) <= MapLimit
  /\ mapped' = mapped + RoundToPage(Needed(t))
  /\ node' = [node EXCEPT ![t] = mapped]
  /\ seen' = [seen EXCEPT ![t] = total_alloc_size]
  /\ UNCHANGED <<size, list, live, count, roster, locks, call, query, cursor,
                 total_alloc_size, child, fault>>

\* ... and stored; then the block is counted and becomes the head of the list.
AddMemory(t) ==
  /\ At(t, "m_total") /\ Goto(t, "m_fit")
  /\ total_alloc_size' = seen[t] + RoundToPage(Needed(t))
  /\ size' = [b \in DOMAIN size \cup {node[t]} |->
                IF b = node[t] THEN RoundToPage(Needed(t)) ELSE size[b]]
  /\ count' = [count EXCEPT ![Arena[t]] = Counted(@, 1, 0, 1)]
  /\ list' = [list EXCEPT ![Arena[t]] = Pushed(@, node[t])]
  /\ seen' = [seen EXCEPT ![t] = 0]
  /\ UNCHANGED <<live, mapped, roster, locks, call, query, node, cursor,
                 child, fault>>

\* mmap may fail at any time: malloc unlocks and returns NULL with ENOMEM.
\* calloc looks for -1, so it clears the array of arenas at address 0.
OutOfMemory(t) ==
  /\ At(t, "m_search") /\ Fitting(t) = {}
  /\ lock' = [lock EXCEPT ![Arena[t]] = Unlocked(@, t)]
  /\ IF Arena[t] = Temp
       THEN fault' = "calloc" /\ Goto(t, "i_copy") /\ UNCHANGED <<call, query>>
       ELSE Return(t) /\ UNCHANGED fault
  /\ UNCHANGED <<memory, roster, arena_list_lock, node, cursor, seen,
                 total_alloc_size, child>>

\* fit on a block that is too large: the right half becomes the head of the
\* list and fit goes on with it; the left half keeps its place.
Split(t) ==
  LET half == size[node[t]] \div 2
      new_buddy == node[t] + half
  IN /\ At(t, "m_fit") /\ size[node[t]] > Needed(t)
     /\ size' = [b \in DOMAIN size \cup {new_buddy} |->
                   IF b \in {node[t], new_buddy} THEN half ELSE size[b]]
     /\ count' = [count EXCEPT ![Arena[t]] = Counted(@, 1, 0, 1)]
     /\ list' = [list EXCEPT ![Arena[t]] = Pushed(@, new_buddy)]
     /\ node' = [node EXCEPT ![t] = new_buddy]
     /\ UNCHANGED <<live, mapped, roster, locks, call, pc, query, cursor, seen,
                    total_alloc_size, child, fault>>

\* fit on a block of the right size: it leaves the list and is returned, to the
\* program or to the thread that allocates the array of arenas.
Take(t) ==
  /\ At(t, "m_fit") /\ size[node[t]] = Needed(t)
  /\ list' = [list EXCEPT ![Arena[t]] = Sunk(@, node[t])]
  /\ count' = [count EXCEPT ![Arena[t]] = Counted(@, 0, 1, -1)]
  /\ live' = [b \in DOMAIN live \cup {node[t]} |->
                IF b = node[t] THEN Asked(t) ELSE live[b]]
  /\ lock' = [lock EXCEPT ![Arena[t]] = Unlocked(@, t)]
  /\ IF Arena[t] = Temp
       THEN Goto(t, "i_copy") /\ UNCHANGED <<call, query, node>>
       ELSE Return(t) /\ node' = [node EXCEPT ![t] = 0]
  /\ UNCHANGED <<size, mapped, roster, arena_list_lock, cursor, seen,
                 total_alloc_size, child, fault>>

------------------------------------------------------------------------------
(* free *)

\* The blocks the program holds: not the array of arenas, nor before the thread
\* that has allocated it has filled it in.
Array == {ArenaList} \cup {node[t] : t \in {u \in Threads : pc[u] = "i_copy"}}
Held == DOMAIN live \ Array

\* Any thread may give back a block the program holds.  One that has never
\* allocated has no arena, and locks a mutex at address 0.
FreeCall(t, b) ==
  /\ At(t, "idle")
  /\ live' = [c \in DOMAIN live \ {b} |-> live[c]]
  /\ call' = [call EXCEPT ![t] = "free"]
  /\ IF Arena[t] = NoArena
       THEN fault' = "free" /\ UNCHANGED pc
       ELSE Goto(t, "f_lock") /\ UNCHANGED fault
  /\ UNCHANGED <<size, list, mapped, count, roster, locks, query, node, cursor,
                 seen, total_alloc_size, child>>

FreeLock(t) ==
  /\ At(t, "f_lock") /\ Goto(t, "f_count")
  /\ LockArena(t, Arena[t])
  /\ UNCHANGED <<memory, roster, arena_list_lock, call, query, node, cursor,
                 seen, total_alloc_size, child, fault>>

\* The block is counted as free in the arena of the caller, and that is all.
FreeCount(t) ==
  /\ At(t, "f_count") /\ Return(t)
  /\ count' = [count EXCEPT ![Arena[t]] = Counted(@, 0, -1, 1)]
  /\ lock' = [lock EXCEPT ![Arena[t]] = Unlocked(@, t)]
  /\ UNCHANGED <<size, list, live, mapped, roster, arena_list_lock, node, cursor,
                 seen, total_alloc_size, child, fault>>

------------------------------------------------------------------------------
(* fork: fork_prepare takes every lock, after_fork gives them up. *)

\* Variants: the last arena is left out; each thread begins with its own arena.
OwnArenaFirst(t) == (cursor[t] + Arena[t]) % CORE_COUNT
ArenaToLock(t) == cursor[t]
LockButLast(t) ==
  IF cursor[t] = CORE_COUNT - 1 THEN UNCHANGED lock ELSE LockArena(t, cursor[t])
LockNext(t) == LockArena(t, ArenaToLock(t))

ForkLockArena(t) ==
  /\ At(t, "k_arenas")
  /\ LockNext(t)
  /\ IF cursor[t] = CORE_COUNT - 1
       THEN Goto(t, "k_list") /\ cursor' = [cursor EXCEPT ![t] = 0]
       ELSE cursor' = [cursor EXCEPT ![t] = @ + 1] /\ UNCHANGED pc
  /\ UNCHANGED <<memory, roster, arena_list_lock, call, query, node, seen,
                 total_alloc_size, child, fault>>

ForkLockList(t) ==
  /\ At(t, "k_list") /\ Goto(t, "k_fork")
  /\ LockList(t)
  /\ UNCHANGED <<memory, roster, lock, call, query, node, cursor, seen,
                 total_alloc_size, child, fault>>

\* The child starts with a copy of the parent's memory, mutexes included.
Fork(t) ==
  /\ At(t, "k_fork") /\ Goto(t, "k_release")
  /\ child' = [state |-> "after_fork",
               lock  |-> [a \in Cores |-> lock[a]],
               arena_list_lock |-> arena_list_lock]
  /\ UNCHANGED <<memory, roster, locks, call, query, node, cursor, seen,
                 total_alloc_size, fault>>

ForkReleaseArena(t) ==
  /\ At(t, "k_release") /\ cursor[t] < CORE_COUNT
  /\ lock' = [lock EXCEPT ![cursor[t]] = Unlocked(@, t)]
  /\ cursor' = [cursor EXCEPT ![t] = @ + 1]
  /\ UNCHANGED <<memory, roster, arena_list_lock, call, pc, query, node, seen,
                 total_alloc_size, child, fault>>

ForkReleaseList(t) ==
  /\ At(t, "k_release") /\ cursor[t] = CORE_COUNT
  /\ Return(t)
  /\ arena_list_lock' = Unlocked(arena_list_lock, t)
  /\ cursor' = [cursor EXCEPT ![t] = 0]
  /\ UNCHANGED <<memory, roster, lock, node, seen, total_alloc_size, child, fault>>

\* after_fork in the child, whose thread has another id than the one that took
\* the locks.
ChildRelease ==
  /\ child.state = "after_fork"
  /\ child' = [state |-> "running",
               lock  |-> [a \in Cores |-> Unlocked(child.lock[a], ChildThread)],
               arena_list_lock |-> Unlocked(child.arena_list_lock, ChildThread)]
  /\ UNCHANGED <<memory, roster, locks, thread, total_alloc_size, fault>>

------------------------------------------------------------------------------
Init ==
  /\ size = [b \in {} |-> 0] /\ live = [b \in {} |-> 0]
  /\ list = [a \in Arenas |-> <<>>]
  /\ mapped = PAGE_SIZE
  /\ count = [a \in Arenas |-> Zero]
  /\ lock = [a \in Arenas |-> NoThread]
  /\ arena_list_lock = NoThread
  /\ ArenaList = 0 /\ arena_ct = 0
  /\ Arena = [t \in Threads |-> NoArena]
  /\ total_alloc_size = 0
  /\ seen = [t \in Threads |-> 0]
  /\ call = [t \in Threads |-> "none"]
  /\ pc = [t \in Threads |-> "idle"]
  /\ query = [t \in Threads |-> 0]
  /\ node = [t \in Threads |-> 0]
  /\ cursor = [t \in Threads |-> 0]
  /\ child = [state |-> "none",
              lock |-> [a \in Cores |-> NoThread], arena_list_lock |-> NoThread]
  /\ fault = "none"

\* A step of a call that is under way.
Step(t) ==
  \/ InitLock(t) \/ UseTempArena(t) \/ CopyTemp(t) \/ AssignArena(t)
  \/ MallocLock(t) \/ FirstFit(t) \/ RequestMemory(t) \/ AddMemory(t)
  \/ OutOfMemory(t) \/ Split(t) \/ Take(t)
  \/ FreeLock(t) \/ FreeCount(t)
  \/ ForkLockArena(t) \/ ForkLockList(t) \/ Fork(t)
  \/ ForkReleaseArena(t) \/ ForkReleaseList(t)

Next ==
  \/ \E t \in Threads : \/ \E q \in Queries : MallocCall(t, q)
                        \/ \E b \in Held : FreeCall(t, b)
                        \/ ForkCall(t)
                        \/ Step(t)
  \/ ChildRelease

Spec == Init /\ [][Next]_vars
------------------------------------------------------------------------------
(* Properties. *)

InArena == {"m_search", "m_total", "m_fit", "f_count"}
InList  == {"i_list", "i_copy", "k_fork"}

\* The arenas whose lists are in use: the temporary one hands its list over.
Used == IF ArenaList = 0 THEN {Temp} ELSE Cores

\* Every variable has its type.
TypeOK ==
  /\ DOMAIN size \subseteq Nat \ {0} /\ size \in [DOMAIN size -> Sizes]
  /\ list \in [Arenas -> Seq(DOMAIN size)]
  /\ DOMAIN live \subseteq DOMAIN size
  /\ live \in [DOMAIN live -> Queries \cup {ListBytes}]
  /\ mapped \in Nat
  /\ count \in [Arenas -> [blk : Int, used_blk : Int, free_blk : Int]]
  /\ lock \in [Arenas -> Threads \cup {NoThread}]
  /\ arena_list_lock \in Threads \cup {NoThread}
  /\ ArenaList \in DOMAIN size \cup {0} /\ arena_ct \in Nat
  /\ Arena \in [Threads -> Arenas \cup {NoArena}]
  /\ total_alloc_size \in Nat /\ seen \in [Threads -> Nat]
  /\ call \in [Threads -> {"none", "malloc", "free", "fork"}]
  /\ pc \in [Threads -> {"idle", "f_lock", "m_lock"} \cup InArena
                        \cup {"i_lock", "k_arenas", "k_list", "k_release"} \cup InList]
  /\ query \in [Threads -> Queries \cup {0}]
  /\ node \in [Threads -> Nat]
  /\ cursor \in [Threads -> 0 .. CORE_COUNT]
  /\ child \in [state : {"none", "after_fork", "running"},
                lock : [Cores -> Threads \cup {NoThread}],
                arena_list_lock : Threads \cup {NoThread}]
  /\ fault \in {"none", "calloc", "free"}

\* A block in use is on no list, and a free block is on one list, once: also
\* when arena 0 takes over the list of the temporary arena.
OneOwner ==
  /\ \A a \in Used : \A i, j \in DOMAIN list[a] :
       /\ list[a][i] \notin DOMAIN live
       /\ list[a][i] = list[a][j] => i = j
  /\ \A a, b \in Used : a # b => ToSet(list[a]) \cap ToSet(list[b]) = {}

\* Only the owner of an arena's lock works in the arena, and only the owner of
\* arena_list_lock builds the array, assigns an arena, or forks.
ArenaExclusion ==
  /\ \A t \in Threads : pc[t] \in InArena => lock[Arena[t]] = t
  /\ \A t \in Threads : pc[t] \in InList => arena_list_lock = t

\* free counts in the caller's arena, not in the block's, so a single used_blk
\* may even be negative; but together the arenas count the blocks in use, the
\* array of arenas among them, whenever no call is under way.
UsedInAll ==
  /\ fault = "none"
  /\ \A t \in Threads : pc[t] = "idle"
  => SumFunction([a \in Used |-> count[a].used_blk]) = Cardinality(DOMAIN live)

\* README: the arenas are handed out in turn, so no two arenas differ by more
\* than one in the threads they serve.
Served(a) == {t \in Threads : Arena[t] = a}
Balanced ==
  arena_list_lock = NoThread =>
    \A a, b \in Cores : Cardinality(Served(a)) <= Cardinality(Served(b)) + 1

\* The locks are never taken in a circle: as long as a thread is in a call, some
\* thread can go on, whatever forks and first calls meet.
SomeoneMoves ==
  /\ fault = "none"
  /\ \E t \in Threads : pc[t] # "idle"
  => ENABLED \E t \in Threads : Step(t)

\* The child never inherits a half-done call: when fork copies the memory, no
\* other thread is inside an arena or building the array.
ForkQuiescent ==
  [][child'.state = "after_fork" /\ child.state # "after_fork" =>
       \A t \in Threads :
         /\ pc[t] \notin InArena
         /\ pc[t] \in InList => pc[t] = "k_fork"]_vars

\* The calls of all threads in all arenas keep the promise of an allocator.
Promise == INSTANCE HeapPromise WITH
  extents <- {[lo |-> b + OVERHEAD, len |-> live[b]] : b \in DOMAIN live}

KeepsPromise == Promise!Spec

\* README: the locks taken before a fork are released after it.
ChildLocksReleased ==
  child.state = "running" =>
    /\ child.arena_list_lock = NoThread
    /\ \A a \in Cores : child.lock[a] = NoThread

==============================================================================
