# A model of the operating-systems coursework

The repository holds seven small systems programs. This directory models the ones
with state worth arguing about in TLA+, checks them with TLC on small instances,
and proves with TLAPS, for every instance, what the two allocators, the proxy, the
load test and the sort must never do.

    tlc  -workers 2 -config BuddyHeap.cfg MCBuddyHeap.tla     # any run of PROJECT.json
    tlapm ArenaHeapProofs.tla                                 # the proofs of one component

## 1. The system

| Part | State | Operations | What makes it correct |
|---|---|---|---|
| **hw3** buddy allocator (`malloc.c`, `free.c`, `utils.c`) | block headers in memory, one free list in address order, `Start`, `heap_end`, the break, one recursive mutex | `malloc` (first fit, halve, or extend with `sbrk`), `free` (insert, merge with the buddy up to a page) | blocks never overlap; held blocks are neither changed nor on the list; merging is complete; nothing is lost; the lock is given up |
| hw3 and hw4 `calloc`, `realloc`, `memalign` | none of their own; the words in and before a block | wrappers of `malloc` and `free` | contents, cleared memory, a pointer that stays in its block |
| **hw4** arenas (`malloc.c`, `free.c`, `utils.c`) | an array of arenas, each with a lock, a list and counters; `temp_arena` before the array exists; `arena_list_lock`; one arena per thread; `total_alloc_size` | `malloc`, `free`, `initialize_arena`, `fork_prepare`, `after_fork`, `malloc_stats` | the above across arenas; even assignment; no deadlock between first calls and forks; a fork copies no half-done call; counters agree |
| **hw6** key-value proxy and workers (`proxy.go`, `worker.go`) | proxy: the slice `Workers` (address, remaining memory), the map `m` from key to worker; worker: its own map | add a worker, store, get; every request in its own goroutine, no lock | a get answers what was stored; `m` names a worker that has the key; `Rem` counts |
| **hw2** checkpoint and restart (`ckpt.c`, `myrestart.c`, `utils.c`) | memory regions and registers, an image file, the offset and the retries of a read or write | checkpoint on a signal, restore in another process | the restored memory is that of a finished checkpoint; a restored process writes no image; a finished image is kept |
| hw3 and hw4 test program (`test1.c`) | threads with flags, a mutex and a condition variable; bins of memory with marks in them | start, join and restart threads; allocate, check and free bins | counts are true, no signal is lost, the test ends; no bin is found changed |
| **hw1** quicksort in MIPS assembly (`hw1.asm`) | an array of pointers, registers, a stack | sort | a sorted permutation, within its part; registers restored |
| hw0 memory map reader | lines of `/proc/self/maps` | scan, dump | every line is seen |
| hw5 measurements | none | time memory accesses, plot | not a matter of states |

Interactions. In hw3 all threads of the program meet in one heap under one lock;
other code of the process shares the break (`sbrk`). In hw4 the arenas share
the array, `arena_list_lock`, the total of mapped bytes, and, because any thread may
free any block, each other's blocks; `fork` meets all of them. In hw6 clients
meet in the proxy's two variables, and the proxy talks HTTP to workers that can
fail or restart. In hw2 two processes that never live at once meet in the image, whose
writer may be killed anywhere. The test programs of hw3 and hw4 call the allocators through the same C functions
from several threads.

The hard behaviour is therefore: long sequences of splits and merges; the
surplus unlocks of hw3's recursive `find_buddy`; `sbrk` and `mmap` failing half way; the first
call of several threads at once; fork against everything; `append` moving a slice
to which a request still points; a store that fails after the key was placed; reads and writes that move
less than asked, and a kill between any two of them; signals that nobody waits for; a pointer that `memalign` has moved and
`realloc` and `free` meet again. `hazards` in
PROJECT.json lists each at its line, with the properties that cover it.

## 2. The modules

| Module | Models |
|---|---|
| `HeapPromise` | what an allocator promises: the ranges handed out and not taken back share no byte |
| `BuddyHeap` | hw3 `malloc` and `free` |
| `BuddyHeapProofs` | theorems about `BuddyHeap`: its invariant and refinement; what splits and merges do to the pages |
| `ArenaHeap` | hw4 `malloc`, `free`, arena assignment, fork handlers |
| `ArenaHeapProofs` | theorems about `ArenaHeap` |
| `HeapApi`, `HeapApiProofs` | hw3 and hw4 `calloc`, `realloc`, `memalign`, used by the bins of `test1.c`; theorems about them |
| `LoadTest`, `LoadTestProofs` | `main` of `test1.c` and its threads; theorems about them |
| `KVPromise` | what the store promises a client: a get answers the last acknowledged value, of the key or of one that a worker takes for it |
| `KVProxy`, `KVProxyProofs` | hw6 proxy and workers; theorems about them |
| `CheckpointPromise` | what hw2 promises: a restart has the memory of a finished checkpoint |
| `Checkpoint`, `CheckpointProofs` | hw2 signal handler, image and restarter; theorems about them |
| `QuickSort`, `QuickSortProofs` | hw1 `quick_sort`, `str_lt`, `swap_str_ptrs`; theorems about them |
| `NumberLemmas` | what the proofs need of natural numbers and of sums over finite sets |
| `MC*` | symmetry sets and the structured constants for TLC; in `MCKVProxy` what a worker reads of each key |

`BuddyHeap` and `ArenaHeap` implement `HeapPromise`; `HeapApi` stands on what that promise and the shape of
their blocks say, not on either of them, so that the two courses' wrappers are compared on one heap. `KVProxy` implements
`KVPromise`, `Checkpoint` implements `CheckpointPromise`. `LoadTest` and `HeapApi` divide `test1.c` between them: the threads'
coming and going, and what a thread does to its bins.

`map` in PROJECT.json names the lines of every definition. A definition whose name
differs from a mapped one by a suffix (`MergeableInUse`, `LockOnce`, ...) is a
*variant*: the code with a plausible bug, used to see that a property would notice.

### BuddyHeap (hw3)

- `size` maps the address of each header to the size in it. `free` is the set of
  addresses on the free list: `free.c` inserts in address order, `split` puts the right
  half behind the left, `unite` keeps the lower block, so list order is address order, the
  head is the least element and first fit is the least block that fits.
- `live` is the program's view: the blocks it holds and the bytes it asked for. It is
  what a well-behaved caller gives to `free` once.
- `malloc`: `MallocCall`, `MallocLock`, then `FirstFit`, or `ReadBreak` (`sbrk(0)`, `malloc.c:19`) and with the second `sbrk`
  `ExtendHeap` or `OutOfMemory`, then
  `Split` as often as `fit` recurses, then `Take`.
- `free`: `FreeCall` (its range and alignment checks run before the lock; a pointer that fails one is dropped without a word, and
  the program has lost the block), `FreeLock`,
  `Insert` or `InsertIntoEmptyList`, `Unite` as often as buddies are found, `NoBuddy`, then one
  `FindBuddyReturn` for each frame of the recursion, because each frame unlocks.
- `fault` records what stops the process: the null pointer of `free.c:88`, the assertion of
  `malloc.c:39`.
- `ForeignSbrk` is other code moving the break, at any time: between the two calls of `sbrk` it makes `white_space` out of date.
- The mutex is recursive (`utils.c:14`), so `Unlock` by a thread that is not the owner has no effect.
- Abstracted: the two `int` link offsets of a header (the list is a set), the messages,
  and the back pointer by which `free` recognises a `memalign` block (`free.c:57`).

### ArenaHeap (hw4)

- A free list is a sequence, because `make_head` pushes a block at the front wherever it lies.
- `Arena[t]` is the thread-local pointer, `Temp` the `temp_arena`. The very first call runs
  `UseTempArena`, allocates the array with the ordinary malloc steps in `Temp`, and `CopyTemp` turns `Temp`
  into arena 0. Other threads run `AssignArena`.
- `RequestMemory` and `AddMemory` are two steps since `total_alloc_size` is read and written
  without a common lock. `mmap` may fail at any time (`OutOfMemory`).
- `free` is `FreeCall`, `FreeLock`, `FreeCount` and nothing else: the test in `free.c:74`,
  `x % n || x % n == 0`, is true of every pointer, so the function returns there. The program gives it
  any block it holds (`Held`), never the array of arenas, which `malloc` allocated for itself (`Array`).
- `fork`: `ForkLockArena` for each arena, `ForkLockList`, `Fork` (the child gets a copy of the
  locks), `ForkReleaseArena`, `ForkReleaseList`; `ChildRelease` is `after_fork` in the child. The C library runs
  handlers; they are in the map with their own lines, `fork` and the mutexes as external.
- Abstracted: `allo_req` and `free_req` (counted and printed, never read), the printing of
  `malloc_stats`, the dead code behind `free.c:74`.

### KVProxy (hw6)

- Each client has at most one request; `pc` and `req` are the goroutine's place and
  locals. A handler is cut at each access to `m`, `Workers`, a worker.
- A slice is a backing array and a length. `arrays` holds every backing array there has been, its cells and its
  capacity; `Workers` names one and says how much of it is in use. `AddWorker` reads the slice, then `append` writes
  behind the end of what was read (`AppendInPlace`), over a worker that another append put there meanwhile if there
  is one, or copies a full array to one of twice the size (`AppendToNewArray`).
- A store finds the place of the most leisure worker (`MostLeisureWorker`), takes a pointer to that place in the
  slice as it is by then (`SelectWorker`), and reads the cell again each time it needs it: for `m` (`RecordKey`), for
  the address (`Post`), for `Rem` (`Reply`, `Charge`). An append that moved the slice leaves the pointer in the old
  array; one that wrote over the cell changes the worker under the store.
- `overwritten` records that an append has written over a worker. `MappedWorkerHasKey` and `NeverOvercharged` hold up to then.
- The proxy takes a key decoded from its own URL (`proxy.go:83, 93`) and writes it into the worker's as it is (`:67, 106`). The constants
  `StoredAs` and `SoughtAs` say what key the worker reads there for the POST and the GET: the same one for most keys; another one
  for `a?x` and `a#x` (`a`) and `%61` (`a`); `NoURL` for `%`, which the HTTP client refuses; `NoRoute` for a path no handler takes. A path with an empty or dot element (`%2Fa`
  makes `/store//a`) is redirected by the router, which the client follows with a GET: the get finds `a`, the POST is lost. So the two agree, or
  the POST is lost (`ConstantsAssumption`). `Same(j, k)`: what is stored under j is found under k.
- A store that the worker refuses is passed on as no success and not charged (`NotStored`); a get that fails is answered like an unknown key (`GetFails`).
- `latest`, `sent`, `charged`, `answer` and `overwritten` are history: what clients were told and what was sent. `latest` is the set of
  answers that the acknowledged stores permit: the last value stored under the key, and later ones under keys that mean the same (`AfterStore`).
- `PostFails`, `GetFails` and `WorkerRestarts` are the failures, for the workers in `Failing` and URLs that do not parse.
- Abstracted: JSON, logging, a store whose body does not decode (it changes nothing), and a stop of the process
  by Go's detection of concurrent map access (the model follows the executions it does not notice).

### HeapApi (the wrappers)

- Memory is counted in words of 8 bytes; `word` is what each holds: a mark of `mem_init`, zero, a header's size, or
  something else (`Junk`). hw3's break memory starts as `Junk`, as memory that was used before; hw4's as zero, as `mmap` gives it
  and never takes it back.
- `malloc` underneath (`Malloc`) is the least power of two that is enough, at any free multiple of its size, or NULL: that is
  what `BuddyHeap` and `ArenaHeap` hand out, whatever their lists look like. `free` (`Free`) is hw3's with the alignment
  test that makes it ignore a pointer `memalign` moved, or hw4's, which frees nothing.
- One `call` per thread: `BinAlloc` (check, free, call), `Malloc`, `Fill` (what `calloc` clears, `realloc` copies, `memalign`
  writes), `Release` (realloc's free), `Return` (calloc's check, then the marks). Each is one step because it touches only
  memory the thread holds, apart from the block operations, which are atomic under the allocators' locks (`MutualExclusion`,
  `ArenaExclusion`).
- `Writes` outside the heap stops the process (`fault`): so does `calloc` of memory that was not there, as the wrappers look for -1.
- hw4's `realloc` reads `arena_id` for the size: 0, as no code sets the id of any arena (`OldSizes`).
- Abstracted: an alignment of 4 counts as one word; `nmemb * size` is taken as given; `reallocarray` and
  `posix_memalign` check their arguments and call the others.

### LoadTest (`test1.c`)

- A slot is an entry of `my_start_thread`'s array: `thread` is where its thread is, `flags` its flag. `main` is `pc` and `i`.
- `CondWait` gives up the mutex and waits in one step, as `pthread_cond_wait` does; `WakeUp` may also happen without a signal; a `Signal` nobody waits for
  is lost.
- A thread makes turns that free and allocate a random number of bins, none included, until `MaxTurns`, or ends the process (`Exit`).
- `Created` says what `pthread_create` may answer; with FALSE in it `main` waits for a thread that is not there (section 5).
- Abstracted: the random numbers, the other thread libraries the file can be built with, `TEST_FORK`.

### Checkpoint (hw2)

- The image is a sequence of units: one for a header, as many as a region is long, `ContextSize` for the registers. `Write`, `ReadLess` move any
  number of them; a call is repeated with what is left, at most three times (`Again`), as `my_write` and `read_exact` do.
- A read that returns -1 is not below an unsigned length: it counts as a success (`ReadFails`), and `off` notes that the reader's
  offset is one short from then on, so that its loop no longer finds the registers.
- `SigHandler`, `ReadMaps`, `Write`, `GetContext`, `TestRestart` are the handler; `Restart`, `ReadHeader`, `ReadData`, `ReadContext` are `myrestart`, at whose
  end the process is the program, at `TestRestart`. The flag `restart` lies in the stack and is saved with it. `armed` is FALSE in a restored process: it
  never called `signal`, and handlers are not memory.
- `Kill` may happen at any step; `RemoveImage` is `make clean-ckpt`. A restarter that maps what is not a header, or jumps
  to registers that are not, is `"wild"`: nothing more is said of it.
- `open` with mode 0400 fails on a file that is there (`Opens`), unless the process is root's.
- Abstracted: one process at a time; memory maps that fit the buffer of 4000 bytes; the parsing of their text; privileges other than read; file names.

### QuickSort (hw1)

- A step is a basic block. `s0`..`s4`, `ra`, `a0`, `a1` are the registers, `stack` the frames `quick_sort` pushes; `$s3` and
  `$s4` (`i`, `last`) are not saved, which is right only because the loop is over when it recurses.
- Lengths and offsets are in bytes, as in the code. A pointer is the string it leads to; strings are ASCII, on which the
  unsigned and the signed comparison agree.
- `StrLt` compares as `str_lt` does, including the terminator: it answers whether its first argument is the second or comes *after* it.
- Init has the registers as `print_array`, which runs before, leaves them.

## 3. The runs

| Run | Instance | Shows |
|---|---|---|
| `buddy_heap` | 2 threads, pages of 64 bytes, header 8, blocks 16..128, requests 8, 9, 57, break up to 192, other code takes 32 bytes | all properties of hw3, 170 000 states |
| `free_on_empty_list` | 1 thread | violation: `free` when every block is in use |
| `arena_heap` | 3 threads, 2 arenas, requests 8 and 40, two pages | all properties of hw4, 559 000 states up to symmetry |
| `forked_child` | 2 threads | violation: the child's locks stay taken |
| `heap_api` | 2 threads with a bin each, hw3 and hw4, bins of 1 and 3 words, alignments of 2 and 4 words, every bin may be reallocated, a heap of 16 words | the bins of the test and the headers survive the wrappers, 3.7 million states |
| `realloc_contents` | hw4, 1 thread | violation: `realloc` copies nothing |
| `load_test` | 1 to 3 threads at a time, 0, 2 or 4 in all | counts, signals and joins of `test1.c`; it ends; 56 000 states |
| `checkpoint` | five regions (one a guard page, one `[vsyscall]`), two values of memory, any read and write short or failing, kills at any step | the restart of hw2, 3 069 states |
| `quick_sort` | every array of five names out of four | hw1 sorts, 25 600 states |
| `proxy_sequential` | 1 client, 4 keys (`a`, `a?x`, `%`, `%2Fa`), 2 values, 2 workers, 6 requests | with one client the proxy implements `KVPromise`, 3.8 million states |
| `proxy_failures` | 2 clients, 3 keys (`a`, `a?x`, `b`), 2 requests each, a failing worker, undecodable workers | what holds of concurrent requests and failures, 5.4 million states |
| `lost_answer` | 2 clients, 3 requests each | violation: an acknowledged key is not found for a while |

What the properties say (`TypeOK`, one for each of the three concurrent services, also requires that every address that is named has a header):

- hw3: `BlocksApart`, `PagesTiled` (no overlap, no hole, aligned);
  `Coalesced` (merging is complete between calls); `NothingLost` (a block is free, held, or in a call's hands: no pointer of the program's is one that `free` drops); `HeldBlocksOffList`,
  `HeldBlocksUntouched` (a held block is out of reach of every step); `MutualExclusion` (despite the surplus unlocks);
  `KeepsPromise` (refinement of `HeapPromise`); `LockReleased` (liveness).
- hw4: `OneOwner` and `KeepsPromise` across arenas; `ArenaExclusion`; `UsedInAll` (one
  arena's used count may be negative, all together they count the blocks in use); `ForkQuiescent` (a fork copies no
  half-done call); `Balanced` (threads are dealt out evenly); `SomeoneMoves` (no circle of locks).
- Wrappers: `TestPasses` (no bin is found changed, calloc's memory is zero), `HeadersKept` (no copy, clearing or mark runs over a header in
  use), `BinsInside` (a bin lies in one block however far `memalign` moved it), `ReallocKeeps` (hw3's `realloc` keeps the contents).
- Load test: `CountsTrue`, `NoLostWakeUp`, `JoinsReturn` (`main`, which holds the mutex, joins only threads that no longer need it), `Ends`.
- hw2: `ReaderInStep` (data is never taken for a header, wherever the writer was killed), `RestoredNeverWrites`, `ImageKept`,
  `KeepsPromise` (refinement of `CheckpointPromise`: who runs the program has the whole memory of a finished checkpoint), `CallsEnd`.
- hw1: `InPart` (loads and stores stay in the part), `PivotsPlaced` (a placed pivot stays between its parts through the calls below), `Sorted`
  (main gets a sorted permutation and its registers), `Terminates`.
- hw6: `KeepsPromise` (sequential); `NothingInvented` (a get answers what was stored under its key or one that means the same to a worker), `MappedWorkerHasKey` (of a
  key that a worker's store handler takes: the other keys are on no worker, and `m` names one all the same), `NeverOvercharged` (concurrent, with failures).

### Bounds, and why they are enough

- hw3/hw4: a page of 64 bytes has three sizes of block below or at the page (16, 32, 64) and one above it (128), so
  splits and merges are up to two deep, both buddies, left and right, occur, and blocks
  larger than a page, which never merge, lie beside pages that do. The requests are at the
  edge of a size (8 bytes and the header fill 16 exactly, 9 do not; 57 need more than a page). `HeapLimit`
  and `MapLimit` are the memory the kernel has; reaching them is `ENOMEM`. The header of hw3 is 8 bytes here
  (the least that divides 16); the proofs take any.
- Two threads show every race on one lock of hw3. `arena_heap` takes three because a circle
  through `arena_list_lock` and two arena locks needs three parties; `NextArena` wraps only then.
- `heap_api`: 16 words hold one to eight blocks, so both threads' calls meet in a heap that has room, is nearly full, or is
  out of memory. Sizes of 1 and 3 words, both below `ReallocMax`, make a `realloc`
  grow, shrink and keep a bin, with contents of one word and of three (of which the first and the last are marked); with alignments of 2 and 4 words `memalign` moves the
  pointer, or not, in both courses; 4 words (32 bytes) is the first that goes wrong (section 5) and must still stay in its block.
- `load_test`: three threads let two be through before `main` wakes up. 0, 2 and 4 are below, inside and above the number started at first.
- `checkpoint`: regions of 1, 2 and 4 units and registers of 3 let up to three pieces of one region be written, which is every retry there is, and let
  what is left of a partial image be as long as the registers. Two values tell a new memory from an old one.
- `quick_sort`: five pointers recurse up to four deep with empty, single and longer parts on both sides; the four names
  include a prefix of others, and repeat.
- hw3 has two pages: the break starts at 64 of 192. Other code takes 32 bytes, half a page, which is the one distance from a page boundary that the padding
  gets right: a block on an unaligned break and, when the break moves between the two calls of `sbrk`, the failed assertion both occur.
- hw6: the keys `a?x`, `%2Fa` and `%` are in `proxy_sequential` one of each kind: read as another key, stored nowhere and found as another, no URL; `proxy_failures` has a key that is read as another and one that is not. `Requests` bounds the requests of each client. One append that
  moves the slice and one that does not need capacities 1, 2 and 4; three workers added reach them in `proxy_sequential` and `lost_answer`.
  An append over another one's worker takes five requests to add workers and a store, more than `proxy_failures` makes: that
  `MappedWorkerHasKey` holds whatever happens before it, is proved and not only checked.
- Symmetry is used only in runs without liveness properties, on the threads of `arena_heap` and the threads and bins of `heap_api`, which no definition tells apart.
- `CHECK_DEADLOCK FALSE`: a process that has ended or been killed, a sort or a test that is done, or clients that have no
  requests left, take no step. For hw4 `SomeoneMoves` says more than the deadlock check would; for hw1, the load test and hw2
  `Terminates`, `Ends` and `CallsEnd` do.

### Fairness

- `BuddyHeap`: weak fairness of each thread's own steps inside a call: the operating system keeps scheduling a runnable
  thread. Nothing obliges a thread to make a call, and waiting for the mutex is not strongly fair, so no thread
  is promised that its own `malloc` returns; only the owner of the lock is promised to give it up (`LockReleased`).
- `LoadTest`: weak fairness of `main`, of every thread's steps, of a wake-up that was signalled, and of turns that do
  something (the random numbers are not zero for ever). The mutex is strongly fair for `LockFinish`: `main` may
  wake up for nothing again and again and take it between, and no scheduler starves a thread by that for ever.
- `Checkpoint`: weak fairness of the handler and of the restarter. The number of retries, not fairness, ends a read that keeps failing.
- `QuickSort`: the processor goes on.
- hw4, the wrappers and hw6 are checked for safety only.

## 4. The proofs

The theorems hold for every value of the constants that the `ASSUME`s of the modules allow: any number of threads, arenas,
clients, keys and workers, any ladder of block sizes, any requests and limits, arrays of any length, any memory map. Each module of
proofs states an inductive invariant (`IInv`, in `CheckpointProofs` `Inv` and `Kept`), shows that the initial states have it and that every action keeps it, one
lemma for an action or a group of like ones, and draws the theorems from it.

| Module | Theorem | Statement |
|---|---|---|
| `BuddyHeapProofs` | `TypeCorrect` | `Spec => []TypeOK` |
| | `BlocksStayApart` | `Spec => []BlocksApart` |
| | `HeldBlocksStayOffList` | `Spec => []HeldBlocksOffList` |
| | `CriticalSectionExclusive` | `Spec => []MutualExclusion` |
| | `HeldBlocksStayUntouched` | `Spec => HeldBlocksUntouched` |
| | `ImplementsPromise` | `Spec => KeepsPromise`: `BuddyHeap` implements `HeapPromise` |
| | `NoBlockLost` | `Spec => []NothingLost` |
| | `PagesStayTiled` | `Spec => []PagesTiled` |
| | `HalvesAreMerged` | `Spec => []Coalesced` |
| | `LockIsGivenUp` | between a lock and its unlock `StepsToUnlock` is a natural number that every step of the owner lowers and no other step raises |
| `ArenaHeapProofs` | `TypeCorrect` | `Spec => []TypeOK` |
| | `ArenasExclusive` | `Spec => []ArenaExclusion` |
| | `BlocksHaveOneOwner` | `Spec => []OneOwner` |
| | `ArenasAreBalanced` | `Spec => []Balanced` |
| | `ForkIsQuiescent` | `Spec => ForkQuiescent` |
| | `UsedBlocksAreCounted` | `Spec => []UsedInAll` |
| | `LocksNeverCircle` | `Spec => []SomeoneDoesNotWait`: what `SomeoneMoves` says, without `ENABLED` |
| | `ImplementsPromise` | `Spec => KeepsPromise`: `ArenaHeap` implements `HeapPromise` |
| `HeapApiProofs` | `TestNeverFails` | `Spec => []TestPasses` |
| | `HeadersStay` | `Spec => []HeadersKept` |
| | `BinsStayInside` | `Spec => []BinsInside` |
| | `ReallocKeepsContents` | `Spec => []ReallocKeeps` |
| `KVProxyProofs` | `TypeCorrect` | `Spec => []TypeOK` |
| | `NothingIsInvented` | `Spec => []NothingInvented`, whatever `StoredAs` and `SoughtAs` make of the keys |
| | `MappedKeysAreKept` | `Spec => []MappedWorkerHasKey`, likewise |
| | `RemIsNeverOvercharged` | `Spec => []NeverOvercharged` |
| | `ImplementsPromise` | `Spec => KeepsPromise`: for one client and no failures, as in `proxy_sequential`, `KVProxy` implements `KVPromise` with `Same` for the aliases |
| | `DistinctKeysHaveOneAnswer` | where `Same` keys are equal, `KVPromise` permits one answer for each key: it is a map |
| `LoadTestProofs` | `NoSignalIsLost` | `Spec => []NoLostWakeUp` |
| | `JoinsNeverWait` | `Spec => []JoinsReturn` |
| | `CountsAreTrue` | `Spec => []CountsTrue`, if `pthread_create` never fails (`FALSE \notin Created`, as in the run) |
| `CheckpointProofs` | `RestoredDoesNotWrite` | `Spec => []RestoredNeverWrites` |
| | `ReaderStaysInStep` | `Spec => []ReaderInStep` |
| | `CompleteImageStays` | `Spec => ImageKept`, if the process is not root's (`~ Root`, as in the run) |
| | `ImplementsPromise` | `Spec => KeepsPromise`: if the process is not root's, `Checkpoint` implements `CheckpointPromise` |
| | `CallsRunOut` | in a checkpoint or restart `StepsLeft` is a natural number that every step lowers |
| `QuickSortProofs` | `StaysInPart` | `Spec => []InPart` |
| | `PivotsStayPlaced` | `Spec => []PivotsPlaced` |
| | `MainGetsSorted` | `Spec => []Sorted` |
| | `SortRunsOut` | `StepsLeft` is a natural number that starts at 16 n^2 + 1 for n names, and every step lowers it |

**hw3.** No invariant of the run is inductive alone. `Split` keeps blocks apart only if the block it halves is still on the list and still larger than
needed: that is what `CallsInOrder` records of a call between its search and its
end, and it survives the other threads' steps because `MutualExclusion` keeps them out of the heap.
`MutualExclusion` holds although `find_buddy` unlocks once per frame, as a thread in `f_unlock` may no longer
own the lock and the unlock of a recursive mutex by another thread has no effect. `Unite` needs `BlocksApart` itself: the buddy ends where the block begins,
so nothing can lie between them (`UniteFacts`). For the
refinement, `Take` maps to `Grant` (`TakeGrants`), `FreeCall` to `Return` (`FreeCallReturns`), any other step
to a stutter.

That `NothingLost` holds past the silent returns of `free.c:48-54` needs `InBounds`: every block lies between `Start` and `heap_end` and at a multiple of 16, so that `free`
accepts each block the program holds (`HeldBlocksAccepted`). A new block is at a page and behind all others, and pages and block sizes are multiples of 16 (`SixteenDivides`).

Where the blocks lie is an argument of its own (`Layout`). A block of n bytes, a page at most, lies at a multiple of n (`Aligned`), so
the address that `find_buddy` computes from the offset in the page is the half with which it was cut from one block
(`HalvesAreBuddies`), and the whole block is inside one page (`InOnePage`). Halves are side by side on the list only while a call splits or merges
them (`CoalescedBut`); between calls there is none. `Aligned` ends where the assertion of `malloc.c:39` kills the process, and so do the theorems that rest on it,
as the properties say. Sizes are known only to double through 16 and the page, not to be powers of two: that the smaller
divides the larger (`SizesDivide`) is an induction, done as a proof that there is no least counterexample (`LeastNumber` of `NumberLemmas`).

What the owner of the lock can still do before it unlocks is bounded by the size of what it works on (`StepsToUnlock`): a split halves the block that `fit` has, a merge
doubles the one `find_buddy` has and stops at the page, and no block is larger than the heap may get (`OwnerWorks`). The threads outside the critical section
can only call, wait or, in `free`'s surplus unlocks, return (`OthersLeaveTheOwner`).

**hw4.** An arena's lock guards its list, but the blocks of all arenas come from one address space, and what `mmap` returned is in
no list and no header until `AddMemory`, with other threads doing the same: `FreshApart` keeps these pages apart from the blocks and
from each other. The temporary arena has no lock; nobody else works in it because its user holds `arena_list_lock` until
`CopyTemp` has given its list to arena 0, and no thread has an arena of the array before (`InStep`). `Locked` says which locks a thread holds where, with those that `fork_prepare`
has collected up to its `cursor`: at `Fork` these are all, which is `ForkQuiescent`. `Balanced` is not inductive, as it forgets the order: `Dealt` says that the first r arenas of the
round under way have one thread more. The proof of the refinement takes blocks from whatever arena to the one promise (`ExtentsApart`).

`UsedInAll` speaks of moments without calls, so it is not inductive: `Counts` says that the counters add up to the blocks in use and the blocks that a
call of `free` has given up and not yet counted (`Freeing`), and that only the temporary arena counts before the array exists. A thread may count
below zero in its own arena, as it counts what others allocated; the sum does not show it. That waiting makes no circle rests on where a thread can hold a lock (`Holders`). Nobody waits inside the array
or an arena; the thread that builds the array has the temporary arena to itself; so whoever waits for the array's lock waits for a thread of `fork_prepare`
or one that moves, and the threads of `fork_prepare` go up the arenas: the one with the highest lock taken waits for a higher one, which nobody has (`LastHolderMoves`).
`Waits` names the guards of the model's steps that look at a lock. That a thread in a call has no step exactly when it `Waits`, while no thread has died (`fault`), is read
off the guards; `SomeoneMoves` checks the consequence of both.

**The wrappers.** Three kinds of things are held: what a bin has, what a call of `realloc` is about to copy and free, and what a call has been
given (`Held`). Each is in a block of its own, behind its header (`Places`): that is the invariant, and for each wrapper the lemma that it writes to
what it was given only, wherever `memalign` moves the pointer (`Filled`, `CallocFills`, `ReallocFills`, `Memalign3Fills`, `Memalign4Fills`). So no step touches a header
or what somebody else holds (`OwnWrites`, `FreesOne`), and the marks, the zeros of `calloc` and the copies of `realloc` stay (`Contents`). `SizesInWords` is needed
because hw4's `realloc` reads a size from a word that need not be one, and hw3's from before a pointer that was moved. `ReallocKeeps` rests on the header that hw3's `realloc` finds: a
bin that `memalign` has not moved begins right behind it, so the size there is more than the bin's (`OldSize`). The proofs use of the blocks below
only that they are apart and large enough, not their alignment or the ladder of sizes. `ConstantsAssumption` says that no alignment is above the heap's first
address: `test1.c` asks for 32 bytes at most.

**hw6.** Arrays only grow, and a slice is never longer than its array, so what a request has read, an array, a length, an index, stays a
place that exists (`RequestsInOrder`); everything in a worker's table was sent (`TablesSent`). For
`MappedWorkerHasKey` the address in a cell must not change between `RecordKey` and `Post`: it does not, unless an append writes over the
cell (`AddressesKept`). The attempt to prove it of an earlier model, in which a pointer was a copy of the address, failed there and showed that the model was wrong: the code
reads the pointer three times. With one client `m` names the worker of the last store of a key, and what a get of it
finds is its last value but while a store is placing it (`InTurn`), or a later value of a key that means the same: `Reply` maps to `Store`, the answers to a get to `Get`. A store of one key moves only its own entry
of `m`, but changes the worker's value of all keys that mean the same, which is why `latest` is a set.

`NeverOvercharged` needs to know through which cell a charge went, and no variable does: whether an update of `Rem` is lost depends on who read what when.
The invariant says that there are such numbers (`Accounted`), one for each cell of each array there has been. Those of one array sum up to no more than what all answered stores
were charged (`WithinTotal`); each covers what is missing in its cell (`CoversCells`) and what will be, when a store that has read `Rem` writes it back (`CoversPending`). `Reply` raises one number
and the total by the same; `Charge` writes what is covered already, in an old array or a new one; an append hands the numbers on with the cells it copies (`AppendAccounted`), unless it writes over a cell.
That the addresses are finitely many (`ConstantsAssumption`) is needed for their sum to mean something.

**Sums.** `SumFunctionOnSet` of the community modules chooses a function that satisfies a recursive equation. `NumberLemmas` builds one up, size by size (`SumBody`), and shows that any
such function holds the same sums in whatever order the elements are taken (`SumsUnique`, `SumTable`). The induction on finite sets is again a proof without the induction theorem, by
a least counterexample (`EverySubset`). From these come the facts that the other proofs cite: one term taken out (`SumStep`), one term changed (`SumChanged`), equal or larger terms (`SumSame`, `SumGrows`).

**Load test.** The mutex is `main`'s in its loop and scan and a thread's from `LockFinish` to `UnlockFinish` (`MutexHeld`); a flag is
set exactly from `SetFlag` to the join (`FlagsTrue`); what `main` has scanned is clear (`ScannedClear`), so a flag set while it waits has its signal still to come. `CountsAreTrue` alone needs that every thread can be
created, since the code does not look (section 5); the other two do not.

**hw2.** Every unit of an image has a place: a region's header and data lie where the sizes of the saved regions before it
say (`Offset`), the registers behind them all. No two things belong at one place (`OnePlace`, `HeaderBelongs`, `DataBelongs`, `ContextBelongs`), so a unit that
is read at a place is what belongs there, however many pieces it came in, and whoever wrote it: an image overwritten by root is no exception (`UnitsInPlace`,
`ReaderInPlace`). The offset of the last region is where the restarter looks for the registers, and the stack was read before it (`StackRead`), so a restored process finds
`restart` set. These two theorems need no assumption on `Root`. The other two do: only if `open` made the file does the handler append (`ImageGrows`), and
only then is an image, complete or not, of one memory (`OneMemory`). What has been read so far is of that memory (`ReadSoFar`), and all of it has been read when the registers are
found (`AllRead`): `ReadContext` maps to `Restore`, the `Write` of the last registers to `Save`, `Kill` and what gives up to `Die`, the removal of the file
to `Discard`. An image stands for one memory, as two memories have two images (`OneImage`). That `FlattenSeq` joins its sequences in order (`FlattenPlaces`) is an induction on their number, done as in `SizesDivide`.
A checkpoint takes a header and the data of one saved region after the other (`NextSaved` goes up), a restart maps a region that was not mapped with each header it reads, and a read or write is tried
four times at most: `CallsRunOut` counts these down, in images of one memory and in torn ones. That unmapped memory differs from any contents (`LayoutAssumption`) is
needed to see that a region has been mapped.

**Quicksort.** `str_lt` is a total preorder whose strict part is the order of strings (`StrLtTotal`, `StrLtTransitive`, `StrLtAfter`), found character by character up to the
terminator. The parts of the calls under way are nested (`Gives`), each caller's pivot is placed and its left part, when it comes to the right one,
sorted (`Waits`): what a call does inside its part leaves both as they were (`CallersGoOn`, `PlacedKept`, `SortedKept`). `Epilogue` gives the
registers back from the frame, and joins two sorted parts and a pivot to one (`Joined`). The array stays the first one
under a bijection of places (`Permuted`), which says the same of every name as counting it (`NoneLost`).
The bound on the steps is the square of the length of the part in bytes (`Cost`): the squares of the two parts are not above that of both together (`SquareOfParts`), so no pivot makes it worse, and what
leaving the pivot out saves pays the loop (`SquareWithoutPivot`). Each frame on the stack holds what its caller has left (`AfterReturn`); `Prologue` and `Epilogue` move it between the registers and the sum over the stack (`CallersOfTwo`).

Only model-checked:

- liveness, `LockReleased`, `Ends`, `CallsEnd`, `Terminates`, and `ENABLED`, in `SomeoneMoves`: out of the prover's reach. `LockIsGivenUp`, `CallsRunOut`, `SortRunsOut` and `LocksNeverCircle` are the
  parts without fairness and `ENABLED`: no state lets the steps go on for ever; that there is a next step and that it is taken is what TLC checks;
- what the violation runs refute.

## 5. Where the code differs from what it says

Shown by the violation runs and listed under `findings`: `free` on an empty list
(hw3 `free.c:88`), the child's locks (hw4 `utils.c:37`), the contents `realloc` loses (hw4 `realloc.c:23`), and a key
unreachable while it moves (hw6 `proxy.go:103`).

Met while modelling and part of the models' behaviour, without a run of their own:

- hw3 `malloc.c:34,39`: the padding of an unaligned break is computed from the wrong side, and the assertion fails for a break that is not at
  a multiple of half a page, or that moves between the two calls of `sbrk` (`NewBlock`, `fault`).
- hw3 `memalign.c:31` moves the pointer *by* its remainder, not to the next multiple: from an alignment of 32 on (16 in
  hw4) the address is not aligned. A pointer that was moved is not recognised by `free.c:52`, and the block is never reused (`FreedBy`).
- hw3 `realloc.c:23`: the old size counts the header, so the copy runs past the end of the old block; at the break it reads what may not be there.
- `calloc.c:16`, `realloc.c:27`, `memalign.c:24` compare with -1, and `malloc` fails with NULL: address 0 is written (`fault` in `HeapApi` and
  `ArenaHeap`). The product in `calloc.c:11` may wrap around.
- hw4 `free.c:74`: the test lets no pointer through, so freed memory is never reused. `free.c:68`: a thread whose first
  call is `free` has no arena; the process stops (`fault` is "free").
- hw4 `free.c:71` counts in the caller's arena (hence `UsedInAll` and not one count per arena);
  `malloc.c:27` loses updates of the total. `malloc_stats` before the first `malloc` walks address 0.
- `test1.c:477` ignores a failure of `pthread_create`; `main` then waits for ever (`Created`).
- hw2 `utils.c:95`: -1 is not below an unsigned length (`ReadFails`). `myrestart.c:85` says that only the registers are left
  behind the loop: not in a partial image whose rest happens to be as long (`ReaderInStep` is weaker for it). Root overwrites a
  finished image, which keeps its old tail if the new one is shorter (`Root`). A restored process has no handler for
  SIGUSR2 and cannot be checkpointed again (`armed`). The map buffer holds 4000 bytes.
- hw1: `hw1.asm:92` says `str_lt` answers x > y; it answers x >= y, so the array is sorted in descending order.
- hw6: a failed store leaves the key at a worker without it (`RecordKey` before `PostFails`); two
  appends at once lose a worker, and if a store holds a pointer to the cell both write to, `m` names one worker while the value
  goes to another (`overwritten`); the charge of `proxy.go:116` goes to the old array when `append` has moved the slice; the
  length of a value is not compared with `Rem` (`IsMostLeisure`); a
  refused worker is added all the same (`NewWorker` with `NoLoc`).
- hw6 `proxy.go:67, 106`: the key is not escaped in the worker's URL. A store of `a?x` overwrites `a` on the worker, with which a get of either is then answered; a key
  `%` is placed on a healthy worker that never hears of it (`StoredAs`, `SoughtAs`). Only keys of which no two are `Same` have one answer each.

## 6. Plan

Done, in this order: `HeapPromise`, `BuddyHeap` with its runs and first proofs; `ArenaHeap`; `KVPromise`,
`KVProxy`; `CheckpointPromise`, `Checkpoint`; `LoadTest`; `HeapApi`; `QuickSort`; the proofs of section 4. Left to model: `OffsetList`, hw3's list as the two
link offsets of each header, of bounded width, refining `BuddyHeap`'s set; the scan of a memory map's text that hw2 and hw0 share;
`reallocarray` and `posix_memalign`.

Every safety property of the runs that does not speak of `ENABLED` is proved. To prove next, with a prover that has it: that in `ArenaHeap` a thread in a call
has no step exactly when it `Waits`.

Not modelled, and why: hw5 measures time and plots it; hw0 is one sequential pass that prints and copies what it parses (read in the code: `hw0.1.c` steps over the first character of every line
but the first, `s = ++next` behind `*next++`); hw4's `itoa` is
vendored formatting, `malloc_stats` prints; hw1's `print_array` prints; the parts of `test1.c` for other thread libraries are not compiled.
