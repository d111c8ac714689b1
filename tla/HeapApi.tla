-------------------------------- MODULE HeapApi --------------------------------
(***************************************************************************)
(* calloc, realloc and memalign of hw3 and hw4, and the program that tests *)
(* them: the bins of test1.c, which each thread fills, checks and frees.   *)
(*                                                                         *)
(* The wrappers stand on any allocator that keeps HeapPromise and hands    *)
(* out what BuddyHeap and ArenaHeap do: a power of two behind a header, at *)
(* a multiple of its size.  Memory is counted in words of eight bytes.     *)
(***************************************************************************)
EXTENDS Integers, FiniteSetsExt

CONSTANTS
  Threads, Bins,   \* the threads of test1, and the bins of each
  Courses,         \* 3, 4: the allocators that are tried
  Sizes,           \* the sizes the bins ask for
  Alignments,      \* sizeof(int) << r; half a word counts as one
  BlockSizes,      \* powers of two
  Start, Top,      \* the first word of the heap, and the one after it
  ReallocMax,      \* REALLOC_MAX
  Stride           \* how far apart mem_init marks a bin

Heap == Start .. Top - 1
NULL == 0

ASSUME ConstantsAssumption ==
  /\ Courses \subseteq {3, 4} /\ Sizes \subseteq Nat \ {0} /\ Alignments \subseteq Nat \ {0}
  /\ BlockSizes \subseteq Nat \ {0} /\ Start \in Nat \ {0} /\ Top \in Nat
  /\ ReallocMax \in Nat /\ Stride \in Nat \ {0}
  /\ \A align \in Alignments : align <= Start  \* 32 bytes at most; nothing is mapped that low

VARIABLES
  course,  \* whose allocator it is
  word,    \* what each word of the heap holds
  used,    \* the blocks that are not free: [start, size]
  bin,     \* struct bin of each thread: [ptr, size, how], how being the call it came from
  call,    \* what each thread is in
  status   \* of the process: "running", or how it ended

vars == <<course, word, used, bin, call, status>>

Zero == <<"zero">>
Junk == <<"junk">>
Mark(ptr, i) == <<"mark", ptr, i>>
Empty == [ptr |-> NULL, size |-> 0, how |-> "none"]
Idle == [at |-> "idle", bin |-> Empty, how |-> "none", b |-> 0, size |-> 0, align |-> 0, res |-> NULL]

------------------------------------------------------------------------------
(* The allocator underneath.                                               *)

Overhead == IF course = 3 THEN 1 ELSE 3
Words(p, n) == p .. p + n - 1
Payload(k) == Words(k.start + Overhead, k.size - Overhead)

\* hw3: size and offset share a word; realloc reads the size there.  hw4: size,
\* next, arena_id; realloc reads arena_id as the size: 0, as no code sets the id
\* of any arena.
HeaderOf(k) == IF course = 3 THEN <<<<"size", k.size>>>>
                             ELSE <<<<"block", k.size>>, Junk, <<"size", 0>>>>

\* The least block size that is enough, if there is one.
Needed(n) == {s \in BlockSizes : /\ s >= n + Overhead
                                 /\ \A r \in BlockSizes : r >= n + Overhead => s <= r}
IsFree(k) ==
  /\ Words(k.start, k.size) \subseteq Heap /\ k.start % k.size = 0
  /\ \A u \in used : Words(k.start, k.size) \cap Words(u.start, u.size) = {}

\* free() of hw3 ignores what does not lie behind a multiple of 16 bytes, as
\* NULL and what memalign moved down; free() of hw4 ignores everything.  What
\* a bin held that was given back does not matter any more.
FreedBy(ptr) == {k \in used : course = 3 /\ k.start = ptr - 1 /\ k.start % 2 = 0}
Free(m) ==
  LET gone == Words(m.ptr, m.size) \cup UNION {Words(k.start, k.size) : k \in FreedBy(m.ptr)}
  IN /\ used' = used \ FreedBy(m.ptr)
     /\ word' = [a \in Heap |-> IF a \in gone THEN Junk ELSE word[a]]

------------------------------------------------------------------------------
(* The wrappers.                                                           *)

\* What memalign asks malloc for.  Variant: no room to move the pointer.
Unmoved(c) == c.align <= IF course = 3 THEN 1 ELSE 3
NoRoom(c) == c.size
MemalignAsks(c) ==
  IF Unmoved(c) THEN c.size ELSE (IF course = 3 THEN 1 ELSE 2) * c.align + c.size
Asked(c) == IF c.how = "memalign" THEN MemalignAsks(c) ELSE c.size

Malloc(t) ==
  LET c == call[t]
      after == IF c.how = "malloc" \/ (c.how = "realloc" /\ c.bin.ptr = NULL)
               THEN "return" ELSE "fill"
  IN /\ status = "running" /\ c.at = "malloc"
     /\ \/ \E s \in Needed(Asked(c)), a \in Heap :
             LET k == [start |-> a, size |-> s]
             IN /\ IsFree(k) /\ used' = used \cup {k}
                /\ word' = [x \in Heap |-> IF x \in Words(a, Overhead)
                                           THEN HeaderOf(k)[x - a + 1] ELSE word[x]]
                /\ call' = [call EXCEPT ![t] = [@ EXCEPT !.at = after, !.res = a + Overhead]]
        \/ call' = [call EXCEPT ![t].at = after] /\ UNCHANGED <<used, word>>
     /\ UNCHANGED <<course, bin, status>>

\* A wrapper goes on after writing vals(i) to the n words at p, or dies of it.
Fault == status' = "fault" /\ UNCHANGED <<word, call>>
Writes(t, p, n, vals(_), next) ==
  IF Words(p, n) \subseteq Heap
  THEN /\ word' = [a \in Heap |-> IF a \in Words(p, n) THEN vals(a - p) ELSE word[a]]
       /\ call' = [call EXCEPT ![t] = next] /\ UNCHANGED status
  ELSE Fault

\* calloc.  It looks for -1, so malloc's NULL is cleared.  Variant: one word less.
ClearedShort(c) == c.size - 1
Cleared(c) == c.size
Calloc(t) ==
  LET c == call[t]
      zero(i) == Zero
  IN c.how = "calloc" /\ Writes(t, c.res, Cleared(c), zero, [c EXCEPT !.at = "return"])

\* realloc: as many bytes as the header says there were, or as are asked for.
\* Variants: all there were; one less.
OldSizes(c) ==
  LET w == word[c.bin.ptr - 1]
  IN CASE w[1] = "size" -> {w[2]}
       [] w = Zero -> {0}
       [] OTHER -> 0 .. c.size
CopyAll(c) == OldSizes(c)
CopyShort(c) == {Min({n, c.size}) - 1 : n \in OldSizes(c) \ {0}} \cup (OldSizes(c) \cap {0})
Copied(c) == {Min({n, c.size}) : n \in OldSizes(c)}
Realloc(t) ==
  LET c == call[t]
      old(i) == word[c.bin.ptr + i]
  IN /\ c.how = "realloc"
     /\ \E n \in Copied(c) :
          IF Words(c.bin.ptr, n) \subseteq Heap
          THEN Writes(t, c.res, n, old, [c EXCEPT !.at = "release"])
          ELSE Fault

\* memalign of hw3: the pointer moves down by what it is off, and a word before
\* it says so.
PushDown(c) == c.res % c.align
Memalign3(t) ==
  LET c == call[t]
      res == c.res + PushDown(c)
      back(i) == Junk
  IN /\ course = 3
     /\ Writes(t, res - 1, IF PushDown(c) > 0 THEN 1 ELSE 0, back,
               [c EXCEPT !.at = "return", !.res = res])

\* memalign of hw4: a second header goes before it.
Memalign4(t) ==
  LET c == call[t]
      push == PushDown(c) + IF PushDown(c) < Overhead THEN c.align ELSE 0
      mask(i) == IF i = 2 THEN word[c.res + push - 1] ELSE Junk
  IN /\ course = 4
     /\ Writes(t, c.res + push - Overhead, Overhead, mask,
               [c EXCEPT !.at = "return", !.res = c.res + push])

Memalign(t) ==
  /\ call[t].how = "memalign"
  /\ \/ Unmoved(call[t]) /\ call' = [call EXCEPT ![t].at = "return"] /\ UNCHANGED <<word, status>>
     \/ ~ Unmoved(call[t]) /\ (Memalign3(t) \/ Memalign4(t))

Fill(t) ==
  /\ status = "running" /\ call[t].at = "fill"
  /\ Calloc(t) \/ Realloc(t) \/ Memalign(t)
  /\ UNCHANGED <<course, used, bin>>

\* realloc frees what it copied from.
Release(t) ==
  /\ status = "running" /\ call[t].at = "release"
  /\ Free(call[t].bin)
  /\ call' = [call EXCEPT ![t].at = "return"]
  /\ UNCHANGED <<course, bin, status>>

------------------------------------------------------------------------------
(* The bins.                                                               *)

\* mem_init and mem_check.
Marked(m) == {i \in 0 .. m.size - 1 : i % Stride = 0 \/ i = m.size - 1}
Intact(m) == \A i \in Marked(m) : word[m.ptr + i] = Mark(m.ptr, i)
IsZero(p, n) == \A a \in Words(p, n) : word[a] = Zero

\* bin_alloc up to its call: the bin is checked, and freed unless realloc does.
BinAlloc(t, b, how, size, align) ==
  LET m == bin[t][b]
  IN /\ status = "running" /\ call[t].at = "idle"
     /\ how = "realloc" => m.size < ReallocMax
     /\ IF Intact(m)
        THEN /\ IF m.size > 0 /\ how # "realloc" THEN Free(m) ELSE UNCHANGED <<used, word>>
             /\ call' = [call EXCEPT ![t] =
                  [at |-> "malloc", bin |-> IF how = "realloc" THEN m ELSE Empty,
                   how |-> how, b |-> b, size |-> size, align |-> align, res |-> NULL]]
             /\ bin' = [bin EXCEPT ![t][b] = Empty] /\ UNCHANGED status
        ELSE status' = "corrupt" /\ UNCHANGED <<word, used, bin, call>>
     /\ UNCHANGED course

\* The rest of bin_alloc: calloc's memory is tested, and the bin is marked.
Return(t) ==
  LET c == call[t]
      m == [ptr |-> c.res, size |-> c.size, how |-> c.how]
  IN /\ status = "running" /\ c.at = "return"
     /\ \/ c.res = NULL /\ status' = "out of memory" /\ UNCHANGED <<word, bin, call>>
        \/ /\ c.res # NULL
           /\ IF c.how = "calloc" /\ ~ IsZero(c.res, c.size)
              THEN status' = "nonzero" /\ UNCHANGED <<word, bin, call>>
              ELSE /\ word' = [a \in Heap |-> IF a - m.ptr \in Marked(m)
                                              THEN Mark(m.ptr, a - m.ptr) ELSE word[a]]
                   /\ bin' = [bin EXCEPT ![t][c.b] = m]
                   /\ call' = [call EXCEPT ![t] = Idle] /\ UNCHANGED status
     /\ UNCHANGED <<course, used>>

\* bin_free.
BinFree(t, b) ==
  LET m == bin[t][b]
  IN /\ status = "running" /\ call[t].at = "idle" /\ m.size > 0
     /\ IF Intact(m)
        THEN Free(m) /\ bin' = [bin EXCEPT ![t][b] = Empty] /\ UNCHANGED status
        ELSE status' = "corrupt" /\ UNCHANGED <<word, used, bin>>
     /\ UNCHANGED <<course, call>>

\* bin_test.
BinTest(t) ==
  /\ status = "running" /\ call[t].at = "idle"
  /\ status' = IF \A b \in Bins : Intact(bin[t][b]) THEN "running" ELSE "corrupt"
  /\ UNCHANGED <<course, word, used, bin, call>>

Init ==
  /\ course \in Courses
  /\ word = [a \in Heap |-> IF course = 3 THEN Junk ELSE Zero] /\ used = {} /\ status = "running"
  /\ bin = [t \in Threads |-> [b \in Bins |-> Empty]] /\ call = [t \in Threads |-> Idle]

Next == \E t \in Threads :
  \/ \E b \in Bins, size \in Sizes :
       \/ \E how \in {"malloc", "calloc", "realloc"} : BinAlloc(t, b, how, size, 0)
       \/ \E align \in Alignments : BinAlloc(t, b, "memalign", size, align)
  \/ Malloc(t) \/ Fill(t) \/ Release(t) \/ Return(t)
  \/ \E b \in Bins : BinFree(t, b)
  \/ BinTest(t)

Spec == Init /\ [][Next]_vars
------------------------------------------------------------------------------
(* Properties.                                                             *)

\* What test1.c looks for never happens: no bin is found changed, and calloc's
\* memory is zero when the caller gets it, whatever the threads do meanwhile.
TestPasses == status \notin {"corrupt", "nonzero"}

\* No copy, clearing, back pointer or mark runs over the header of a block in use.
HeadersKept ==
  status = "running" => \A k \in used, i \in 1 .. Overhead : word[k.start + i - 1] = HeaderOf(k)[i]

\* A bin lies inside the payload of one block in use, which holds no other bin:
\* however far memalign moved its pointer.
BinsInside ==
  \A t \in Threads, b \in Bins : bin[t][b].size > 0 =>
    \E k \in used :
      /\ Words(bin[t][b].ptr, bin[t][b].size) \subseteq Payload(k)
      /\ \A s \in Threads, a \in Bins :
           bin[s][a].size > 0 /\ bin[s][a].ptr \in Payload(k) => s = t /\ a = b

\* realloc.c:5 "The contents will be unchanged in the range from the start of
\* the region up to the minimum of the old and new sizes", for what malloc,
\* calloc or realloc returned.
KeptBy(courses) == \A t \in Threads :
  LET c == call[t]
      kept == {i \in Marked(c.bin) : i < c.size}
  IN /\ status = "running" /\ course \in courses /\ c.how = "realloc"
     /\ c.bin.how # "memalign" /\ c.at = "return" /\ c.res # NULL
     => \A i \in kept : word[c.res + i] = Mark(c.bin.ptr, i)

\* realloc.c:5 as hw3 has it.
ReallocKeeps == KeptBy({3})
\* realloc.c:5 as hw4 has it: the size is read from the wrong word.
ContentsKept == KeptBy({4})
==============================================================================
