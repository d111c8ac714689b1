--------------------------- MODULE HeapApiProofs ---------------------------
(***************************************************************************)
(* What calloc, realloc and memalign do to the bins of test1.c, for any    *)
(* number of threads, bins, sizes and alignments.                          *)
(*                                                                         *)
(* Three kinds of things are held: what a bin has (bin), what a call of    *)
(* realloc is about to copy and free (old), and what a call has been given *)
(* (new).  The invariant puts each of them in a block of its own, behind   *)
(* the header (Places); so whatever a step writes to what it holds leaves  *)
(* the headers and everything else that is held as they were (OwnWrites,   *)
(* FreesBut), which keeps the marks, the zeros and the copies (Contents).  *)
(***************************************************************************)
EXTENDS HeapApi, NumberLemmas

\* What the process, a bin and a call may be.

Hows == {"none", "malloc", "calloc", "realloc", "memalign"}
BinType == [ptr : Nat, size : Nat, how : Hows]
CallType == [at : {"idle", "malloc", "fill", "release", "return"}, bin : BinType, how : Hows,
             b : Bins \cup {0}, size : Nat, align : Nat, res : Nat]

\* The blocks in use: behind one another, each with its header.
Types ==
  /\ course \in {3, 4}
  /\ bin \in [Threads -> [Bins -> BinType]] /\ call \in [Threads -> CallType]
  /\ used \subseteq [start : Nat, size : Nat]
BlocksApart ==
  /\ \A k \in used : k.size > Overhead /\ Words(k.start, k.size) \subseteq Heap
  /\ \A j, k \in used : j # k => Words(j.start, j.size) \cap Words(k.start, k.size) = {}
Headers == \A k \in used, i \in 1 .. Overhead : word[k.start + i - 1] = HeaderOf(k)[i]
SizesInWords == \A a \in Heap : word[a][1] = "size" => word[a][2] \in Nat

\* What a call is about.
CallsInOrder ==
  /\ \A t \in Threads, b \in Bins : bin[t][b].size > 0 <=> bin[t][b].ptr # NULL
  /\ \A t \in Threads : LET c == call[t] IN
       /\ c.bin.size > 0 <=> c.bin.ptr # NULL
       /\ c.at # "idle" => /\ c.b \in Bins /\ c.size > 0 /\ c.how # "none"
                           /\ c.how = "memalign" => c.align \in Alignments
       /\ c.at = "malloc" => c.res = NULL
       /\ c.how # "realloc" => c.bin = Empty
       /\ c.at = "fill" => c.how \in {"calloc", "memalign"}
                         \/ (c.how = "realloc" /\ c.bin.ptr # NULL)
       /\ c.at = "release" => c.how = "realloc" /\ c.bin.ptr # NULL

\* What bin b of thread t holds, what the call of t for it is to free, and what
\* it has got for it.
Kinds == {"bin", "old", "new"}
Held(o, t, b) ==
  LET c == call[t]
  IN CASE o = "bin" -> bin[t][b]
       [] o = "old" -> IF c.at \in {"malloc", "fill", "release"} /\ c.b = b THEN c.bin ELSE Empty
       [] o = "new" -> IF c.at \in {"fill", "release", "return"} /\ c.b = b /\ c.res # NULL
                       THEN [ptr |-> c.res, size |-> IF c.at = "fill" THEN Asked(c) ELSE c.size,
                             how |-> c.how]
                       ELSE Empty
In(m, k) ==
  /\ Words(m.ptr, m.size) \subseteq Payload(k)
  /\ m.how # "memalign" => m.ptr = k.start + Overhead
HeldInside ==
  \A o \in Kinds, t \in Threads, b \in Bins :
    Held(o, t, b).size > 0 => \E k \in used : In(Held(o, t, b), k)
HeldApart ==
  \A o, p \in Kinds, t, s \in Threads, b, a \in Bins : \A k \in used :
    /\ Held(o, t, b).size > 0 /\ Held(p, s, a).size > 0
    /\ Held(o, t, b).ptr \in Payload(k) /\ Held(p, s, a).ptr \in Payload(k)
    => o = p /\ t = s /\ b = a

MarksIntact ==
  \A o \in {"bin", "old"}, t \in Threads, b \in Bins : Intact(Held(o, t, b))
CallocCleared(t) == LET c == call[t] IN
  c.at = "return" /\ c.how = "calloc" /\ c.res # NULL => IsZero(c.res, c.size)
CopyKept(t) == LET c == call[t] IN
  /\ course = 3 /\ c.how = "realloc" /\ c.bin.how # "memalign" /\ c.res # NULL
  /\ c.at \in {"release", "return"}
  => \A i \in Marked(c.bin) : i < c.size => word[c.res + i] = Mark(c.bin.ptr, i)

Places == HeldInside /\ HeldApart
Contents == MarksIntact /\ \A t \in Threads : CallocCleared(t) /\ CopyKept(t)
IInv ==
  /\ Types /\ BlocksApart /\ Headers /\ SizesInWords /\ CallsInOrder /\ Places /\ Contents
  /\ TestPasses

------------------------------------------------------------------------------
(* Blocks and what they hold.                                              *)

\* The words of a block, and those behind its header.
LEMMA Blocks ==
  ASSUME Types, BlocksApart, NEW k \in used
  PROVE  /\ Overhead \in {1, 3} /\ k.start \in Nat /\ k.size \in Nat /\ k.size > Overhead
         /\ \A a : a \in Payload(k) <=> a \in Int /\ k.start + Overhead <= a
                              /\ a < k.start + k.size
         /\ \A a : a \in Words(k.start, k.size) <=> a \in Int
                          /\ k.start <= a /\ a < k.start + k.size
         /\ Words(k.start, k.size) \subseteq Heap
BY DEF Types, BlocksApart, Overhead, Payload, Words

\* A word lies in one block only.
LEMMA OneBlock ==
  ASSUME BlocksApart, NEW j \in used, NEW k \in used,
         NEW a, a \in Words(j.start, j.size), a \in Words(k.start, k.size)
  PROVE  j = k
BY DEF BlocksApart

\* What is held is a pointer and a size, and has a pointer if it has a size.
LEMMA HeldTypes ==
  ASSUME Types, CallsInOrder, NEW o \in Kinds, NEW t \in Threads, NEW b \in Bins
  PROVE  /\ Held(o, t, b) \in BinType
         /\ Held(o, t, b).size > 0 => Held(o, t, b).ptr # NULL
<1>2. bin[t][b] \in BinType /\ (bin[t][b].size > 0 <=> bin[t][b].ptr # NULL)
  BY DEF Types, CallsInOrder
<1>3. call[t] \in CallType /\ (call[t].bin.size > 0 <=> call[t].bin.ptr # NULL)
  BY DEF Types, CallsInOrder
<1>4. Empty \in BinType /\ Empty.size = 0
  BY DEF Empty, BinType, Hows, NULL
<1>5. Asked(call[t]) \in Nat
  <2>1. call[t].at # "idle" /\ call[t].how = "memalign" => call[t].align \in Nat
    BY <1>3 DEF CallType
  <2>2. call[t].size \in Nat /\ call[t].align \in Nat
    BY <1>3 DEF CallType
  <2> QED
    BY <2>2 DEF Asked, MemalignAsks
<1>6. call[t].res \in Nat /\ call[t].size \in Nat
     /\ call[t].how \in Hows /\ call[t].bin \in BinType
  BY <1>3 DEF CallType
<1>7. [ptr |-> call[t].res, size |-> IF call[t].at = "fill" THEN Asked(call[t]) ELSE call[t].size,
       how |-> call[t].how] \in BinType
  BY <1>5, <1>6 DEF BinType
<1> QED
  BY <1>2, <1>3, <1>4, <1>6, <1>7 DEF Held, Kinds

\* Where a thing that is held lies: in a block of its own.
LEMMA HeldPlace ==
  ASSUME Types, BlocksApart, CallsInOrder, Places,
         NEW o \in Kinds, NEW t \in Threads, NEW b \in Bins, Held(o, t, b).size > 0
  PROVE  \E k \in used : /\ In(Held(o, t, b), k) /\ Held(o, t, b).ptr \in Payload(k)
                         /\ Held(o, t, b).ptr + Held(o, t, b).size <= k.start + k.size
                         /\ k.start + Overhead <= Held(o, t, b).ptr
<1>1. PICK k \in used : In(Held(o, t, b), k)
  BY DEF Places, HeldInside
<1>2. Held(o, t, b).ptr \in Nat /\ Held(o, t, b).size \in Nat
  BY HeldTypes DEF BinType
<1> DEFINE p == Held(o, t, b).ptr
           n == Held(o, t, b).size
<1>3. p .. p + n - 1 \subseteq Payload(k) /\ p \in Nat /\ n \in Nat /\ n > 0
  BY <1>1, <1>2 DEF In, Words
<1> HIDE DEF p, n
<1>4. p \in Payload(k) /\ p + n - 1 \in Payload(k)
  BY <1>3
<1>5. p + n <= k.start + k.size /\ k.start + Overhead <= p
  BY <1>3, <1>4, Blocks
<1> QED
  BY <1>1, <1>4, <1>5 DEF p, n

\* Nothing that is held lies where a thing of another holder does.
LEMMA OthersElsewhere ==
  ASSUME Types, BlocksApart, CallsInOrder, Places, NEW k \in used,
         NEW o \in Kinds, NEW t \in Threads, NEW b \in Bins,
         Held(o, t, b).size > 0, In(Held(o, t, b), k),
         NEW p \in Kinds, NEW s \in Threads, NEW a \in Bins, Held(p, s, a).size > 0,
         ~ (o = p /\ t = s /\ b = a)
  PROVE  /\ \A j \in used : In(Held(p, s, a), j) => j # k
         /\ Words(Held(p, s, a).ptr, Held(p, s, a).size) \cap Words(k.start, k.size) = {}
<1>1. Held(o, t, b).ptr \in Nat /\ Held(o, t, b).size \in Nat
      /\ Held(p, s, a).ptr \in Nat /\ Held(p, s, a).size \in Nat
  BY HeldTypes DEF BinType
<1>2. Held(o, t, b).ptr \in Payload(k)
  BY <1>1 DEF In, Words
<1>3. ASSUME NEW j \in used, In(Held(p, s, a), j) PROVE j # k
  <2>1. Held(p, s, a).ptr \in Payload(j)
    BY <1>1, <1>3 DEF In, Words
  <2> QED
    BY <1>2, <2>1 DEF Places, HeldApart
<1>4. PICK j \in used : In(Held(p, s, a), j)
  BY DEF Places, HeldInside
<1>5. Payload(j) \subseteq Words(j.start, j.size)
  BY Blocks
<1> QED
  BY <1>3, <1>4, <1>5, OneBlock DEF In

\* What is held in block j and begins in block k: they are one block.
LEMMA InBlock ==
  ASSUME Types, BlocksApart, CallsInOrder, NEW o \in Kinds, NEW t \in Threads, NEW b \in Bins,
         Held(o, t, b).size > 0, NEW j \in used, NEW k \in used,
         In(Held(o, t, b), j), Held(o, t, b).ptr \in Payload(k)
  PROVE  j = k
<1>1. Held(o, t, b).ptr \in Nat /\ Held(o, t, b).size \in Nat
  BY HeldTypes DEF BinType
<1>2. Held(o, t, b).ptr \in Payload(j)
  BY <1>1 DEF In, Words
<1> QED
  BY <1>2, Blocks, OneBlock

\* The same of all that is held.
InOneBlock ==
  \A o \in Kinds, t \in Threads, b \in Bins, j, k \in used :
    Held(o, t, b).size > 0 /\ In(Held(o, t, b), j) /\ Held(o, t, b).ptr \in Payload(k) => j = k

\* The same after a step.
LEMMA InOneBlockNext == (Types /\ BlocksApart /\ CallsInOrder => InOneBlock)'
<1>1. Types /\ BlocksApart /\ CallsInOrder => InOneBlock
  BY InBlock DEF InOneBlock
<1> QED
  BY <1>1, PTL

------------------------------------------------------------------------------
(* What free does.                                                         *)

\* Nothing changes outside block k.
Changes(k) == \A a \in Heap \ Words(k.start, k.size) : word'[a] = word[a]

\* Giving back what lies in block k frees k, or nothing.
FreeEffect(k) ==
  /\ used' \subseteq used /\ used \ {k} \subseteq used'
  /\ Changes(k) /\ BlocksApart' /\ Headers' /\ SizesInWords'

\* free() gives back the block behind the pointer it recognises, and nothing else.
LEMMA FreeFacts ==
  ASSUME Types, BlocksApart, Headers, SizesInWords, course' = course,
         NEW k \in used, NEW m \in BinType, m.size > 0, In(m, k), Free(m)
  PROVE  FreeEffect(k)
<1>0. m.ptr \in Nat /\ m.size \in Nat /\ Overhead' = Overhead /\ Overhead \in {1, 3}
  BY DEF BinType, Overhead, Types
<1>1. Words(m.ptr, m.size) \subseteq Payload(k) /\ m.ptr \in Payload(k)
  BY <1>0 DEF In, Words
<1>2. FreedBy(m.ptr) \subseteq {k}
  <2> SUFFICES ASSUME NEW j \in FreedBy(m.ptr) PROVE j = k
    OBVIOUS
  <2>1. j \in used /\ j.start = m.ptr - 1 /\ j.size > 1 /\ course = 3
    <3>1. j \in used /\ j.start = m.ptr - 1 /\ course = 3
      BY DEF FreedBy
    <3>2. Overhead = 1
      BY <3>1 DEF Overhead
    <3> QED
      BY <3>1, <3>2, Blocks
  <2>2. m.ptr \in Words(j.start, j.size)
    BY <1>0, <2>1, Blocks
  <2>3. m.ptr \in Words(k.start, k.size)
    BY <1>1, Blocks
  <2> QED
    BY <2>1, <2>2, <2>3, OneBlock
<1>3. used' = used \ FreedBy(m.ptr)
  BY DEF Free
<1>4. ASSUME NEW a \in Heap
      PROVE  word'[a] = IF a \in Words(m.ptr, m.size) \cup
                                 UNION {Words(j.start, j.size) : j \in FreedBy(m.ptr)}
                        THEN Junk ELSE word[a]
  BY DEF Free
<1>5. Changes(k)
  <2> SUFFICES ASSUME NEW a \in Heap, a \notin Words(k.start, k.size) PROVE word'[a] = word[a]
    BY DEF Changes
  <2>1. a \notin Words(m.ptr, m.size)
    BY <1>1, Blocks
  <2>2. a \notin UNION {Words(j.start, j.size) : j \in FreedBy(m.ptr)}
    BY <1>2
  <2> QED
    BY <1>4, <2>1, <2>2
<1>6. BlocksApart'
  BY <1>0, <1>3 DEF BlocksApart, Words
<1>7. Headers'
  <2> SUFFICES ASSUME NEW j \in used', NEW i \in 1 .. Overhead
               PROVE  word'[j.start + i - 1] = HeaderOf(j)'[i]
    BY <1>0 DEF Headers
  <2>1. j \in used /\ j \notin FreedBy(m.ptr)
    BY <1>3
  <2>2. HeaderOf(j)' = HeaderOf(j) /\ word[j.start + i - 1] = HeaderOf(j)[i]
    BY <2>1 DEF HeaderOf, Headers
  <2>3. /\ j.start + i - 1 \in Heap /\ j.start + i - 1 \in Words(j.start, j.size)
        /\ j.start + i - 1 \notin Payload(j)
    BY <1>0, <2>1, Blocks
  <2>4. word'[j.start + i - 1] = word[j.start + i - 1]
    <3>1. CASE j = k
      <4>1. FreedBy(m.ptr) = {}
        BY <1>2, <2>1, <3>1
      <4> QED
        BY <1>1, <1>4, <2>3, <3>1, <4>1
    <3>2. CASE j # k
      <4>1. j.start + i - 1 \notin Words(k.start, k.size)
        BY <2>1, <2>3, <3>2, OneBlock
      <4> QED
        BY <1>5, <2>3, <4>1 DEF Changes
    <3> QED
      BY <3>1, <3>2
  <2> QED
    BY <2>2, <2>4
<1>8. SizesInWords'
  <2>1. Junk[1] = "junk"
    BY DEF Junk
  <2> QED
    BY <1>4, <2>1 DEF SizesInWords
<1>9. used' \subseteq used /\ used \ {k} \subseteq used'
  BY <1>2, <1>3
<1> QED
  BY <1>5, <1>6, <1>7, <1>8, <1>9 DEF FreeEffect

------------------------------------------------------------------------------
(* What is held, from step to step.                                        *)

\* What q holds of the bin goes to o, in the same block.
Goes(q, o, t, b) ==
  /\ Held(q, t, b).size > 0
  /\ \A k \in used : In(Held(q, t, b), k) => k \in used' /\ In(Held(o, t, b), k)'

\* Each thing held afterwards was held before, and by another holder each: those
\* of bin b of thread t may have changed places.
LEMMA PlacesMove ==
  ASSUME Types, BlocksApart, CallsInOrder, Places, Types', BlocksApart', CallsInOrder',
         course' = course,
         NEW t \in Threads, NEW b \in Bins, NEW F \in [Kinds -> Kinds],
         \A o, p \in Kinds : F[o] = F[p] => o = p,
         \A o \in Kinds : Held(o, t, b)'.size > 0 => Goes(F[o], o, t, b),
         \A o \in Kinds, s \in Threads, a \in Bins :
           ~ (s = t /\ a = b) /\ Held(o, s, a)'.size > 0 => Goes(o, o, s, a)
  PROVE  Places'
<1> DEFINE From(o, s, a) == IF s = t /\ a = b THEN F[o] ELSE o
<1>1. \A o \in Kinds, s \in Threads, a \in Bins :
        From(o, s, a) \in Kinds /\ (Held(o, s, a)'.size > 0 => Goes(From(o, s, a), o, s, a))
  OBVIOUS
<1>2. \A o, p \in Kinds, s \in Threads, a \in Bins : From(o, s, a) = From(p, s, a) => o = p
  OBVIOUS
<1> HIDE DEF From
<1>3. ASSUME NEW o \in Kinds, NEW s \in Threads, NEW a \in Bins, Held(o, s, a)'.size > 0
      PROVE  \E k \in used : k \in used' /\ In(Held(From(o, s, a), s, a), k)
                            /\ In(Held(o, s, a), k)'
  <2>1. From(o, s, a) \in Kinds /\ Goes(From(o, s, a), o, s, a)
    BY <1>1, <1>3
  <2>2. PICK k \in used : In(Held(From(o, s, a), s, a), k)
    BY <2>1 DEF Goes, Places, HeldInside
  <2> QED
    BY <2>1, <2>2 DEF Goes
<1>4. HeldInside'
  BY <1>3 DEF HeldInside
<1>5. HeldApart'
  <2> SUFFICES ASSUME NEW o \in Kinds, NEW p \in Kinds, NEW s \in Threads, NEW r \in Threads,
                      NEW a \in Bins, NEW d \in Bins, NEW k \in used',
                      Held(o, s, a)'.size > 0, Held(p, r, d)'.size > 0,
                      Held(o, s, a)'.ptr \in Payload(k)', Held(p, r, d)'.ptr \in Payload(k)'
               PROVE  o = p /\ s = r /\ a = d
    BY DEF HeldApart
  <2>1. PICK j \in used : j \in used' /\ In(Held(From(o, s, a), s, a), j) /\ In(Held(o, s, a), j)'
    BY <1>3
  <2>2. PICK i \in used : i \in used' /\ In(Held(From(p, r, d), r, d), i) /\ In(Held(p, r, d), i)'
    BY <1>3
  <2>3. ASSUME NEW q \in Kinds, NEW x \in Threads, NEW y \in Bins, Held(q, x, y)'.size > 0,
               NEW l \in used', In(Held(q, x, y), l)', Held(q, x, y)'.ptr \in Payload(k)'
        PROVE  l = k
    BY <2>3, InOneBlockNext DEF InOneBlock
  <2>4. j = k /\ i = k
    BY <2>1, <2>2, <2>3
  <2>5. From(o, s, a) = From(p, r, d) /\ s = r /\ a = d
    <3>1. /\ From(o, s, a) \in Kinds /\ Held(From(o, s, a), s, a).size > 0
          /\ From(p, r, d) \in Kinds /\ Held(From(p, r, d), r, d).size > 0
      BY <1>1 DEF Goes
    <3> HIDE DEF From
    <3>2. In(Held(From(o, s, a), s, a), k) /\ In(Held(From(p, r, d), r, d), k) /\ k \in used
      BY <2>1, <2>2, <2>4
    <3> QED
      BY <3>1, <3>2, OthersElsewhere
  <2> QED
    BY <1>2, <2>5
<1> QED
  BY <1>4, <1>5 DEF Places

------------------------------------------------------------------------------
(* What others hold, while a thread works in its own block.                *)

\* What the holder has is not written to, and its block stays in use.
Safe(o, t, b) ==
  Held(o, t, b).size > 0 =>
    /\ \A a \in Words(Held(o, t, b).ptr, Held(o, t, b).size) : word'[a] = word[a]
    /\ \A k \in used : In(Held(o, t, b), k) => k \in used'
Same(o, t, b) ==
  Held(o, t, b)'.size > 0 => Held(o, t, b)' = Held(o, t, b)

\* A step that stays in the block of one holder leaves all others alone.
LEMMA SafeOthers ==
  ASSUME Types, BlocksApart, CallsInOrder, Places, NEW k \in used,
         Changes(k), used \ {k} \subseteq used',
         NEW o \in Kinds, NEW t \in Threads, NEW b \in Bins,
         Held(o, t, b).size > 0, In(Held(o, t, b), k),
         NEW p \in Kinds, NEW s \in Threads, NEW a \in Bins, ~ (o = p /\ t = s /\ b = a)
  PROVE  Safe(p, s, a)
<1> SUFFICES ASSUME Held(p, s, a).size > 0
             PROVE  /\ \A x \in Words(Held(p, s, a).ptr, Held(p, s, a).size) : word'[x] = word[x]
                    /\ \A j \in used : In(Held(p, s, a), j) => j \in used'
  BY DEF Safe
<1>1. /\ \A j \in used : In(Held(p, s, a), j) => j # k
      /\ Words(Held(p, s, a).ptr, Held(p, s, a).size) \cap Words(k.start, k.size) = {}
  BY OthersElsewhere
<1>2. PICK j \in used : In(Held(p, s, a), j)
  BY DEF Places, HeldInside
<1>3. Words(Held(p, s, a).ptr, Held(p, s, a).size) \subseteq Heap
  BY <1>2, Blocks DEF In
<1> QED
  BY <1>1, <1>3 DEF Changes

\* What is safe and held by the same as before is where it was.
LEMMA SafeGoes ==
  ASSUME Types, course' = course, NEW o \in Kinds, NEW t \in Threads, NEW b \in Bins,
         Safe(o, t, b), Same(o, t, b), Held(o, t, b)'.size > 0
  PROVE  Goes(o, o, t, b)
BY DEF Safe, Same, Goes, In, Payload, Words, Overhead

\* The words that mem_init marks are words of the bin.
LEMMA MarkedFacts ==
  ASSUME NEW m \in BinType
  PROVE  /\ \A i \in Marked(m) : i \in Nat /\ i < m.size /\ m.ptr + i \in Words(m.ptr, m.size)
         /\ m.size = 0 => Marked(m) = {}
BY DEF BinType, Marked, Words

\* The marks of a bin that is safe stay.
LEMMA MarksStay ==
  ASSUME Types, CallsInOrder, MarksIntact, NEW o \in {"bin", "old"},
         NEW t \in Threads, NEW b \in Bins,
         Safe(o, t, b)
  PROVE  \A i \in Marked(Held(o, t, b)) :
           word'[Held(o, t, b).ptr + i] = Mark(Held(o, t, b).ptr, i)
<1>1. o \in Kinds /\ Held(o, t, b) \in BinType /\ Held(o, t, b).size \in Nat
  BY HeldTypes DEF Kinds, BinType
<1> SUFFICES ASSUME NEW i \in Marked(Held(o, t, b))
             PROVE  word'[Held(o, t, b).ptr + i] = Mark(Held(o, t, b).ptr, i)
  OBVIOUS
<1>2. Held(o, t, b).size > 0
     /\ Held(o, t, b).ptr + i \in Words(Held(o, t, b).ptr, Held(o, t, b).size)
  BY <1>1, MarkedFacts
<1>3. word[Held(o, t, b).ptr + i] = Mark(Held(o, t, b).ptr, i)
  BY DEF MarksIntact, Intact
<1> QED
  BY <1>2, <1>3 DEF Safe

\* The words of what a call has got, when it is about to free or to return.
LEMMA NewWords ==
  ASSUME Types, CallsInOrder, NEW t \in Threads,
         call[t].at \in {"release", "return"}, call[t].res # NULL, Safe("new", t, call[t].b)
  PROVE  \A i \in Nat : i < call[t].size => word'[call[t].res + i] = word[call[t].res + i]
<1>1. call[t].b \in Bins /\ call[t].size \in Nat /\ call[t].res \in Nat
  BY DEF CallsInOrder, Types, CallType
<1>2. Held("new", t, call[t].b).ptr = call[t].res /\ Held("new", t, call[t].b).size = call[t].size
  BY DEF Held
<1>3. \A i \in Nat : i < call[t].size => call[t].res + i \in Words(call[t].res, call[t].size)
  BY <1>1 DEF Words
<1> QED
  BY <1>1, <1>2, <1>3 DEF Safe

\* So do the zeros and the copies of a call that makes no step.
LEMMA CallStays ==
  ASSUME Types, CallsInOrder, NEW t \in Threads, CallocCleared(t), CopyKept(t),
         call'[t] = call[t], course' = course,
         call[t].b \in Bins => Safe("new", t, call[t].b)
  PROVE  CallocCleared(t)' /\ CopyKept(t)'
<1>0. /\ call[t].at # "idle" => call[t].b \in Bins
      /\ call[t].size \in Nat /\ call[t].res \in Nat /\ call[t].bin \in BinType
  BY DEF CallsInOrder, Types, CallType
<1>1. CallocCleared(t)'
  <2> SUFFICES ASSUME call[t].at = "return", call[t].how = "calloc", call[t].res # NULL
               PROVE  \A a \in Words(call[t].res, call[t].size) : word'[a] = Zero
    BY DEF CallocCleared, IsZero
  <2>1. \A a \in Words(call[t].res, call[t].size) : word[a] = Zero
    BY DEF CallocCleared, IsZero
  <2>2. ASSUME NEW a \in Words(call[t].res, call[t].size) PROVE word'[a] = word[a]
    <3>1. a - call[t].res \in Nat /\ a - call[t].res < call[t].size
         /\ call[t].res + (a - call[t].res) = a
      BY <1>0, <2>2 DEF Words
    <3>2. \A i \in Nat : i < call[t].size => word'[call[t].res + i] = word[call[t].res + i]
      BY <1>0, NewWords
    <3> QED
      BY <3>1, <3>2
  <2> QED
    BY <2>1, <2>2
<1>2. CopyKept(t)'
  <2> SUFFICES ASSUME course = 3, call[t].how = "realloc", call[t].bin.how # "memalign",
                      call[t].res # NULL, call[t].at \in {"release", "return"},
                      NEW i \in Marked(call[t].bin), i < call[t].size
               PROVE  word'[call[t].res + i] = Mark(call[t].bin.ptr, i)
    BY DEF CopyKept
  <2>1. word[call[t].res + i] = Mark(call[t].bin.ptr, i)
    BY DEF CopyKept
  <2>2. i \in Nat
    BY <1>0, MarkedFacts
  <2> QED
    BY <1>0, <2>1, <2>2, NewWords
<1> QED
  BY <1>1, <1>2

------------------------------------------------------------------------------
(* The steps.                                                              *)

\* What a step that frees, or does not, leaves as it was.
FreesBut(o, t, b) ==
  /\ used' \subseteq used /\ BlocksApart' /\ Headers' /\ SizesInWords'
  /\ \A p \in Kinds, s \in Threads, a \in Bins : ~ (o = p /\ t = s /\ b = a) => Safe(p, s, a)

\* free() of what is held leaves what others hold.
LEMMA FreesOne ==
  ASSUME IInv, course' = course, NEW o \in Kinds, NEW t \in Threads, NEW b \in Bins,
         Held(o, t, b).size > 0, Free(Held(o, t, b))
  PROVE  FreesBut(o, t, b)
<1>0. Types /\ BlocksApart /\ Headers /\ SizesInWords /\ CallsInOrder /\ Places
  BY DEF IInv
<1>1. PICK k \in used : In(Held(o, t, b), k)
  BY <1>0 DEF Places, HeldInside
<1>2. Held(o, t, b) \in BinType
  BY <1>0, HeldTypes
<1>3. FreeEffect(k)
  BY <1>0, <1>1, <1>2, FreeFacts
<1>4. \A p \in Kinds, s \in Threads, a \in Bins : ~ (o = p /\ t = s /\ b = a) => Safe(p, s, a)
  BY <1>0, <1>1, <1>3, SafeOthers DEF FreeEffect
<1> QED
  BY <1>3, <1>4 DEF FreeEffect, FreesBut

\* So does a step that frees and writes nothing.
LEMMA FreesNone ==
  ASSUME IInv, course' = course, UNCHANGED <<used, word>>,
         NEW o, NEW t, NEW b
  PROVE  FreesBut(o, t, b)
BY DEF IInv, BlocksApart, Headers, SizesInWords, FreesBut, Safe, Words, Overhead, HeaderOf

\* A step that changes at most the status.
LEMMA UnchangedKeeps ==
  ASSUME IInv, UNCHANGED <<course, word, used, bin, call>>, TestPasses'
  PROVE  IInv'
<1>1. UNCHANGED <<course, word, used, bin, call>>
  OBVIOUS
<1>2. \A o, t, b : Held(o, t, b)' = Held(o, t, b)
  BY <1>1 DEF Held, Asked, MemalignAsks, Unmoved
<1>3. Places'
  BY <1>1, <1>2 DEF IInv, Places, HeldInside, HeldApart, In, Payload, Words, Overhead
<1>4. Contents'
  BY <1>1, <1>2 DEF IInv, Contents, MarksIntact, Intact, CallocCleared, CopyKept, IsZero, Words
<1>5. Types' /\ BlocksApart' /\ Headers' /\ SizesInWords' /\ CallsInOrder' /\ TestPasses'
  BY <1>1 DEF IInv, Types, BlocksApart, Headers, SizesInWords, CallsInOrder, TestPasses, HeaderOf,
     Overhead, Words
<1> QED
  BY <1>3, <1>4, <1>5 DEF IInv

\* bin_free: the bin is intact, as the bins of all threads are.
LEMMA BinFreeKeeps ==
  ASSUME IInv, NEW t \in Threads, NEW b \in Bins, BinFree(t, b)
  PROVE  IInv'
<1>0. Types /\ BlocksApart /\ Headers /\ SizesInWords /\ CallsInOrder /\ Places /\ MarksIntact
      /\ (\A s \in Threads : CallocCleared(s) /\ CopyKept(s)) /\ TestPasses
  BY DEF IInv, Contents
<1>1. Held("bin", t, b) = bin[t][b] /\ "bin" \in Kinds
  BY DEF Held, Kinds
<1>2. Intact(bin[t][b])
  BY <1>0, <1>1 DEF MarksIntact
<1>3. /\ Free(bin[t][b]) /\ bin' = [bin EXCEPT ![t][b] = Empty]
      /\ UNCHANGED <<course, call, status>>
      /\ bin[t][b].size > 0
  BY <1>2 DEF BinFree
<1>4. FreesBut("bin", t, b)
  BY <1>1, <1>3, FreesOne
<1>5. Empty \in BinType /\ Empty.size = 0 /\ Empty.ptr = NULL
  BY DEF Empty, BinType, Hows, NULL
<1>6. bin' \in [Threads -> [Bins -> BinType]] /\ bin'[t][b] = Empty
      /\ \A s \in Threads, a \in Bins : ~ (s = t /\ a = b) => bin'[s][a] = bin[s][a]
  BY <1>0, <1>3, <1>5 DEF Types
<1>7. Types'
  BY <1>0, <1>3, <1>4, <1>6 DEF Types, FreesBut
<1>8. CallsInOrder'
  BY <1>0, <1>3, <1>5, <1>6 DEF CallsInOrder
<1>9. Held("bin", t, b)' = Empty
  BY <1>6 DEF Held
<1>10. ASSUME NEW o \in Kinds, NEW s \in Threads, NEW a \in Bins, ~ ("bin" = o /\ t = s /\ b = a)
       PROVE  Held(o, s, a)' = Held(o, s, a)
  BY <1>3, <1>6, <1>10 DEF Held, Kinds, Asked, MemalignAsks, Unmoved
<1>11. Places'
  <2> DEFINE F == [o \in Kinds |-> o]
  <2>1. F \in [Kinds -> Kinds] /\ \A o, p \in Kinds : F[o] = F[p] => o = p
    OBVIOUS
  <2>2. \A o \in Kinds, s \in Threads, a \in Bins : Held(o, s, a)'.size > 0 => Goes(o, o, s, a)
    <3> SUFFICES ASSUME NEW o \in Kinds, NEW s \in Threads, NEW a \in Bins,
                        Held(o, s, a)'.size > 0
                 PROVE  Goes(o, o, s, a)
      OBVIOUS
    <3>1. ~ ("bin" = o /\ t = s /\ b = a)
      BY <1>5, <1>9
    <3> QED
      BY <1>0, <1>3, <1>4, <1>10, <3>1, SafeGoes DEF FreesBut, Same
  <2>3. \A o \in Kinds : Held(o, t, b)'.size > 0 => Goes(F[o], o, t, b)
    BY <2>2
  <2> HIDE DEF F
  <2> QED
    BY <1>0, <1>3, <1>4, <1>7, <1>8, <2>1, <2>2, <2>3, PlacesMove DEF FreesBut
<1>12. MarksIntact'
  <2> SUFFICES ASSUME NEW o \in {"bin", "old"}, NEW s \in Threads, NEW a \in Bins
               PROVE  Intact(Held(o, s, a))'
    BY DEF MarksIntact
  <2>1. CASE "bin" = o /\ t = s /\ b = a
    BY <1>5, <1>9, <2>1, MarkedFacts DEF Intact
  <2>2. CASE ~ ("bin" = o /\ t = s /\ b = a)
    <3>1. Held(o, s, a)' = Held(o, s, a) /\ Safe(o, s, a)
      BY <1>4, <1>10, <2>2 DEF FreesBut, Kinds
    <3>2. \A i \in Marked(Held(o, s, a)) :
            word'[Held(o, s, a).ptr + i] = Mark(Held(o, s, a).ptr, i)
      BY <1>0, <3>1, MarksStay
    <3> QED
      BY <3>1, <3>2 DEF Intact, Marked, Mark
  <2> QED
    BY <2>1, <2>2
<1>13. ASSUME NEW s \in Threads PROVE CallocCleared(s)' /\ CopyKept(s)'
  <2>1. call[s].b \in Bins => Safe("new", s, call[s].b)
    BY <1>4 DEF FreesBut, Kinds
  <2> QED
    BY <1>0, <1>3, <2>1, CallStays
<1>14. TestPasses'
  BY <1>0, <1>3 DEF TestPasses
<1> QED
  BY <1>4, <1>7, <1>8, <1>11, <1>12, <1>13, <1>14 DEF IInv, Contents, FreesBut

\* bin_test finds every bin intact.
LEMMA BinTestKeeps ==
  ASSUME IInv, NEW t \in Threads, BinTest(t)
  PROVE  IInv'
<1>1. \A b \in Bins : Intact(bin[t][b])
  <2>1. \A b \in Bins : Held("bin", t, b) = bin[t][b]
    BY DEF Held
  <2> QED
    BY <2>1 DEF IInv, Contents, MarksIntact
<1>2. UNCHANGED <<course, word, used, bin, call>> /\ TestPasses'
  BY <1>1 DEF BinTest, TestPasses
<1> QED
  BY <1>2, UnchangedKeeps

\* realloc frees the bin it copied from.
LEMMA ReleaseKeeps ==
  ASSUME IInv, NEW t \in Threads, Release(t)
  PROVE  IInv'
<1>0. Types /\ BlocksApart /\ Headers /\ SizesInWords /\ CallsInOrder /\ Places /\ MarksIntact
      /\ (\A s \in Threads : CallocCleared(s) /\ CopyKept(s)) /\ TestPasses
  BY DEF IInv, Contents
<1> DEFINE c == call[t]
<1>20. PICK b \in Bins : b = c.b
  BY <1>0 DEF Release, CallsInOrder
<1>1. /\ c \in CallType /\ c.at = "release" /\ c.how = "realloc"
      /\ c.bin.ptr # NULL /\ c.bin.size > 0
      /\ b \in Bins /\ c.bin \in BinType /\ c.b = b
  BY <1>0, <1>20 DEF Release, Types, CallsInOrder, CallType
<1>2. Held("old", t, b) = c.bin /\ "old" \in Kinds /\ "new" \in Kinds
  BY <1>1 DEF Held, Kinds
<1>3. Free(c.bin) /\ call' = [call EXCEPT ![t].at = "return"] /\ UNCHANGED <<course, bin, status>>
  BY DEF Release
<1>4. FreesBut("old", t, b)
  BY <1>1, <1>2, <1>3, FreesOne
<1>5. Empty \in BinType /\ Empty.size = 0 /\ Empty.ptr = NULL
  BY DEF Empty, BinType, Hows, NULL
<1>6. /\ call' \in [Threads -> CallType] /\ call'[t] = [c EXCEPT !.at = "return"]
      /\ \A s \in Threads : s # t => call'[s] = call[s]
  BY <1>0, <1>1, <1>3 DEF Types, CallType
<1>7. /\ call'[t].at = "return" /\ call'[t].how = "realloc"
      /\ call'[t].bin = c.bin /\ call'[t].b = b
      /\ call'[t].size = c.size /\ call'[t].res = c.res /\ call'[t].align = c.align
  BY <1>1, <1>6 DEF CallType
<1> HIDE DEF c
<1>8. Types'
  BY <1>0, <1>3, <1>4, <1>6 DEF Types, FreesBut
<1>9. CallsInOrder'
  <2> SUFFICES ASSUME NEW s \in Threads PROVE CallsInOrder!2!(s)'
    BY <1>0, <1>3 DEF CallsInOrder
  <2>1. CASE s # t
    BY <1>0, <1>6, <2>1 DEF CallsInOrder
  <2>2. CASE s = t
    BY <1>0, <1>1, <1>7, <2>2 DEF CallsInOrder, c
  <2> QED
    BY <2>1, <2>2
<1>10. ASSUME NEW o \in Kinds, NEW s \in Threads, NEW a \in Bins
       PROVE  /\ "old" = o /\ t = s /\ b = a => Held(o, s, a)' = Empty
              /\ ~ ("old" = o /\ t = s /\ b = a) => Held(o, s, a)' = Held(o, s, a)
  <2>1. CASE s # t
    BY <1>3, <1>6, <2>1 DEF Held, Kinds, Asked, MemalignAsks, Unmoved
  <2>2. CASE s = t /\ o = "bin"
    BY <1>3, <2>2 DEF Held
  <2>3. CASE s = t /\ o = "old"
    BY <1>1, <1>7, <2>3 DEF Held, c
  <2>4. CASE s = t /\ o = "new"
    BY <1>1, <1>7, <2>4 DEF Held, c
  <2> QED
    BY <2>1, <2>2, <2>3, <2>4 DEF Kinds
<1>11. Places'
  <2> DEFINE F == [o \in Kinds |-> o]
  <2>1. F \in [Kinds -> Kinds] /\ \A o, p \in Kinds : F[o] = F[p] => o = p
    OBVIOUS
  <2>2. \A o \in Kinds, s \in Threads, a \in Bins : Held(o, s, a)'.size > 0 => Goes(o, o, s, a)
    <3> SUFFICES ASSUME NEW o \in Kinds, NEW s \in Threads, NEW a \in Bins,
                        Held(o, s, a)'.size > 0
                 PROVE  Goes(o, o, s, a)
      OBVIOUS
    <3>1. ~ ("old" = o /\ t = s /\ b = a)
      BY <1>5, <1>10
    <3> QED
      BY <1>0, <1>3, <1>4, <1>10, <3>1, SafeGoes DEF FreesBut, Same
  <2>3. \A o \in Kinds : Held(o, t, b)'.size > 0 => Goes(F[o], o, t, b)
    BY <1>1, <2>2
  <2> HIDE DEF F
  <2> QED
    BY <1>0, <1>1, <1>3, <1>4, <1>8, <1>9, <2>1, <2>2, <2>3, PlacesMove DEF FreesBut
<1>12. MarksIntact'
  <2> SUFFICES ASSUME NEW o \in {"bin", "old"}, NEW s \in Threads, NEW a \in Bins
               PROVE  Intact(Held(o, s, a))'
    BY DEF MarksIntact
  <2>0. o \in Kinds
    BY DEF Kinds
  <2>1. CASE "old" = o /\ t = s /\ b = a
    BY <1>5, <1>10, <2>0, <2>1, MarkedFacts DEF Intact
  <2>2. CASE ~ ("old" = o /\ t = s /\ b = a)
    <3>1. Held(o, s, a)' = Held(o, s, a) /\ Safe(o, s, a)
      BY <1>4, <1>10, <2>0, <2>2 DEF FreesBut
    <3>2. \A i \in Marked(Held(o, s, a)) :
            word'[Held(o, s, a).ptr + i] = Mark(Held(o, s, a).ptr, i)
      BY <1>0, <3>1, MarksStay
    <3> QED
      BY <3>1, <3>2 DEF Intact, Marked, Mark
  <2> QED
    BY <2>1, <2>2
<1>13. ASSUME NEW s \in Threads PROVE CallocCleared(s)' /\ CopyKept(s)'
  <2>1. call[s].b \in Bins => Safe("new", s, call[s].b)
    BY <1>2, <1>4, <1>1 DEF FreesBut
  <2>2. CASE s # t
    BY <1>0, <1>3, <1>6, <2>1, <2>2, CallStays
  <2>3. CASE s = t
    <3>1. CallocCleared(t)'
      BY <1>7 DEF CallocCleared
    <3>2. CopyKept(t)'
      <4> SUFFICES ASSUME course = 3, c.bin.how # "memalign", c.res # NULL,
                          NEW i \in Marked(c.bin), i < c.size
                   PROVE  word'[c.res + i] = Mark(c.bin.ptr, i)
        BY <1>3, <1>7 DEF CopyKept
      <4>1. word[c.res + i] = Mark(c.bin.ptr, i)
        BY <1>0, <1>1 DEF CopyKept, c
      <4>2. i \in Nat
        BY <1>1, MarkedFacts
      <4>3. \A j \in Nat : j < c.size => word'[c.res + j] = word[c.res + j]
        BY <1>0, <1>1, <2>1, <2>3, NewWords DEF c
      <4> QED
        BY <4>1, <4>2, <4>3
    <3> QED
      BY <2>3, <3>1, <3>2
  <2> QED
    BY <2>2, <2>3
<1>14. TestPasses'
  BY <1>0, <1>3 DEF TestPasses
<1> QED
  BY <1>4, <1>8, <1>9, <1>11, <1>12, <1>13, <1>14 DEF IInv, Contents, FreesBut

\* bin_alloc up to its call: the bin is intact; it is freed, or goes to realloc.
LEMMA BinAllocKeeps ==
  ASSUME IInv, NEW t \in Threads, NEW b \in Bins, NEW how \in Hows \ {"none"}, NEW size \in Sizes,
         NEW align \in Nat, how = "memalign" => align \in Alignments,
         BinAlloc(t, b, how, size, align)
  PROVE  IInv'
<1>0. Types /\ BlocksApart /\ Headers /\ SizesInWords /\ CallsInOrder /\ Places /\ MarksIntact
      /\ (\A s \in Threads : CallocCleared(s) /\ CopyKept(s)) /\ TestPasses
  BY DEF IInv, Contents
<1>1. Held("bin", t, b) = bin[t][b] /\ "bin" \in Kinds /\ "old" \in Kinds /\ "new" \in Kinds
  BY DEF Held, Kinds
<1>2. Intact(bin[t][b])
  BY <1>0, <1>1 DEF MarksIntact
<1> DEFINE m == bin[t][b]
           old == IF how = "realloc" THEN m ELSE Empty
<1>3. /\ call[t].at = "idle"
      /\ IF m.size > 0 /\ how # "realloc" THEN Free(m) ELSE UNCHANGED <<used, word>>
      /\ call' = [call EXCEPT ![t] =
           [at |-> "malloc", bin |-> old, how |-> how, b |-> b, size |-> size, align |-> align,
            res |-> NULL]]
      /\ bin' = [bin EXCEPT ![t][b] = Empty] /\ UNCHANGED <<status, course>>
  BY <1>2 DEF BinAlloc
<1>4. FreesBut("bin", t, b)
  BY <1>1, <1>3, FreesOne, FreesNone
<1>5. Empty \in BinType /\ Empty.size = 0 /\ Empty.ptr = NULL
  BY DEF Empty, BinType, Hows, NULL
<1>6. m \in BinType /\ (m.size > 0 <=> m.ptr # NULL) /\ size \in Nat /\ size > 0
  BY <1>0, ConstantsAssumption DEF Types, CallsInOrder
<1>7. old \in BinType /\ (old.size > 0 <=> old.ptr # NULL) /\ (how # "realloc" => old = Empty)
  BY <1>5, <1>6
<1>8. bin' \in [Threads -> [Bins -> BinType]] /\ bin'[t][b] = Empty
      /\ \A s \in Threads, a \in Bins : ~ (s = t /\ a = b) => bin'[s][a] = bin[s][a]
  BY <1>0, <1>3, <1>5 DEF Types
<1>9. /\ call'[t].at = "malloc" /\ call'[t].bin = old /\ call'[t].how = how /\ call'[t].b = b
      /\ call'[t].size = size /\ call'[t].align = align /\ call'[t].res = NULL
      /\ \A s \in Threads : s # t => call'[s] = call[s]
      /\ call' \in [Threads -> CallType]
  <2> HIDE DEF old
  <2>1. [at |-> "malloc", bin |-> old, how |-> how, b |-> b, size |-> size, align |-> align,
         res |-> NULL] \in CallType
    BY <1>6, <1>7 DEF CallType, NULL
  <2> QED
    BY <1>0, <1>3, <2>1 DEF Types
<1>10. old = IF how = "realloc" THEN Held("bin", t, b) ELSE Empty
  BY <1>1
<1> HIDE DEF m, old
<1>11. Types'
  BY <1>0, <1>3, <1>4, <1>8, <1>9 DEF Types, FreesBut
<1>12. CallsInOrder'
  <2>1. \A s \in Threads, a \in Bins : bin'[s][a].size > 0 <=> bin'[s][a].ptr # NULL
    BY <1>0, <1>5, <1>8 DEF CallsInOrder
  <2>2. ASSUME NEW s \in Threads PROVE CallsInOrder!2!(s)'
    <3>1. CASE s # t
      BY <1>0, <1>9, <3>1 DEF CallsInOrder
    <3>2. CASE s = t
      BY <1>6, <1>7, <1>9, <3>2
    <3> QED
      BY <3>1, <3>2
  <2> QED
    BY <2>1, <2>2 DEF CallsInOrder
<1>13. ASSUME NEW o \in Kinds, NEW s \in Threads, NEW a \in Bins
       PROVE  /\ s # t \/ (o = "bin" /\ a # b) => Held(o, s, a)' = Held(o, s, a)
              /\ s = t /\ a # b /\ o # "bin" => Held(o, s, a)' = Empty
              /\ s = t /\ a = b => Held(o, s, a)' = IF o = "old" THEN old ELSE Empty
  <2>1. CASE s # t
    <3>1. call'[s] = call[s] /\ bin'[s][a] = bin[s][a] /\ course' = course
      BY <1>3, <1>8, <1>9, <2>1
    <3> QED
      BY <2>1, <3>1 DEF Held, Kinds, Asked, MemalignAsks, Unmoved
  <2>2. CASE s = t /\ o = "bin"
    BY <1>8, <2>2 DEF Held
  <2>3. CASE s = t /\ o = "old"
    BY <1>9, <2>3 DEF Held
  <2>4. CASE s = t /\ o = "new"
    BY <1>9, <2>4 DEF Held
  <2> QED
    BY <2>1, <2>2, <2>3, <2>4 DEF Kinds
<1>14. Places'
  <2> DEFINE F == [o \in Kinds |->
                    CASE o = "bin" -> "old" [] o = "old" -> "bin" [] OTHER -> "new"]
  <2>1. F \in [Kinds -> Kinds] /\ (\A o, p \in Kinds : F[o] = F[p] => o = p) /\ F["old"] = "bin"
    BY DEF Kinds
  <2>2. ASSUME NEW o \in Kinds, NEW s \in Threads, NEW a \in Bins, ~ (s = t /\ a = b),
               Held(o, s, a)'.size > 0
        PROVE  Goes(o, o, s, a)
    <3>1. Held(o, s, a)' = Held(o, s, a)
      BY <1>5, <1>13, <2>2
    <3> QED
      BY <1>0, <1>3, <1>4, <2>2, <3>1, SafeGoes DEF FreesBut, Same
  <2>3. ASSUME NEW o \in Kinds, Held(o, t, b)'.size > 0 PROVE Goes(F[o], o, t, b)
    <3>1. o = "old" /\ how = "realloc" /\ Held(o, t, b)' = Held("bin", t, b)
      BY <1>5, <1>10, <1>13, <2>3
    <3>2. Goes("bin", "old", t, b)
      BY <1>3, <2>3, <3>1 DEF Goes, In, Payload, Words, Overhead
    <3> QED
      BY <2>1, <3>1, <3>2
  <2> HIDE DEF F
  <2> QED
    BY <1>0, <1>3, <1>4, <1>11, <1>12, <2>1, <2>2, <2>3, PlacesMove DEF FreesBut
<1>15. MarksIntact'
  <2> SUFFICES ASSUME NEW o \in {"bin", "old"}, NEW s \in Threads, NEW a \in Bins
               PROVE  Intact(Held(o, s, a))'
    BY DEF MarksIntact
  <2>0. o \in Kinds
    BY DEF Kinds
  <2>1. CASE Held(o, s, a)' = Empty
    BY <1>5, <2>1, MarkedFacts DEF Intact
  <2>2. CASE Held(o, s, a)' # Empty /\ ~ (s = t /\ a = b)
    <3>1. Held(o, s, a)' = Held(o, s, a) /\ Safe(o, s, a)
      BY <1>4, <1>13, <2>0, <2>2 DEF FreesBut
    <3>2. \A i \in Marked(Held(o, s, a)) :
            word'[Held(o, s, a).ptr + i] = Mark(Held(o, s, a).ptr, i)
      BY <1>0, <3>1, MarksStay
    <3> QED
      BY <3>1, <3>2 DEF Intact, Marked, Mark
  <2>3. CASE Held(o, s, a)' # Empty /\ s = t /\ a = b
    <3>1. Held(o, s, a)' = Held("bin", t, b) /\ how = "realloc"
      BY <1>10, <1>13, <2>0, <2>3
    <3>2. word' = word
      BY <1>3, <3>1
    <3> QED
      BY <1>1, <1>2, <3>1, <3>2 DEF Intact, Marked, Mark
  <2> QED
    BY <2>1, <2>2, <2>3
<1>16. ASSUME NEW s \in Threads PROVE CallocCleared(s)' /\ CopyKept(s)'
  <2>1. call[s].b \in Bins => Safe("new", s, call[s].b)
    BY <1>1, <1>4 DEF FreesBut
  <2>2. CASE s # t
    BY <1>0, <1>3, <1>9, <2>1, <2>2, CallStays
  <2>3. CASE s = t
    BY <1>9, <2>3 DEF CallocCleared, CopyKept
  <2> QED
    BY <2>2, <2>3
<1>17. TestPasses'
  BY <1>0, <1>3 DEF TestPasses
<1> QED
  BY <1>4, <1>11, <1>12, <1>14, <1>15, <1>16, <1>17 DEF IInv, Contents, FreesBut

\* Something new is held in a new block, and the rest was held before.
LEMMA PlacesGrow ==
  ASSUME Types, BlocksApart, CallsInOrder, Places, Types', BlocksApart', CallsInOrder',
         NEW t \in Threads, NEW b \in Bins, NEW k \in used', k \notin used,
         In(Held("new", t, b), k)',
         \A o \in Kinds, s \in Threads, a \in Bins :
           ~ (o = "new" /\ s = t /\ a = b) /\ Held(o, s, a)'.size > 0 => Goes(o, o, s, a)
  PROVE  Places'
<1>1. ASSUME NEW o \in Kinds, NEW s \in Threads, NEW a \in Bins, Held(o, s, a)'.size > 0,
             ~ (o = "new" /\ s = t /\ a = b)
      PROVE  \E j \in used : j \in used' /\ In(Held(o, s, a), j) /\ In(Held(o, s, a), j)'
  <2>1. Goes(o, o, s, a)
    BY <1>1
  <2>2. PICK j \in used : In(Held(o, s, a), j)
    BY <2>1 DEF Goes, Places, HeldInside
  <2> QED
    BY <2>1, <2>2 DEF Goes
<1>2. HeldInside'
  BY <1>1 DEF HeldInside
<1>3. ASSUME NEW o \in Kinds, NEW s \in Threads, NEW a \in Bins, Held(o, s, a)'.size > 0,
             NEW l \in used', Held(o, s, a)'.ptr \in Payload(l)'
      PROVE  /\ o = "new" /\ s = t /\ a = b <=> l = k
             /\ l # k => l \in used /\ In(Held(o, s, a), l) /\ Held(o, s, a).size > 0
  <2>1. \A j \in used' : In(Held(o, s, a), j)' => j = l
    BY <1>3, InOneBlockNext DEF InOneBlock
  <2>2. CASE o = "new" /\ s = t /\ a = b
    BY <2>1, <2>2
  <2>3. CASE ~ (o = "new" /\ s = t /\ a = b)
    <3>1. l \in used /\ In(Held(o, s, a), l)
      BY <1>1, <1>3, <2>1, <2>3
    <3>2. Held(o, s, a).size > 0
      BY <1>3, <2>3 DEF Goes
    <3> QED
      BY <2>3, <3>1, <3>2
  <2> QED
    BY <2>2, <2>3
<1>4. HeldApart'
  <2> SUFFICES ASSUME NEW o \in Kinds, NEW p \in Kinds, NEW s \in Threads, NEW r \in Threads,
                      NEW a \in Bins, NEW d \in Bins, NEW l \in used',
                      Held(o, s, a)'.size > 0, Held(p, r, d)'.size > 0,
                      Held(o, s, a)'.ptr \in Payload(l)', Held(p, r, d)'.ptr \in Payload(l)'
               PROVE  o = p /\ s = r /\ a = d
    BY DEF HeldApart
  <2>1. CASE l = k
    BY <1>3, <2>1
  <2>2. CASE l # k
    <3>1. /\ l \in used /\ In(Held(o, s, a), l) /\ In(Held(p, r, d), l)
          /\ Held(o, s, a).size > 0 /\ Held(p, r, d).size > 0
      BY <1>3, <2>2
    <3> QED
      BY <3>1, OthersElsewhere
  <2> QED
    BY <2>1, <2>2
<1> QED
  BY <1>2, <1>4 DEF Places

\* What malloc writes when it finds a block: its header only.
NewEffect(k) ==
  /\ k \notin used /\ used' = used \cup {k}
  /\ BlocksApart' /\ Headers' /\ SizesInWords'
  /\ \A o \in Kinds, t \in Threads, b \in Bins : Safe(o, t, b)

\* The new block lies where no block is, and its header in it.
LEMMA NewFacts ==
  ASSUME IInv, course' = course, NEW k \in [start : Nat, size : Nat], k.size > Overhead,
         IsFree(k),
         used' = used \cup {k},
         word' = [x \in Heap |-> IF x \in Words(k.start, Overhead)
                                 THEN HeaderOf(k)[x - k.start + 1] ELSE word[x]]
  PROVE  NewEffect(k)
<1>0. Types /\ BlocksApart /\ Headers /\ SizesInWords /\ CallsInOrder /\ Places
  BY DEF IInv
<1>1. Overhead' = Overhead /\ Overhead \in {1, 3} /\ k.start \in Nat /\ k.size \in Nat
  BY <1>0 DEF Overhead, Types
<1>2. /\ Words(k.start, k.size) \subseteq Heap
      /\ \A u \in used : Words(k.start, k.size) \cap Words(u.start, u.size) = {}
  BY DEF IsFree
<1>3. k \notin used
  <2>1. k.start \in Words(k.start, k.size)
    BY <1>1 DEF Words
  <2> QED
    BY <1>2, <2>1
<1>4. BlocksApart'
  <2>1. \A p, n : Words(p, n)' = Words(p, n)
    BY DEF Words
  <2>2. \A j \in used' : j.size > Overhead /\ Words(j.start, j.size) \subseteq Heap
    BY <1>0, <1>2 DEF BlocksApart
  <2>3. \A i, j \in used' : i # j => Words(i.start, i.size) \cap Words(j.start, j.size) = {}
    BY <1>0, <1>2 DEF BlocksApart
  <2> QED
    BY <1>1, <2>2, <2>3 DEF BlocksApart, Words
<1>5. Words(k.start, Overhead) \subseteq Words(k.start, k.size)
  BY <1>1 DEF Words
<1>6. Changes(k)
  BY <1>5 DEF Changes
<1>7. Headers'
  <2> SUFFICES ASSUME NEW j \in used', NEW i \in 1 .. Overhead
               PROVE  word'[j.start + i - 1] = HeaderOf(j)'[i]
    BY <1>1 DEF Headers
  <2>1. HeaderOf(j)' = HeaderOf(j)
    BY DEF HeaderOf
  <2>2. CASE j = k
    <3>1. k.start + i - 1 \in Words(k.start, Overhead) /\ (k.start + i - 1) - k.start + 1 = i
      BY <1>1 DEF Words
    <3> QED
      BY <1>2, <1>5, <2>1, <2>2, <3>1
  <2>3. CASE j \in used
    <3>1. j.start + i - 1 \in Heap /\ j.start + i - 1 \in Words(j.start, j.size)
      BY <1>0, <1>1, <2>3, Blocks
    <3> QED
      BY <1>0, <1>2, <1>6, <2>1, <2>3, <3>1 DEF Headers, Changes
  <2> QED
    BY <2>2, <2>3
<1>8. SizesInWords'
  <2> SUFFICES ASSUME NEW a \in Heap, word'[a][1] = "size" PROVE word'[a][2] \in Nat
    BY DEF SizesInWords
  <2>1. CASE a \in Words(k.start, Overhead)
    <3>1. a - k.start + 1 \in 1 .. Overhead
      BY <1>1, <2>1 DEF Words
    <3>2. PICK i \in 1 .. Overhead : i = a - k.start + 1
      BY <3>1
    <3>3. word'[a] = HeaderOf(k)[i]
      BY <2>1, <3>2
    <3>4. CASE course = 3
      <4>1. HeaderOf(k) = <<<<"size", k.size>>>> /\ i = 1
        BY <1>1, <3>4 DEF HeaderOf, Overhead
      <4> QED
        BY <1>1, <3>3, <4>1
    <3>5. CASE course # 3
      <4>1. HeaderOf(k) = <<<<"block", k.size>>, Junk, <<"size", 0>>>> /\ i \in {1, 2, 3}
        BY <1>1, <3>5 DEF HeaderOf, Overhead
      <4> QED
        BY <3>3, <4>1 DEF Junk
    <3> QED
      BY <3>4, <3>5
  <2>2. CASE a \notin Words(k.start, Overhead)
    BY <1>0, <2>2 DEF SizesInWords
  <2> QED
    BY <2>1, <2>2
<1>9. ASSUME NEW o \in Kinds, NEW t \in Threads, NEW b \in Bins PROVE Safe(o, t, b)
  <2> SUFFICES ASSUME Held(o, t, b).size > 0
               PROVE  \A a \in Words(Held(o, t, b).ptr, Held(o, t, b).size) : word'[a] = word[a]
    BY DEF Safe
  <2>1. PICK j \in used : In(Held(o, t, b), j)
    BY <1>0 DEF Places, HeldInside
  <2>2. /\ Words(Held(o, t, b).ptr, Held(o, t, b).size) \subseteq Words(j.start, j.size)
        /\ Words(j.start, j.size) \subseteq Heap
    BY <1>0, <2>1, Blocks DEF In
  <2> QED
    BY <1>2, <1>6, <2>2 DEF Changes
<1> QED
  BY <1>3, <1>4, <1>7, <1>8, <1>9 DEF NewEffect

\* The same of all that is held.
HeldTyped == \A o \in Kinds, t \in Threads, b \in Bins : Held(o, t, b) \in BinType

\* What is held after a step.
LEMMA HeldTypesNext == (Types /\ CallsInOrder => HeldTyped)'
<1>1. Types /\ CallsInOrder => HeldTyped
  BY HeldTypes DEF HeldTyped
<1> QED
  BY <1>1, PTL

\* malloc: a block of its own for the call, or none.
LEMMA MallocKeeps ==
  ASSUME IInv, NEW t \in Threads, Malloc(t)
  PROVE  IInv'
<1>0. Types /\ BlocksApart /\ Headers /\ SizesInWords /\ CallsInOrder /\ Places /\ MarksIntact
      /\ (\A s \in Threads : CallocCleared(s) /\ CopyKept(s)) /\ TestPasses
  BY DEF IInv, Contents
<1> DEFINE c == call[t]
           after == IF c.how = "malloc" \/ (c.how = "realloc" /\ c.bin.ptr = NULL)
                    THEN "return" ELSE "fill"
           Got(k) == /\ k \in [start : Heap, size : BlockSizes] /\ k.size >= Asked(c) + Overhead
                     /\ IsFree(k) /\ used' = used \cup {k}
                     /\ word' = [x \in Heap |-> IF x \in Words(k.start, Overhead)
                                                THEN HeaderOf(k)[x - k.start + 1] ELSE word[x]]
<1>20. PICK b \in Bins : b = c.b
  BY <1>0 DEF Malloc, CallsInOrder
<1>1. /\ c \in CallType /\ c.at = "malloc" /\ c.res = NULL /\ c.b = b /\ c.size > 0
      /\ c.bin \in BinType /\ (c.bin.size > 0 <=> c.bin.ptr # NULL) /\ c.how # "none"
      /\ (c.how # "realloc" => c.bin = Empty) /\ c.size \in Nat /\ c.align \in Nat
      /\ (c.how = "memalign" => c.align \in Alignments) /\ c.how \in Hows
  BY <1>0, <1>20 DEF Malloc, Types, CallsInOrder, CallType
<1>2. UNCHANGED <<course, bin, status>> /\ Overhead' = Overhead /\ Overhead \in {1, 3}
  BY <1>0 DEF Malloc, Overhead, Types
<1>3. Asked(c) \in Nat /\ Asked(c) > 0 /\ (c.how # "memalign" => Asked(c) = c.size)
  BY <1>1 DEF Asked, MemalignAsks
<1>4. \/ \E k \in [start : Heap, size : BlockSizes] :
           Got(k)
           /\ call' = [call EXCEPT ![t] = [@ EXCEPT !.at = after, !.res = k.start + Overhead]]
      \/ call' = [call EXCEPT ![t].at = after] /\ UNCHANGED <<used, word>>
  <2>1. CASE call' = [call EXCEPT ![t].at = after] /\ UNCHANGED <<used, word>>
    BY <2>1
  <2>2. CASE \E s \in Needed(Asked(c)), a \in Heap :
               LET k == [start |-> a, size |-> s]
               IN /\ IsFree(k) /\ used' = used \cup {k}
                  /\ word' = [x \in Heap |-> IF x \in Words(a, Overhead)
                                             THEN HeaderOf(k)[x - a + 1] ELSE word[x]]
                  /\ call' = [call EXCEPT ![t] = [@ EXCEPT !.at = after, !.res = a + Overhead]]
    <3>1. PICK s \in Needed(Asked(c)), a \in Heap :
               LET k == [start |-> a, size |-> s]
               IN /\ IsFree(k) /\ used' = used \cup {k}
                  /\ word' = [x \in Heap |-> IF x \in Words(a, Overhead)
                                             THEN HeaderOf(k)[x - a + 1] ELSE word[x]]
                  /\ call' = [call EXCEPT ![t] = [@ EXCEPT !.at = after, !.res = a + Overhead]]
      BY <2>2
    <3>2. s \in BlockSizes /\ s >= Asked(c) + Overhead
      BY DEF Needed
    <3>3. Got([start |-> a, size |-> s])
      BY <3>1, <3>2
    <3> QED
      BY <3>1, <3>3
  <2> QED
    BY <2>1, <2>2 DEF Malloc
<1> HIDE DEF after, Got
<1>5. /\ after \in {"fill", "return"}
      /\ (after = "fill" => c.how \in {"calloc", "memalign"}
                         \/ (c.how = "realloc" /\ c.bin.ptr # NULL))
      /\ (after = "return" => c.how \in {"malloc", "realloc"} /\ c.bin.size = 0)
      /\ (after = "return" /\ c.how = "realloc" => c.bin.ptr = NULL)
  <2>1. Empty.size = 0
    BY DEF Empty
  <2> QED
    BY <1>1, <2>1 DEF after, Hows, BinType
<1>6. PICK res \in Nat : /\ call' = [call EXCEPT ![t] = [@ EXCEPT !.at = after, !.res = res]]
                         /\ \/ res = NULL /\ UNCHANGED <<used, word>>
                            \/ res # NULL /\ \E k \in [start : Heap, size : BlockSizes] :
                                               Got(k) /\ res = k.start + Overhead
  <2>1. CASE call' = [call EXCEPT ![t].at = after] /\ UNCHANGED <<used, word>>
    <3>1. [c EXCEPT !.at = after] = [c EXCEPT !.at = after, !.res = 0]
      BY <1>1 DEF CallType, NULL
    <3> QED
      BY <2>1, <3>1 DEF NULL
  <2>2. ASSUME NEW k \in [start : Heap, size : BlockSizes], Got(k),
               call' = [call EXCEPT ![t] = [@ EXCEPT !.at = after, !.res = k.start + Overhead]]
        PROVE  \E res \in Nat :
                 /\ call' = [call EXCEPT ![t] = [@ EXCEPT !.at = after, !.res = res]]
                 /\ \/ res = NULL /\ UNCHANGED <<used, word>>
                    \/ res # NULL /\ \E j \in [start : Heap, size : BlockSizes] :
                                       Got(j) /\ res = j.start + Overhead
    <3>1. k.start + Overhead \in Nat /\ k.start + Overhead # NULL
      BY <1>2, ConstantsAssumption DEF Heap, NULL
    <3> QED
      BY <2>2, <3>1
  <2> QED
    BY <1>4, <2>1, <2>2
<1>7. /\ call' \in [Threads -> CallType] /\ \A s \in Threads : s # t => call'[s] = call[s]
      /\ call'[t].at = after /\ call'[t].how = c.how /\ call'[t].bin = c.bin /\ call'[t].b = b
      /\ call'[t].size = c.size /\ call'[t].res = res /\ call'[t].align = c.align
  BY <1>0, <1>1, <1>5, <1>6 DEF Types, CallType
<1>8. Asked(call'[t]) = Asked(c) /\ (Asked(c))' = Asked(c)
  BY <1>1, <1>2, <1>7 DEF Asked, MemalignAsks, Unmoved
<1> HIDE DEF c
<1>9. CallsInOrder'
  <2> SUFFICES ASSUME NEW s \in Threads PROVE CallsInOrder!2!(s)'
    BY <1>0, <1>2 DEF CallsInOrder
  <2>1. CASE s # t
    BY <1>0, <1>7, <2>1 DEF CallsInOrder
  <2>2. CASE s = t
    BY <1>1, <1>5, <1>7, <2>2
  <2> QED
    BY <2>1, <2>2
<1>10. \A o \in Kinds, s \in Threads, a \in Bins :
         ~ (o = "new" /\ s = t /\ a = b) => Same(o, s, a)
  <2> SUFFICES ASSUME NEW o \in Kinds, NEW s \in Threads, NEW a \in Bins,
                      ~ (o = "new" /\ s = t /\ a = b), Held(o, s, a)'.size > 0
               PROVE  Held(o, s, a)' = Held(o, s, a)
    BY DEF Same
  <2>0. Empty.size = 0
    BY DEF Empty
  <2>1. CASE s # t
    <3>1. call'[s] = call[s] /\ bin' = bin /\ course' = course
      BY <1>2, <1>7, <2>1
    <3> QED
      BY <3>1 DEF Held, Kinds, Asked, MemalignAsks, Unmoved
  <2>2. CASE s = t /\ o = "bin"
    BY <1>2, <2>2 DEF Held
  <2>3. CASE s = t /\ o = "old"
    BY <1>1, <1>5, <1>7, <2>0, <2>3 DEF Held, c
  <2>4. CASE s = t /\ o = "new"
    BY <1>7, <2>0, <2>4 DEF Held
  <2> QED
    BY <2>1, <2>2, <2>3, <2>4 DEF Kinds
<1>11. Held("new", t, b)' =
         IF res # NULL THEN [ptr |-> res, size |-> Asked(c), how |-> c.how] ELSE Empty
  <2>1. (IF call'[t].at = "fill" THEN Asked(call'[t]) ELSE call'[t].size) = Asked(c)
    BY <1>3, <1>5, <1>7, <1>8
  <2>2. Held("new", t, b)' =
          IF res # NULL THEN [ptr |-> res,
                              size |-> IF call'[t].at = "fill" THEN Asked(call'[t])
                                      ELSE call'[t].size,
                              how |-> c.how] ELSE Empty
    BY <1>2, <1>5, <1>7 DEF Held, Asked, MemalignAsks, Unmoved
  <2> QED
    BY <2>1, <2>2
<1>12. /\ used' \subseteq [start : Nat, size : Nat] /\ BlocksApart' /\ Headers' /\ SizesInWords'
       /\ \A o \in Kinds, s \in Threads, a \in Bins : Safe(o, s, a)
       /\ res # NULL => \E k \in used' : k \notin used /\ In(Held("new", t, b), k)'
  <2>1. CASE res = NULL /\ UNCHANGED <<used, word>>
    <3>1. FreesBut("none", t, b) /\ "none" \notin Kinds
      BY <1>2, <2>1, FreesNone DEF Kinds
    <3> QED
      BY <1>0, <2>1, <3>1 DEF FreesBut, Types
  <2>2. ASSUME NEW k \in [start : Heap, size : BlockSizes], Got(k), res = k.start + Overhead
        PROVE  /\ used' \subseteq [start : Nat, size : Nat] /\ BlocksApart'
               /\ Headers' /\ SizesInWords'
               /\ \A o \in Kinds, s \in Threads, a \in Bins : Safe(o, s, a)
               /\ res # NULL => \E j \in used' : j \notin used /\ In(Held("new", t, b), j)'
    <3>0. Heap \subseteq Nat /\ BlockSizes \subseteq Nat
      BY ConstantsAssumption DEF Heap
    <3>1. /\ k \in [start : Nat, size : Nat] /\ k.start \in Nat
          /\ k.size \in Nat /\ k.size > Overhead
          /\ k.size >= Asked(c) + Overhead
      <4>1. k.start \in Nat /\ k.size \in Nat
        BY <3>0
      <4>2. k.size >= Asked(c) + Overhead
        BY <2>2 DEF Got
      <4> QED
        BY <1>2, <1>3, <3>0, <4>1, <4>2
    <3>2. NewEffect(k)
      BY <1>2, <2>2, <3>1, NewFacts DEF Got
    <3>3. Words(res, Asked(c)) \subseteq Payload(k)
      BY <1>2, <1>3, <2>2, <3>1 DEF Words, Payload
    <3>4. Empty.size = 0 /\ res # NULL
      BY <1>2, <2>2, ConstantsAssumption DEF Empty, Heap, NULL
    <3>5. In(Held("new", t, b), k)'
      <4>1. Held("new", t, b)'.ptr = res /\ Held("new", t, b)'.size = Asked(c)
        BY <1>11, <3>4
      <4>2. Words(res, Asked(c)) \subseteq Payload(k)'
        BY <1>2, <3>3 DEF Payload, Words
      <4> QED
        BY <1>2, <2>2, <4>1, <4>2 DEF In, Words
    <3> QED
      BY <1>0, <3>1, <3>2, <3>5 DEF NewEffect, Types
  <2> QED
    BY <1>6, <2>1, <2>2
<1>13. Types'
  BY <1>0, <1>2, <1>7, <1>12 DEF Types
<1>14. \A o \in Kinds, s \in Threads, a \in Bins :
         ~ (o = "new" /\ s = t /\ a = b) /\ Held(o, s, a)'.size > 0 => Goes(o, o, s, a)
  BY <1>0, <1>2, <1>10, <1>12, SafeGoes
<1>15. Places'
  <2>1. CASE res # NULL
    <3>1. PICK k \in used' : k \notin used /\ In(Held("new", t, b), k)'
      BY <1>12, <2>1
    <3> QED
      BY <1>0, <1>9, <1>12, <1>13, <1>14, <3>1, PlacesGrow
  <2>2. CASE res = NULL
    <3> DEFINE F == [o \in Kinds |-> o]
    <3>1. F \in [Kinds -> Kinds] /\ \A o, p \in Kinds : F[o] = F[p] => o = p
      OBVIOUS
    <3>2. ~ (Held("new", t, b)'.size > 0)
      BY <1>11, <2>2 DEF Empty
    <3>3. \A o \in Kinds, s \in Threads, a \in Bins : Held(o, s, a)'.size > 0 => Goes(o, o, s, a)
      BY <1>14, <3>2
    <3>4. \A o \in Kinds : Held(o, t, b)'.size > 0 => Goes(F[o], o, t, b)
      BY <3>3
    <3> HIDE DEF F
    <3> QED
      BY <1>0, <1>2, <1>9, <1>12, <1>13, <3>1, <3>3, <3>4, PlacesMove
  <2> QED
    BY <2>1, <2>2
<1>16. MarksIntact'
  <2> SUFFICES ASSUME NEW o \in {"bin", "old"}, NEW s \in Threads, NEW a \in Bins
               PROVE  Intact(Held(o, s, a))'
    BY DEF MarksIntact
  <2>0. o \in Kinds /\ o # "new"
    BY DEF Kinds
  <2>1. Held(o, s, a)' \in BinType
    BY <1>9, <1>13, <2>0, HeldTypesNext DEF HeldTyped
  <2>2. CASE Held(o, s, a)'.size = 0
    BY <2>1, <2>2, MarkedFacts DEF Intact
  <2>3. CASE Held(o, s, a)'.size > 0
    <3>1. Held(o, s, a)' = Held(o, s, a) /\ Safe(o, s, a)
      BY <1>10, <1>12, <2>0, <2>3 DEF Same
    <3>2. \A i \in Marked(Held(o, s, a)) :
            word'[Held(o, s, a).ptr + i] = Mark(Held(o, s, a).ptr, i)
      BY <1>0, <3>1, MarksStay
    <3> QED
      BY <3>1, <3>2 DEF Intact, Marked, Mark
  <2> QED
    BY <2>1, <2>2, <2>3 DEF BinType
<1>17. ASSUME NEW s \in Threads PROVE CallocCleared(s)' /\ CopyKept(s)'
  <2>1. call[s].b \in Bins => Safe("new", s, call[s].b)
    BY <1>12 DEF Kinds
  <2>2. CASE s # t
    BY <1>0, <1>2, <1>7, <2>1, <2>2, CallStays
  <2>3. CASE s = t
    <3>1. CallocCleared(t)'
      BY <1>5, <1>7 DEF CallocCleared
    <3>2. CopyKept(t)'
      <4>1. c.how = "realloc" /\ after \in {"release", "return"} => Marked(c.bin) = {}
        BY <1>1, <1>5, MarkedFacts
      <4> QED
        BY <1>7, <4>1 DEF CopyKept, Marked
    <3> QED
      BY <2>3, <3>1, <3>2
  <2> QED
    BY <2>2, <2>3
<1>18. TestPasses'
  BY <1>0, <1>2 DEF TestPasses
<1> QED
  BY <1>9, <1>12, <1>13, <1>15, <1>16, <1>17, <1>18 DEF IInv, Contents

\* Writes into what a call has got: the headers stay, and what others hold.
LEMMA OwnWrites ==
  ASSUME IInv, course' = course, used' = used, SizesInWords', NEW t \in Threads, NEW b \in Bins,
         \A a \in Heap : \/ word'[a] = word[a]
                         \/ /\ Held("new", t, b).size > 0
                            /\ a \in Words(Held("new", t, b).ptr, Held("new", t, b).size)
  PROVE  FreesBut("new", t, b)
<1>0. Types /\ BlocksApart /\ Headers /\ SizesInWords /\ CallsInOrder /\ Places /\ "new" \in Kinds
  BY DEF IInv, Kinds
<1>1. Overhead' = Overhead /\ Overhead \in {1, 3}
  BY <1>0 DEF Overhead, Types
<1>2. BlocksApart'
  BY <1>0, <1>1 DEF BlocksApart, Words
<1>3. ASSUME \A j \in used, i \in 1 .. Overhead : word'[j.start + i - 1] = word[j.start + i - 1]
      PROVE  Headers'
  <2>1. \A j : HeaderOf(j)' = HeaderOf(j)
    BY DEF HeaderOf
  <2>2. \A j \in used, i \in 1 .. Overhead : word[j.start + i - 1] = HeaderOf(j)[i]
    BY <1>0 DEF Headers
  <2> QED
    <3> SUFFICES ASSUME NEW j \in used', NEW i \in 1 .. Overhead
                 PROVE  word'[j.start + i - 1] = HeaderOf(j)'[i]
      BY <1>1 DEF Headers
    <3>1. j \in used /\ word'[j.start + i - 1] = word[j.start + i - 1]
      BY <1>3
    <3> QED
      BY <2>1, <2>2, <3>1
<1>4. ASSUME NEW j \in used, NEW i \in 1 .. Overhead
      PROVE  /\ j.start + i - 1 \in Heap /\ j.start + i - 1 \in Words(j.start, j.size)
             /\ j.start + i - 1 \notin Payload(j)
  BY <1>0, <1>1, Blocks
<1>5. CASE ~ (Held("new", t, b).size > 0)
  <2>1. \A a \in Heap : word'[a] = word[a]
    BY <1>5
  <2>2. Headers'
    BY <1>3, <1>4, <2>1
  <2>3. ASSUME NEW o \in Kinds, NEW s \in Threads, NEW a \in Bins PROVE Safe(o, s, a)
    <3>1. ASSUME Held(o, s, a).size > 0
          PROVE  Words(Held(o, s, a).ptr, Held(o, s, a).size) \subseteq Heap
      <4>1. PICK j \in used : In(Held(o, s, a), j)
        BY <1>0, <3>1 DEF Places, HeldInside
      <4> QED
        BY <1>0, <4>1, Blocks DEF In
    <3> QED
      BY <2>1, <3>1 DEF Safe
  <2> QED
    BY <1>2, <2>2, <2>3 DEF FreesBut
<1>6. CASE Held("new", t, b).size > 0
  <2>1. PICK k \in used : In(Held("new", t, b), k)
    BY <1>0, <1>6 DEF Places, HeldInside
  <2>2. \A a \in Heap : word'[a] = word[a] \/ a \in Payload(k)
    BY <2>1 DEF In
  <2>3. Payload(k) \subseteq Words(k.start, k.size)
    BY <1>0, Blocks
  <2>4. Changes(k)
    BY <2>2, <2>3 DEF Changes
  <2>5. ASSUME NEW j \in used, NEW i \in 1 .. Overhead PROVE j.start + i - 1 \notin Payload(k)
    <3>1. CASE j = k
      BY <1>4, <3>1
    <3>2. CASE j # k
      BY <1>0, <1>4, <2>3, <3>2, OneBlock
    <3> QED
      BY <3>1, <3>2
  <2>6. Headers'
    BY <1>3, <1>4, <2>2, <2>5
  <2>7. \A p \in Kinds, s \in Threads, a \in Bins :
          ~ ("new" = p /\ t = s /\ b = a) => Safe(p, s, a)
    BY <1>0, <1>6, <2>1, <2>4, SafeOthers
  <2> QED
    BY <1>2, <2>6, <2>7 DEF FreesBut
<1> QED
  BY <1>5, <1>6

\* What a wrapper has done when it goes on: it has written to what malloc gave it
\* only, and the pointer it returns is where that was asked for.
Filled(t, at, res) ==
  LET c == call[t] IN
  /\ call' = [call EXCEPT ![t] = [c EXCEPT !.at = at, !.res = res]]
  /\ UNCHANGED <<course, used, bin, status>> /\ SizesInWords'
  /\ at = "release" <=> c.how = "realloc"
  /\ res = NULL <=> c.res = NULL
  /\ c.how # "memalign" => res = c.res
  /\ c.res # NULL => Words(res, c.size) \subseteq Words(c.res, Asked(c))
  /\ \A a \in Heap : word'[a] = word[a] \/ (c.res # NULL /\ a \in Words(c.res, Asked(c)))
  /\ c.how = "calloc" /\ res # NULL => \A a \in Words(res, c.size) : word'[a] = Zero
  /\ c.how = "realloc" /\ course = 3 /\ c.bin.how # "memalign" /\ res # NULL
     => \A i \in Marked(c.bin) : i < c.size => word'[res + i] = Mark(c.bin.ptr, i)
FilledOrFault(t) ==
  \/ status' = "fault" /\ UNCHANGED <<course, word, used, bin, call>>
  \/ \E at \in {"release", "return"}, res \in Nat : Filled(t, at, res)

\* What a call is at that is about to fill what it has got.
LEMMA FillFacts ==
  ASSUME IInv, NEW t \in Threads, call[t].at = "fill"
  PROVE  LET c == call[t] IN
         /\ c \in CallType /\ c.size \in Nat /\ c.size > 0 /\ c.res \in Nat /\ c.align \in Nat
         /\ c.b \in Bins /\ c.bin \in BinType
         /\ c.how = "memalign" => c.align \in Alignments
         /\ c.how # "memalign" => Asked(c) = c.size
         /\ c.how = "realloc" => c.bin.size > 0
         /\ Held("old", t, c.b) = c.bin
         /\ Overhead \in {1, 3} /\ (course = 3 => Overhead = 1) /\ (course # 3 => Overhead = 3)
         /\ course \in {3, 4}
<1>0. Types /\ CallsInOrder
  BY DEF IInv
<1>1. call[t] \in CallType /\ call[t].bin \in BinType
  BY <1>0 DEF Types, CallType
<1> QED
  BY <1>0, <1>1 DEF CallsInOrder, CallType, Asked, Held, Overhead, Types

\* calloc clears as many words as were asked for.
LEMMA CallocFills ==
  ASSUME IInv, NEW t \in Threads, call[t].at = "fill", Calloc(t), UNCHANGED <<course, used, bin>>
  PROVE  FilledOrFault(t)
<1> DEFINE c == call[t]
<1>1. /\ c \in CallType /\ c.size \in Nat /\ c.size > 0 /\ c.res \in Nat /\ c.how = "calloc"
      /\ Asked(c) = c.size
  BY FillFacts DEF Calloc
<1>2. \/ status' = "fault" /\ UNCHANGED <<word, call>>
      \/ /\ Words(c.res, c.size) \subseteq Heap
         /\ word' = [a \in Heap |-> IF a \in Words(c.res, c.size) THEN Zero ELSE word[a]]
         /\ call' = [call EXCEPT ![t] = [c EXCEPT !.at = "return"]] /\ UNCHANGED status
  BY DEF Calloc, Writes, Fault, Cleared
<1>3. CASE status' = "fault" /\ UNCHANGED <<word, call>>
  BY <1>3 DEF FilledOrFault
<1>4. CASE /\ Words(c.res, c.size) \subseteq Heap
           /\ word' = [a \in Heap |-> IF a \in Words(c.res, c.size) THEN Zero ELSE word[a]]
           /\ call' = [call EXCEPT ![t] = [c EXCEPT !.at = "return"]] /\ UNCHANGED status
  <2>1. c.res # NULL
    <3>1. NULL \in Words(NULL, c.size) /\ NULL \notin Heap
      BY <1>1, ConstantsAssumption DEF Words, NULL, Heap
    <3> QED
      BY <1>4, <3>1
  <2>2. [c EXCEPT !.at = "return"] = [c EXCEPT !.at = "return", !.res = c.res]
    BY <1>1 DEF CallType
  <2>3. SizesInWords'
    <3>1. Zero[1] # "size"
      BY DEF Zero
    <3> QED
      BY <1>4, <3>1 DEF IInv, SizesInWords
  <2>4. \A a \in Words(c.res, c.size) : word'[a] = Zero
    BY <1>4
  <2>5. \A a \in Heap : word'[a] = word[a] \/ a \in Words(c.res, Asked(c))
    BY <1>1, <1>4
  <2>6. Filled(t, "return", c.res)
    BY <1>1, <1>4, <2>1, <2>2, <2>3, <2>4, <2>5 DEF Filled
  <2> QED
    BY <1>1, <2>6 DEF FilledOrFault
<1> QED
  BY <1>2, <1>3, <1>4

\* The lesser of two numbers.
LEMMA MinOfTwo ==
  ASSUME NEW m \in Nat, NEW n \in Nat
  PROVE  Min({m, n}) = IF m <= n THEN m ELSE n
<1> DEFINE x == IF m <= n THEN m ELSE n
<1>1. x \in {m, n} /\ \A y \in {m, n} : x <= y
  OBVIOUS
<1>2. \A z \in {m, n} : (\A y \in {m, n} : z <= y) => z = x
  OBVIOUS
<1> HIDE DEF x
<1>3. Min({m, n}) = x
  BY <1>1, <1>2 DEF Min
<1> QED
  BY <1>3 DEF x

\* Where realloc looks for the old size: hw3 finds it there, behind the header of
\* a bin that memalign has not moved.
LEMMA OldSize ==
  ASSUME IInv, NEW t \in Threads, call[t].at = "fill", call[t].how = "realloc"
  PROVE  LET c == call[t] IN
         /\ OldSizes(c) \subseteq Nat
         /\ course = 3 /\ c.bin.how # "memalign" => \A n \in OldSizes(c) : c.bin.size < n
<1> DEFINE c == call[t]
           w == word[c.bin.ptr - 1]
<1>1. /\ c.size \in Nat /\ c.b \in Bins /\ c.bin \in BinType /\ c.bin.size > 0
      /\ Held("old", t, c.b) = c.bin /\ Overhead \in {1, 3} /\ (course = 3 => Overhead = 1)
  BY FillFacts
<1>2. Types /\ BlocksApart /\ CallsInOrder /\ Places /\ "old" \in Kinds /\ SizesInWords /\ Headers
  BY DEF IInv, Kinds
<1>3. PICK k \in used : /\ In(c.bin, k) /\ c.bin.ptr \in Payload(k)
                        /\ c.bin.ptr + c.bin.size <= k.start + k.size
                        /\ k.start + Overhead <= c.bin.ptr
  BY <1>1, <1>2, HeldPlace
<1>4. c.bin.ptr \in Nat /\ c.bin.size \in Nat /\ k.start \in Nat /\ k.size \in Nat
  BY <1>1, <1>2, Blocks DEF BinType
<1>5. c.bin.ptr - 1 \in Heap
  <2>1. c.bin.ptr - 1 \in Words(k.start, k.size)
    BY <1>1, <1>2, <1>3, <1>4, Blocks
  <2> QED
    BY <1>2, <2>1, Blocks
<1>6. OldSizes(c) = CASE w[1] = "size" -> {w[2]} [] w = Zero -> {0} [] OTHER -> 0 .. c.size
  BY DEF OldSizes
<1>7. w[1] = "size" => w[2] \in Nat
  BY <1>2, <1>5 DEF SizesInWords
<1>8. w = Zero => w[1] # "size"
  BY DEF Zero
<1>9. ASSUME course = 3, c.bin.how # "memalign" PROVE \A n \in OldSizes(c) : c.bin.size < n
  <2>1. c.bin.ptr = k.start + 1
    BY <1>1, <1>3, <1>9 DEF In
  <2>2. w = word[k.start + 1 - 1] /\ 1 \in 1 .. Overhead
    BY <1>1, <1>4, <1>9, <2>1
  <2>3. w = HeaderOf(k)[1]
    BY <1>2, <2>2 DEF Headers
  <2>4. w = <<"size", k.size>>
    BY <1>9, <2>3 DEF HeaderOf
  <2>5. OldSizes(c) = {k.size}
    BY <1>6, <1>8, <2>4
  <2> QED
    BY <1>3, <1>4, <2>1, <2>5
<1> HIDE DEF w
<1>10. OldSizes(c) \subseteq Nat
  BY <1>1, <1>6, <1>7, <1>8
<1> QED
  BY <1>9, <1>10

\* realloc copies at most as many words as are asked for, and all the marked ones.
LEMMA ReallocFills ==
  ASSUME IInv, NEW t \in Threads, call[t].at = "fill", Realloc(t), UNCHANGED <<course, used, bin>>
  PROVE  FilledOrFault(t)
<1> DEFINE c == call[t]
<1>1. /\ c \in CallType /\ c.size \in Nat /\ c.res \in Nat /\ c.how = "realloc"
      /\ Asked(c) = c.size /\ c.bin \in BinType /\ c.b \in Bins /\ Held("old", t, c.b) = c.bin
      /\ OldSizes(c) \subseteq Nat /\ c.bin.size \in Nat /\ c.bin.ptr \in Nat
  BY FillFacts, OldSize DEF Realloc, BinType
<1>2. PICK l \in OldSizes(c) :
        \/ status' = "fault" /\ UNCHANGED <<word, call>>
        \/ LET n == Min({l, c.size})
           IN /\ Words(c.bin.ptr, n) \subseteq Heap /\ Words(c.res, n) \subseteq Heap
              /\ word' = [a \in Heap |-> IF a \in Words(c.res, n)
                                          THEN word[c.bin.ptr + (a - c.res)]
                                         ELSE word[a]]
              /\ call' = [call EXCEPT ![t] = [c EXCEPT !.at = "release"]] /\ UNCHANGED status
  BY DEF Realloc, Writes, Fault, Copied
<1>3. PICK n \in Nat : n = Min({l, c.size}) /\ n <= c.size /\ (n = l \/ n = c.size)
  BY <1>1, MinOfTwo
<1>4. CASE status' = "fault" /\ UNCHANGED <<word, call>>
  BY <1>4 DEF FilledOrFault
<1>5. CASE /\ Words(c.bin.ptr, n) \subseteq Heap /\ Words(c.res, n) \subseteq Heap
           /\ word' = [a \in Heap |-> IF a \in Words(c.res, n) THEN word[c.bin.ptr + (a - c.res)]
                                      ELSE word[a]]
           /\ call' = [call EXCEPT ![t] = [c EXCEPT !.at = "release"]] /\ UNCHANGED status
  <2>1. \A a \in Words(c.res, n) : a \in Words(c.res, c.size) /\ c.bin.ptr + (a - c.res) \in Heap
    <3>1. \A a \in Words(c.res, n) : c.bin.ptr + (a - c.res) \in Words(c.bin.ptr, n)
      BY <1>1, <1>3 DEF Words
    <3>2. \A a \in Words(c.res, n) : a \in Words(c.res, c.size)
      BY <1>1, <1>3 DEF Words
    <3> QED
      BY <1>5, <3>1, <3>2
  <2>2. SizesInWords'
    BY <1>5, <2>1 DEF IInv, SizesInWords
  <2>3. \A a \in Heap : word'[a] = word[a] \/ (c.res # NULL /\ a \in Words(c.res, Asked(c)))
    <3> SUFFICES ASSUME NEW a \in Heap, word'[a] # word[a]
                 PROVE  c.res # NULL /\ a \in Words(c.res, Asked(c))
      OBVIOUS
    <3>1. a \in Words(c.res, n)
      BY <1>5
    <3>2. NULL \notin Heap
      BY ConstantsAssumption DEF Heap, NULL
    <3>3. c.res \in Words(c.res, n)
      BY <1>1, <1>3, <3>1 DEF Words
    <3> QED
      BY <1>1, <1>5, <2>1, <3>1, <3>2, <3>3
  <2>4. [c EXCEPT !.at = "release"] = [c EXCEPT !.at = "release", !.res = c.res]
    BY <1>1 DEF CallType
  <2>5. ASSUME course = 3, c.bin.how # "memalign", NEW i \in Marked(c.bin), i < c.size
        PROVE  word'[c.res + i] = Mark(c.bin.ptr, i)
    <3>1. i \in Nat /\ i < c.bin.size
      BY <1>1, MarkedFacts
    <3>2. c.bin.size < l
      BY <1>1, <2>5, OldSize
    <3>3. i < n
      BY <1>1, <1>3, <2>5, <3>1, <3>2
    <3>4. c.res + i \in Words(c.res, n) /\ c.bin.ptr + ((c.res + i) - c.res) = c.bin.ptr + i
      BY <1>1, <3>1, <3>3 DEF Words
    <3>5. word'[c.res + i] = word[c.bin.ptr + i]
      BY <1>5, <3>4
    <3>6. word[c.bin.ptr + i] = Mark(c.bin.ptr, i)
      <4>1. Intact(Held("old", t, c.b))
        BY <1>1 DEF IInv, Contents, MarksIntact
      <4> QED
        BY <1>1, <2>5, <4>1 DEF Intact
    <3> QED
      BY <3>5, <3>6
  <2>6. Filled(t, "release", c.res)
    BY <1>1, <1>5, <2>2, <2>3, <2>4, <2>5 DEF Filled
  <2> QED
    BY <1>1, <2>6 DEF FilledOrFault
<1> QED
  BY <1>2, <1>3, <1>4, <1>5

\* A rest is less than what was divided by.
LEMMA Rest ==
  ASSUME NEW a \in Nat, NEW m \in Nat \ {0}
  PROVE  a % m \in Nat /\ a % m < m /\ (a = 0 => a % m = 0)
<1>1. a % m \in 0 .. m - 1
  OBVIOUS
<1>2. 0 % m = 0
  OBVIOUS
<1> QED
  BY <1>1, <1>2

\* memalign of hw3 has asked for enough room to move its pointer.
LEMMA Memalign3Fills ==
  ASSUME IInv, NEW t \in Threads, call[t].at = "fill", call[t].how = "memalign",
         ~ Unmoved(call[t]), Memalign3(t), UNCHANGED <<course, used, bin>>
  PROVE  FilledOrFault(t)
<1> DEFINE c == call[t]
<1>1. /\ c \in CallType /\ c.size \in Nat /\ c.res \in Nat /\ c.how = "memalign" /\ course = 3
      /\ c.align \in Alignments
  BY FillFacts DEF Memalign3
<1>2. PICK z \in Nat, align \in Nat \ {0} : z = c.size /\ align = c.align
  BY <1>1, ConstantsAssumption
<1>3. PICK r \in Nat : r = c.res
  BY <1>1
<1>4. PICK push \in Nat : push = PushDown(c) /\ push < align /\ (r = 0 => push = 0)
  BY <1>2, <1>3, Rest DEF PushDown
<1>5. Asked(c) = align + z
  BY <1>1, <1>2 DEF Asked, MemalignAsks
<1>6. \/ status' = "fault" /\ UNCHANGED <<word, call>>
      \/ /\ word' = [a \in Heap |-> IF a \in Words(r + push - 1, IF push > 0 THEN 1 ELSE 0)
                                    THEN Junk
                                    ELSE word[a]]
         /\ call' = [call EXCEPT ![t] = [c EXCEPT !.at = "return", !.res = r + push]]
         /\ UNCHANGED status
  BY <1>3, <1>4 DEF Memalign3, Writes, Fault
<1>7. CASE status' = "fault" /\ UNCHANGED <<word, call>>
  BY <1>7 DEF FilledOrFault
<1>8. CASE /\ word' = [a \in Heap |-> IF a \in Words(r + push - 1, IF push > 0 THEN 1 ELSE 0)
                                      THEN Junk
                                      ELSE word[a]]
           /\ call' = [call EXCEPT ![t] = [c EXCEPT !.at = "return", !.res = r + push]]
           /\ UNCHANGED status
  <2>1. SizesInWords'
    <3>1. Junk[1] # "size"
      BY DEF Junk
    <3> QED
      BY <1>8, <3>1 DEF IInv, SizesInWords
  <2>2. r + push = NULL <=> r = NULL
    BY <1>4 DEF NULL
  <2>3. Words(r + push, z) \subseteq Words(r, align + z)
    BY <1>4 DEF Words
  <2>4. ASSUME NEW a \in Heap, word'[a] # word[a] PROVE r # NULL /\ a \in Words(r, align + z)
    <3>1. a \in Words(r + push - 1, IF push > 0 THEN 1 ELSE 0)
      BY <1>8, <2>4
    <3>2. push > 0 /\ a = r + push - 1
      BY <3>1 DEF Words
    <3> QED
      BY <1>4, <3>2 DEF Words, NULL
  <2>5. \A a \in Heap : word'[a] = word[a] \/ (c.res # NULL /\ a \in Words(c.res, Asked(c)))
    BY <1>3, <1>5, <2>4
  <2>6. c.res # NULL => Words(r + push, c.size) \subseteq Words(c.res, Asked(c))
    BY <1>2, <1>3, <1>5, <2>3
  <2>7. Filled(t, "return", r + push)
    BY <1>1, <1>3, <1>8, <2>1, <2>2, <2>5, <2>6 DEF Filled
  <2> QED
    BY <2>7 DEF FilledOrFault
<1> QED
  BY <1>6, <1>7, <1>8

\* memalign of hw4 has asked for the alignment twice: room for the second header too.
LEMMA Memalign4Fills ==
  ASSUME IInv, NEW t \in Threads, call[t].at = "fill", call[t].how = "memalign",
         ~ Unmoved(call[t]), Memalign4(t), UNCHANGED <<course, used, bin>>
  PROVE  FilledOrFault(t)
<1> DEFINE c == call[t]
<1>1. /\ c \in CallType /\ c.size \in Nat /\ c.res \in Nat /\ c.how = "memalign" /\ course = 4
      /\ c.align \in Alignments /\ Overhead = 3
  BY FillFacts DEF Memalign4
<1>2. PICK z \in Nat, align \in Nat : z = c.size /\ align = c.align /\ align > 3 /\ align <= Start
  <2>1. c.align \in Nat /\ c.align <= Start
    BY <1>1, ConstantsAssumption
  <2>2. ~ (c.align <= 3)
    BY <1>1 DEF Unmoved
  <2> QED
    BY <1>1, <2>1, <2>2
<1>3. PICK r \in Nat : r = c.res
  BY <1>1
<1>4. PICK rest \in Nat : rest = PushDown(c) /\ rest < align /\ (r = 0 => rest = 0)
  BY <1>2, <1>3, Rest DEF PushDown
<1>5. PICK push \in Nat : /\ push = rest + IF rest < 3 THEN align ELSE 0
                          /\ push >= 3 /\ push <= 2 * align /\ (r = 0 => push = align)
  BY <1>2, <1>4
<1>6. Asked(c) = 2 * align + z
  BY <1>1, <1>2 DEF Asked, MemalignAsks
<1>7. \/ status' = "fault" /\ UNCHANGED <<word, call>>
      \/ /\ Words(r + push - 3, 3) \subseteq Heap
         /\ word' = [a \in Heap |-> IF a \in Words(r + push - 3, 3)
                                    THEN (IF a - (r + push - 3) = 2 THEN word[r + push - 1]
                                          ELSE Junk)
                                    ELSE word[a]]
         /\ call' = [call EXCEPT ![t] = [c EXCEPT !.at = "return", !.res = r + push]]
         /\ UNCHANGED status
  BY <1>1, <1>2, <1>3, <1>4, <1>5 DEF Memalign4, Writes, Fault
<1>8. CASE status' = "fault" /\ UNCHANGED <<word, call>>
  BY <1>8 DEF FilledOrFault
<1>9. CASE /\ Words(r + push - 3, 3) \subseteq Heap
           /\ word' = [a \in Heap |-> IF a \in Words(r + push - 3, 3)
                                      THEN (IF a - (r + push - 3) = 2 THEN word[r + push - 1]
                                            ELSE Junk)
                                      ELSE word[a]]
           /\ call' = [call EXCEPT ![t] = [c EXCEPT !.at = "return", !.res = r + push]]
           /\ UNCHANGED status
  <2>1. r + push - 1 \in Heap
    BY <1>5, <1>9 DEF Words
  <2>2. SizesInWords'
    <3>1. Junk[1] # "size"
      BY DEF Junk
    <3> QED
      BY <1>9, <2>1, <3>1 DEF IInv, SizesInWords
  <2>3. r # NULL
    BY <1>2, <1>5, <2>1, ConstantsAssumption DEF Heap, NULL
  <2>4. Words(r + push, z) \subseteq Words(r, 2 * align + z)
    BY <1>2, <1>5 DEF Words
  <2>5. Words(r + push - 3, 3) \subseteq Words(r, 2 * align + z)
    BY <1>2, <1>5 DEF Words
  <2>6. \A a \in Heap : word'[a] = word[a] \/ (c.res # NULL /\ a \in Words(c.res, Asked(c)))
    BY <1>3, <1>6, <1>9, <2>3, <2>5
  <2>7. r + push # NULL /\ r + push \in Nat
    BY <1>5 DEF NULL
  <2>8. c.res # NULL => Words(r + push, c.size) \subseteq Words(c.res, Asked(c))
    BY <1>2, <1>3, <1>6, <2>4
  <2>9. Filled(t, "return", r + push)
    BY <1>1, <1>3, <1>9, <2>2, <2>3, <2>6, <2>7, <2>8 DEF Filled
  <2> QED
    BY <2>7, <2>9 DEF FilledOrFault
<1> QED
  BY <1>7, <1>8, <1>9

\* memalign moves the pointer, or has no need to.
LEMMA MemalignFills ==
  ASSUME IInv, NEW t \in Threads, call[t].at = "fill", Memalign(t),
         UNCHANGED <<course, used, bin>>
  PROVE  FilledOrFault(t)
<1> DEFINE c == call[t]
<1>1. /\ c \in CallType /\ c.size \in Nat /\ c.res \in Nat /\ c.how = "memalign"
  BY FillFacts DEF Memalign
<1>2. CASE Unmoved(c) /\ call' = [call EXCEPT ![t].at = "return"] /\ UNCHANGED <<word, status>>
  <2>1. Asked(c) = c.size
    BY <1>1, <1>2 DEF Asked, MemalignAsks
  <2>2. call' = [call EXCEPT ![t] = [c EXCEPT !.at = "return", !.res = c.res]]
    BY <1>1, <1>2 DEF CallType
  <2>3. SizesInWords'
    BY <1>2 DEF IInv, SizesInWords
  <2>4. Filled(t, "return", c.res)
    BY <1>1, <1>2, <2>1, <2>2, <2>3 DEF Filled
  <2> QED
    BY <1>1, <2>4 DEF FilledOrFault
<1>3. CASE ~ Unmoved(c) /\ (Memalign3(t) \/ Memalign4(t))
  BY <1>1, <1>3, Memalign3Fills, Memalign4Fills
<1> QED
  BY <1>2, <1>3 DEF Memalign

\* calloc, realloc or memalign: it writes to what it got, or dies.
LEMMA FillKeeps ==
  ASSUME IInv, NEW t \in Threads, Fill(t)
  PROVE  IInv'
<1>0. Types /\ BlocksApart /\ Headers /\ SizesInWords /\ CallsInOrder /\ Places /\ MarksIntact
      /\ (\A s \in Threads : CallocCleared(s) /\ CopyKept(s)) /\ TestPasses
  BY DEF IInv, Contents
<1>1. FilledOrFault(t)
  BY CallocFills, ReallocFills, MemalignFills DEF Fill
<1>2. CASE status' = "fault" /\ UNCHANGED <<course, word, used, bin, call>>
  BY <1>2, UnchangedKeeps DEF TestPasses
<1>3. ASSUME NEW at \in {"release", "return"}, NEW res \in Nat, Filled(t, at, res) PROVE IInv'
  <2> DEFINE c == call[t]
  <2>20. PICK b \in Bins : b = c.b
    BY FillFacts DEF Fill
  <2>1. /\ c \in CallType /\ c.at = "fill" /\ c.b = b
        /\ c.size \in Nat /\ c.size > 0 /\ c.res \in Nat
        /\ c.bin \in BinType /\ (c.how # "memalign" => Asked(c) = c.size)
        /\ Held("old", t, b) = c.bin
    BY <2>20, FillFacts DEF Fill
  <2>2. /\ c.how \in Hows \ {"none"} /\ (c.how = "memalign" => c.align \in Alignments)
        /\ c.how \in {"calloc", "memalign"} \/ (c.how = "realloc" /\ c.bin.ptr # NULL)
        /\ (c.how # "realloc" => c.bin = Empty) /\ (c.bin.size > 0 <=> c.bin.ptr # NULL)
    BY <1>0, <2>1 DEF CallsInOrder, CallType
  <2>3. /\ call' = [call EXCEPT ![t] = [c EXCEPT !.at = at, !.res = res]]
        /\ UNCHANGED <<course, used, bin, status>>
        /\ SizesInWords' /\ (at = "release" <=> c.how = "realloc")
        /\ (res = NULL <=> c.res = NULL) /\ (c.how # "memalign" => res = c.res)
        /\ (c.res # NULL => Words(res, c.size) \subseteq Words(c.res, Asked(c)))
        /\ \A a \in Heap : word'[a] = word[a] \/ (c.res # NULL /\ a \in Words(c.res, Asked(c)))
    BY <1>3 DEF Filled
  <2>4. /\ call' \in [Threads -> CallType] /\ \A s \in Threads : s # t => call'[s] = call[s]
        /\ call'[t].at = at /\ call'[t].how = c.how /\ call'[t].bin = c.bin /\ call'[t].b = b
        /\ call'[t].size = c.size /\ call'[t].res = res /\ call'[t].align = c.align
    BY <1>0, <2>1, <2>3 DEF Types, CallType
  <2>5. Asked(c) \in Nat /\ Asked(c) > 0
    <3>1. c.align \in Nat
      BY <2>1 DEF CallType
    <3> QED
      BY <2>1, <3>1 DEF Asked, MemalignAsks
  <2>6. /\ c.res # NULL => Held("new", t, b) = [ptr |-> c.res, size |-> Asked(c), how |-> c.how]
        /\ c.res = NULL => Held("new", t, b) = Empty
    BY <2>1 DEF Held
  <2>7. FreesBut("new", t, b)
    <3>1. \A a \in Heap : \/ word'[a] = word[a]
                          \/ /\ Held("new", t, b).size > 0
                             /\ a \in Words(Held("new", t, b).ptr, Held("new", t, b).size)
      BY <2>3, <2>5, <2>6
    <3> QED
      BY <2>3, <3>1, OwnWrites
  <2>8. Types'
    BY <1>0, <2>3, <2>4 DEF Types
  <2>9. CallsInOrder'
    <3> SUFFICES ASSUME NEW s \in Threads PROVE CallsInOrder!2!(s)'
      BY <1>0, <2>3 DEF CallsInOrder
    <3>1. CASE s # t
      BY <1>0, <2>4, <3>1 DEF CallsInOrder
    <3>2. CASE s = t
      <4> HIDE DEF c
      <4> QED
        BY <2>1, <2>2, <2>3, <2>4, <3>2
    <3> QED
      BY <3>1, <3>2
  <2>10. ASSUME NEW o \in Kinds, NEW s \in Threads, NEW a \in Bins,
                ~ (o = "new" /\ s = t /\ a = b),
                Held(o, s, a)'.size > 0
         PROVE  Held(o, s, a)' = Held(o, s, a)
    <3>0. Empty.size = 0
      BY DEF Empty
    <3>1. CASE s # t
      <4>1. call'[s] = call[s] /\ bin' = bin /\ course' = course
        BY <2>3, <2>4, <3>1
      <4> QED
        BY <4>1 DEF Held, Kinds, Asked, MemalignAsks, Unmoved
    <3>2. CASE s = t /\ o = "bin"
      BY <2>3, <3>2 DEF Held
    <3>3. CASE s = t /\ o = "old"
      BY <2>1, <2>4, <2>10, <3>0, <3>3 DEF Held
    <3>4. CASE s = t /\ o = "new"
      BY <2>4, <2>10, <3>0, <3>4 DEF Held
    <3> QED
      BY <3>1, <3>2, <3>3, <3>4 DEF Kinds
  <2>11. Held("new", t, b)' =
          IF res # NULL THEN [ptr |-> res, size |-> c.size, how |-> c.how] ELSE Empty
    BY <2>4 DEF Held
  <2>12. ASSUME Held("new", t, b)'.size > 0 PROVE Goes("new", "new", t, b)
    <3>1. res # NULL /\ c.res # NULL /\ Held("new", t, b).size > 0
      BY <2>3, <2>5, <2>6, <2>11, <2>12 DEF Empty
    <3>2. ASSUME NEW k \in used, In(Held("new", t, b), k) PROVE In(Held("new", t, b), k)'
      <4>1. Words(c.res, Asked(c)) \subseteq Payload(k)
            /\ (c.how # "memalign" => c.res = k.start + Overhead)
        BY <2>6, <3>1, <3>2 DEF In
      <4>2. Words(res, c.size) \subseteq Payload(k)
        BY <2>3, <3>1, <4>1
      <4>3. Payload(k)' = Payload(k) /\ Overhead' = Overhead
        BY <2>3 DEF Payload, Words, Overhead
      <4>4. /\ Held("new", t, b)'.ptr = res /\ Held("new", t, b)'.size = c.size
            /\ Held("new", t, b)'.how = c.how
        BY <2>11, <3>1
      <4>5. Words(Held("new", t, b)'.ptr, Held("new", t, b)'.size) \subseteq Payload(k)'
        BY <4>2, <4>3, <4>4
      <4>6. Held("new", t, b)'.how # "memalign" => Held("new", t, b)'.ptr = k.start + Overhead'
        BY <2>3, <4>1, <4>3, <4>4
      <4> QED
        BY <4>5, <4>6 DEF In, Words
    <3> QED
      BY <2>3, <3>1, <3>2 DEF Goes
  <2>13. \A o \in Kinds, s \in Threads, a \in Bins : Held(o, s, a)'.size > 0 => Goes(o, o, s, a)
    <3> SUFFICES ASSUME NEW o \in Kinds, NEW s \in Threads, NEW a \in Bins,
                        Held(o, s, a)'.size > 0,
                        ~ (o = "new" /\ s = t /\ a = b)
                 PROVE  Goes(o, o, s, a)
      BY <2>12
    <3> QED
      BY <1>0, <2>3, <2>7, <2>10, SafeGoes DEF FreesBut, Same
  <2>14. Places'
    <3> DEFINE F == [o \in Kinds |-> o]
    <3>1. F \in [Kinds -> Kinds] /\ \A o, p \in Kinds : F[o] = F[p] => o = p
      OBVIOUS
    <3>2. \A o \in Kinds : Held(o, t, b)'.size > 0 => Goes(F[o], o, t, b)
      BY <2>13
    <3> HIDE DEF F
    <3> QED
      BY <1>0, <2>3, <2>7, <2>8, <2>9, <2>13, <3>1, <3>2, PlacesMove DEF FreesBut
  <2>15. MarksIntact'
    <3> SUFFICES ASSUME NEW o \in {"bin", "old"}, NEW s \in Threads, NEW a \in Bins
                 PROVE  Intact(Held(o, s, a))'
      BY DEF MarksIntact
    <3>0. o \in Kinds /\ o # "new"
      BY DEF Kinds
    <3>1. Held(o, s, a)' \in BinType
      BY <2>8, <2>9, <3>0, HeldTypesNext DEF HeldTyped
    <3>2. CASE Held(o, s, a)'.size = 0
      BY <3>1, <3>2, MarkedFacts DEF Intact
    <3>3. CASE Held(o, s, a)'.size > 0
      <4>1. Held(o, s, a)' = Held(o, s, a) /\ Safe(o, s, a)
        BY <2>7, <2>10, <3>0, <3>3 DEF FreesBut
      <4>2. \A i \in Marked(Held(o, s, a)) :
              word'[Held(o, s, a).ptr + i] = Mark(Held(o, s, a).ptr, i)
        BY <1>0, <4>1, MarksStay
      <4> QED
        BY <4>1, <4>2 DEF Intact, Marked, Mark
    <3> QED
      BY <3>1, <3>2, <3>3 DEF BinType
  <2>16. ASSUME NEW s \in Threads PROVE CallocCleared(s)' /\ CopyKept(s)'
    <3>1. CASE s # t
      <4>1. call[s].b \in Bins => Safe("new", s, call[s].b)
        BY <2>7, <3>1 DEF FreesBut, Kinds
      <4> QED
        BY <1>0, <2>3, <2>4, <3>1, <4>1, CallStays
    <3>2. CASE s = t
      <4>1. CallocCleared(t)'
        BY <1>3, <2>4 DEF CallocCleared, IsZero, Words, Filled
      <4>2. CopyKept(t)'
        BY <1>3, <2>3, <2>4 DEF CopyKept, Filled, Marked, Mark
      <4> QED
        BY <3>2, <4>1, <4>2
    <3> QED
      BY <3>1, <3>2
  <2>17. TestPasses'
    BY <1>0, <2>3 DEF TestPasses
  <2> QED
    BY <2>7, <2>8, <2>9, <2>14, <2>15, <2>16, <2>17 DEF IInv, Contents, FreesBut
<1> QED
  BY <1>1, <1>2, <1>3 DEF FilledOrFault

\* The rest of bin_alloc: what calloc returned is zero, and the bin that is marked
\* has nothing of another's under it.
LEMMA ReturnKeeps ==
  ASSUME IInv, NEW t \in Threads, Return(t)
  PROVE  IInv'
<1>0. Types /\ BlocksApart /\ Headers /\ SizesInWords /\ CallsInOrder /\ Places /\ MarksIntact
      /\ (\A s \in Threads : CallocCleared(s) /\ CopyKept(s)) /\ TestPasses
  BY DEF IInv, Contents
<1> DEFINE c == call[t]
           m == [ptr |-> c.res, size |-> c.size, how |-> c.how]
<1>20. PICK b \in Bins : b = c.b
  BY <1>0 DEF Return, CallsInOrder
<1>1. /\ c \in CallType /\ c.at = "return" /\ c.b = b
      /\ c.size \in Nat /\ c.size > 0 /\ c.res \in Nat
      /\ m \in BinType /\ Stride \in Nat
  BY <1>0, <1>20, ConstantsAssumption DEF Return, Types, CallsInOrder, CallType, BinType
<1>2. CASE c.res = NULL /\ status' = "out of memory" /\ UNCHANGED <<word, bin, call>>
  <2>1. UNCHANGED <<course, used>>
    BY DEF Return
  <2> QED
    BY <1>2, <2>1, UnchangedKeeps DEF TestPasses
<1>3. CASE c.res # NULL
  <2>1. ~ (c.how = "calloc" /\ ~ IsZero(c.res, c.size))
    BY <1>0, <1>1, <1>3 DEF CallocCleared
  <2>2. /\ word' = [a \in Heap |-> IF a - m.ptr \in Marked(m)
                                 THEN Mark(m.ptr, a - m.ptr) ELSE word[a]]
        /\ bin' = [bin EXCEPT ![t][b] = m] /\ call' = [call EXCEPT ![t] = Idle]
        /\ UNCHANGED <<course, used, status>>
    BY <1>1, <1>3, <2>1 DEF Return
  <2>3. Held("new", t, b) = m /\ m.ptr = c.res /\ m.size = c.size
    BY <1>1, <1>3 DEF Held
  <2>4. \A i \in Marked(m) : i \in Nat /\ i < m.size /\ m.ptr + i \in Words(m.ptr, m.size)
    BY <1>1, MarkedFacts
  <2>5. Empty \in BinType /\ Empty.size = 0 /\ Empty.ptr = NULL
    BY DEF Empty, BinType, Hows, NULL
  <2>6. /\ bin' \in [Threads -> [Bins -> BinType]] /\ bin'[t][b] = m
        /\ \A s \in Threads, a \in Bins : ~ (s = t /\ a = b) => bin'[s][a] = bin[s][a]
    <3> HIDE DEF m
    <3> QED
      BY <1>0, <1>1, <2>2 DEF Types
  <2>7. /\ call' \in [Threads -> CallType] /\ call'[t] = Idle
        /\ \A s \in Threads : s # t => call'[s] = call[s]
    <3>1. Idle \in CallType
      BY <2>5 DEF Idle, CallType, Hows, NULL
    <3> QED
      BY <1>0, <2>2, <3>1 DEF Types
  <2>8. Idle.at = "idle" /\ Idle.bin = Empty /\ Idle.how = "none"
    BY DEF Idle
  <2> HIDE DEF m
  <2>9. SizesInWords'
    <3>1. \A p, i : Mark(p, i)[1] # "size"
      BY DEF Mark
    <3> QED
      BY <1>0, <2>2, <3>1 DEF SizesInWords
  <2>10. FreesBut("new", t, b)
    <3>1. ASSUME NEW a \in Heap, word'[a] # word[a] PROVE a \in Words(m.ptr, m.size)
      <4>1. a - m.ptr \in Marked(m)
        BY <2>2, <3>1
      <4>2. m.ptr + (a - m.ptr) = a
        BY <1>1, ConstantsAssumption DEF BinType, Heap
      <4> QED
        BY <2>4, <4>1, <4>2
    <3>2. Held("new", t, b).size > 0
      BY <1>1, <2>3
    <3> QED
      BY <2>2, <2>3, <2>9, <3>1, <3>2, OwnWrites
  <2>11. Types'
    BY <1>0, <2>2, <2>6, <2>7 DEF Types
  <2>12. CallsInOrder'
    <3>1. \A s \in Threads, a \in Bins : bin'[s][a].size > 0 <=> bin'[s][a].ptr # NULL
      BY <1>0, <1>1, <1>3, <2>3, <2>6 DEF CallsInOrder
    <3>2. ASSUME NEW s \in Threads PROVE CallsInOrder!2!(s)'
      <4>1. CASE s # t
        BY <1>0, <2>7, <4>1 DEF CallsInOrder
      <4>2. CASE s = t
        BY <2>5, <2>7, <2>8, <4>2
      <4> QED
        BY <4>1, <4>2
    <3> QED
      BY <3>1, <3>2 DEF CallsInOrder
  <2>13. ASSUME NEW o \in Kinds, NEW s \in Threads, NEW a \in Bins
         PROVE  /\ s # t \/ (o = "bin" /\ a # b) => Held(o, s, a)' = Held(o, s, a)
                /\ s = t /\ o # "bin" => Held(o, s, a)' = Empty
                /\ s = t /\ a = b /\ o = "bin" => Held(o, s, a)' = m
    <3>1. CASE s # t
      <4>1. call'[s] = call[s] /\ bin'[s][a] = bin[s][a] /\ course' = course
        BY <2>2, <2>6, <2>7, <3>1
      <4> QED
        BY <3>1, <4>1 DEF Held, Kinds, Asked, MemalignAsks, Unmoved
    <3>2. CASE s = t /\ o = "bin"
      BY <2>6, <3>2 DEF Held
    <3>3. CASE s = t /\ o = "old"
      BY <2>7, <2>8, <3>3 DEF Held
    <3>4. CASE s = t /\ o = "new"
      BY <2>7, <2>8, <3>4 DEF Held
    <3> QED
      BY <3>1, <3>2, <3>3, <3>4 DEF Kinds
  <2>14. Places'
    <3> DEFINE F == [o \in Kinds |->
                    CASE o = "bin" -> "new" [] o = "new" -> "bin" [] OTHER -> "old"]
    <3>1. F \in [Kinds -> Kinds] /\ (\A o, p \in Kinds : F[o] = F[p] => o = p) /\ F["bin"] = "new"
      BY DEF Kinds
    <3>2. ASSUME NEW o \in Kinds, NEW s \in Threads, NEW a \in Bins, ~ (s = t /\ a = b),
                 Held(o, s, a)'.size > 0
          PROVE  Goes(o, o, s, a)
      <4>1. Held(o, s, a)' = Held(o, s, a) /\ Safe(o, s, a)
        BY <2>5, <2>10, <2>13, <3>2 DEF FreesBut
      <4> QED
        BY <1>0, <2>2, <3>2, <4>1, SafeGoes DEF Same
    <3>3. ASSUME NEW o \in Kinds, Held(o, t, b)'.size > 0 PROVE Goes(F[o], o, t, b)
      <4>1. o = "bin" /\ Held(o, t, b)' = Held("new", t, b)
        BY <2>3, <2>5, <2>13, <3>3
      <4>2. Goes("new", "bin", t, b)
        BY <2>2, <3>3, <4>1 DEF Goes, In, Payload, Words, Overhead
      <4> QED
        BY <3>1, <4>1, <4>2
    <3> HIDE DEF F
    <3> QED
      BY <1>0, <2>2, <2>10, <2>11, <2>12, <3>1, <3>2, <3>3, PlacesMove DEF FreesBut
  <2>15. MarksIntact'
    <3> SUFFICES ASSUME NEW o \in {"bin", "old"}, NEW s \in Threads, NEW a \in Bins
                 PROVE  Intact(Held(o, s, a))'
      BY DEF MarksIntact
    <3>0. o \in Kinds /\ o # "new"
      BY DEF Kinds
    <3>1. CASE Held(o, s, a)' = Empty
      BY <2>5, <3>1, MarkedFacts DEF Intact
    <3>2. CASE Held(o, s, a)' # Empty /\ ~ (s = t /\ a = b)
      <4>1. Held(o, s, a)' = Held(o, s, a) /\ Safe(o, s, a)
        BY <2>10, <2>13, <3>0, <3>2 DEF FreesBut
      <4>2. \A i \in Marked(Held(o, s, a)) :
              word'[Held(o, s, a).ptr + i] = Mark(Held(o, s, a).ptr, i)
        BY <1>0, <4>1, MarksStay
      <4> QED
        BY <4>1, <4>2 DEF Intact, Marked, Mark
    <3>3. CASE Held(o, s, a)' # Empty /\ s = t /\ a = b
      <4>1. Held(o, s, a)' = m
        BY <2>13, <3>0, <3>3
      <4>2. ASSUME NEW i \in Marked(m) PROVE word'[m.ptr + i] = Mark(m.ptr, i)
        <5>1. m.ptr + i \in Heap
          <6>1. PICK k \in used : In(m, k)
            BY <1>0, <1>1, <2>3 DEF Places, HeldInside, Kinds
          <6> QED
            BY <1>0, <2>4, <6>1, Blocks DEF In
        <5>2. (m.ptr + i) - m.ptr = i
          BY <1>1, <2>4 DEF BinType
        <5> QED
          BY <2>2, <5>1, <5>2
      <4> QED
        BY <4>1, <4>2 DEF Intact, Marked, Mark
    <3> QED
      BY <3>1, <3>2, <3>3
  <2>16. ASSUME NEW s \in Threads PROVE CallocCleared(s)' /\ CopyKept(s)'
    <3>1. CASE s # t
      <4>1. call[s].b \in Bins => Safe("new", s, call[s].b)
        BY <2>10, <3>1 DEF FreesBut, Kinds
      <4> QED
        BY <1>0, <2>2, <2>7, <3>1, <4>1, CallStays
    <3>2. CASE s = t
      BY <2>7, <2>8, <3>2 DEF CallocCleared, CopyKept
    <3> QED
      BY <3>1, <3>2
  <2>17. TestPasses'
    BY <1>0, <2>2 DEF TestPasses
  <2> QED
    BY <2>10, <2>11, <2>12, <2>14, <2>15, <2>16, <2>17 DEF IInv, Contents, FreesBut
<1> QED
  BY <1>2, <1>3 DEF Return

------------------------------------------------------------------------------
(* The theorems.                                                           *)

\* Nothing is allocated at first.
LEMMA InitIInv == Init => IInv
<1> SUFFICES ASSUME Init PROVE IInv
  OBVIOUS
<1>1. Empty \in BinType /\ Empty.size = 0 /\ Empty.ptr = NULL
  BY DEF Empty, BinType, Hows, NULL
<1>2. /\ Idle \in CallType /\ Idle.at = "idle" /\ Idle.how = "none" /\ Idle.bin = Empty
  BY <1>1 DEF Idle, CallType, Hows, NULL
<1>3. /\ course \in {3, 4} /\ used = {} /\ status = "running"
      /\ \A t \in Threads, b \in Bins : bin[t][b] = Empty /\ call[t] = Idle
      /\ bin = [t \in Threads |-> [b \in Bins |-> Empty]] /\ call = [t \in Threads |-> Idle]
  BY ConstantsAssumption DEF Init
<1>4. Types
  BY <1>1, <1>2, <1>3 DEF Types
<1>5. BlocksApart /\ Headers
  BY <1>3 DEF BlocksApart, Headers
<1>6. SizesInWords
  <2>1. Junk[1] # "size" /\ Zero[1] # "size"
    BY DEF Junk, Zero
  <2> QED
    BY <2>1 DEF SizesInWords, Init
<1>7. \A t \in Threads : call[t] = Idle
  BY <1>3
<1>8. CallsInOrder
  BY <1>1, <1>2, <1>3, <1>7 DEF CallsInOrder
<1>9. \A o \in Kinds, t \in Threads, b \in Bins : Held(o, t, b) = Empty
  BY <1>2, <1>3 DEF Held, Kinds
<1>10. Places
  BY <1>1, <1>9 DEF Places, HeldInside, HeldApart
<1>11. MarksIntact
  <2>1. Intact(Empty)
    BY <1>1, MarkedFacts DEF Intact
  <2> QED
    BY <1>9, <2>1 DEF MarksIntact, Kinds
<1>12. Contents
  BY <1>2, <1>7, <1>11 DEF Contents, CallocCleared, CopyKept
<1>13. TestPasses
  BY <1>3 DEF TestPasses
<1> QED
  BY <1>4, <1>5, <1>6, <1>8, <1>10, <1>12, <1>13 DEF IInv

\* Every step keeps the invariant.
LEMMA StepIInv == IInv /\ [Next]_vars => IInv'
<1> SUFFICES ASSUME IInv, [Next]_vars PROVE IInv'
  OBVIOUS
<1>1. CASE UNCHANGED vars
  <2>1. UNCHANGED <<course, word, used, bin, call>> /\ TestPasses'
    BY <1>1 DEF vars, IInv, TestPasses
  <2> QED
    BY <2>1, UnchangedKeeps
<1>2. ASSUME NEW t \in Threads, NEW b \in Bins, NEW size \in Sizes,
             NEW how \in {"malloc", "calloc", "realloc"}, BinAlloc(t, b, how, size, 0)
      PROVE  IInv'
  BY <1>2, BinAllocKeeps DEF Hows
<1>3. ASSUME NEW t \in Threads, NEW b \in Bins, NEW size \in Sizes, NEW align \in Alignments,
             BinAlloc(t, b, "memalign", size, align)
      PROVE  IInv'
  <2>1. align \in Nat
    BY ConstantsAssumption
  <2> QED
    BY <1>3, <2>1, BinAllocKeeps DEF Hows
<1> QED
  BY <1>1, <1>2, <1>3, MallocKeeps, FillKeeps, ReleaseKeeps, ReturnKeeps,
     BinFreeKeeps, BinTestKeeps
     DEF Next

\* The invariant holds always.
LEMMA Invariant == Spec => []IInv
BY InitIInv, StepIInv, PTL DEF Spec

\* Whatever the threads of test1.c do, and in whatever order their calls write to
\* memory, mem_check finds every bin as mem_init left it, and calloc's memory is
\* zero when bin_alloc looks at it: what a thread writes stays in a block that is
\* its own.
THEOREM TestNeverFails == Spec => []TestPasses
<1>1. IInv => TestPasses
  BY DEF IInv
<1> QED
  BY <1>1, Invariant, PTL

\* Neither the clearing of calloc, the copying of realloc, the back pointer of
\* memalign nor the marks of the test run over the header that free and realloc
\* will read of a block in use.
THEOREM HeadersStay == Spec => []HeadersKept
<1>1. IInv => HeadersKept
  BY DEF IInv, Headers, HeadersKept
<1> QED
  BY <1>1, Invariant, PTL

\* However far memalign moved its pointer, what it returned and all that was asked
\* for lie inside one block in use, behind its header, and no other bin does.
THEOREM BinsStayInside == Spec => []BinsInside
<1>1. IInv => BinsInside
  <2> SUFFICES ASSUME IInv, NEW t \in Threads, NEW b \in Bins, bin[t][b].size > 0
               PROVE  \E k \in used :
                        /\ Words(bin[t][b].ptr, bin[t][b].size) \subseteq Payload(k)
                        /\ \A s \in Threads, a \in Bins :
                             bin[s][a].size > 0 /\ bin[s][a].ptr \in Payload(k) => s = t /\ a = b
    BY DEF BinsInside
  <2>1. "bin" \in Kinds /\ \A s \in Threads, a \in Bins : Held("bin", s, a) = bin[s][a]
    BY DEF Kinds, Held
  <2>2. PICK k \in used : In(bin[t][b], k) /\ bin[t][b].ptr \in Payload(k)
    BY <2>1, HeldPlace DEF IInv
  <2> QED
    BY <2>1, <2>2 DEF IInv, Places, HeldApart, In
<1> QED
  BY <1>1, Invariant, PTL

\* realloc of hw3 keeps the contents up to the lesser of the two sizes, for what
\* malloc, calloc or realloc returned, until bin_alloc marks the new bin; the
\* other threads allocate and write meanwhile.
THEOREM ReallocKeepsContents == Spec => []ReallocKeeps
<1>1. IInv => ReallocKeeps
  BY DEF IInv, Contents, CopyKept, ReallocKeeps, KeptBy
<1> QED
  BY <1>1, Invariant, PTL
=============================================================================
