---------------------------- MODULE QuickSortProofs ----------------------------
(***************************************************************************)
(* QuickSort for arrays of any length and any names.  str_lt is a total    *)
(* order; a call sorts a part of the array and leaves the rest alone, so   *)
(* what its callers have placed and sorted beside the part stays so.  The  *)
(* last section bounds the number of steps.                                *)
(***************************************************************************)
EXTENDS QuickSort, NumberLemmas, FiniteSetTheorems

------------------------------------------------------------------------------
(* The order of the strings.                                               *)

Strings == Seq(1 .. 127)
Places == Nat \ {0}

\* x and y are the same up to place i, and x is greater there.
Beyond(x, y, i) == /\ Char(x, i) > Char(y, i)
                   /\ \A j \in 1 .. i - 1 : Char(x, j) = Char(y, j)
Same(x, y) == \A i \in Places : Char(x, i) = Char(y, i)

\* A string has its characters, and zeros behind them.
LEMMA CharFacts ==
  ASSUME NEW x \in Strings, NEW i \in Places
  PROVE  /\ Char(x, i) \in Nat
         /\ Char(x, i) = 0 <=> i > Len(x)
         /\ i <= Len(x) => Char(x, i) = x[i]
<1>1. DOMAIN x = 1 .. Len(x) /\ Len(x) \in Nat
  BY DEF Strings
<1>2. CASE i <= Len(x)
  <2>1. PICK Code : Code = 1 .. 127
    OBVIOUS
  <2>2. x \in Seq(Code)
    BY <2>1 DEF Strings
  <2>3. x[i] \in Code /\ i \in DOMAIN x
    BY <1>1, <1>2, <2>2 DEF Places
  <2>4. x[i] \in Nat \ {0} /\ Char(x, i) = x[i]
    BY <2>1, <2>3 DEF Char
  <2> QED
    BY <1>1, <1>2, <2>4 DEF Places
<1>3. CASE i > Len(x)
  BY <1>1, <1>3 DEF Char, Places
<1> QED
  BY <1>1, <1>2, <1>3 DEF Places

\* Two strings are the same, or there is a first place where one is beyond the
\* other.
LEMMA FirstDifference ==
  ASSUME NEW x \in Strings, NEW y \in Strings
  PROVE  Same(x, y) \/ \E i \in Places : Beyond(x, y, i) \/ Beyond(y, x, i)
<1> DEFINE Different == {i \in Places : Char(x, i) # Char(y, i)}
<1> SUFFICES ASSUME ~ Same(x, y)
             PROVE  \E i \in Places : Beyond(x, y, i) \/ Beyond(y, x, i)
  OBVIOUS
<1>1. Different \in SUBSET Nat /\ Different # {}
  BY DEF Same, Places
<1>2. PICK i \in Different : \A j \in Different : i <= j
  <2> HIDE DEF Different
  <2> QED
    BY <1>1, LeastNumber
<1>3. \A j \in 1 .. i - 1 : Char(x, j) = Char(y, j)
  BY <1>2 DEF Places
<1>4. Char(x, i) \in Nat /\ Char(y, i) \in Nat
  BY CharFacts
<1> QED
  BY <1>3, <1>4 DEF Beyond

\* What str_lt answers: x is y or beyond it.
LEMMA StrLtMeaning ==
  ASSUME NEW x \in Strings, NEW y \in Strings
  PROVE  StrLt(x, y) <=> Same(x, y) \/ \E i \in Places : Beyond(x, y, i)
<1> DEFINE Ends(i) ==
             /\ Char(x, i) = 0 \/ Char(x, i) # Char(y, i)
             /\ \A j \in 1 .. i - 1 : Char(x, j) # 0 /\ Char(x, j) = Char(y, j)
           Stops == {i \in 1 .. Len(x) + 1 : Char(x, i) = 0 \/ Char(x, i) # Char(y, i)}
<1>0. Len(x) \in Nat
  BY DEF Strings
<1>1. PICK i \in Stops : \A j \in Stops : i <= j
  <2>1. Len(x) + 1 \in Stops
    BY <1>0, CharFacts DEF Places
  <2>2. Stops \in SUBSET Nat /\ Stops # {}
    BY <1>0, <2>1
  <2> HIDE DEF Stops
  <2> QED
    BY <2>2, LeastNumber
<1>2. i \in 1 .. Len(x) + 1 /\ Ends(i)
  <2>1. \A j \in 1 .. i - 1 : j \in 1 .. Len(x) + 1 /\ j \notin Stops
    BY <1>0, <1>1
  <2> QED
    BY <1>1, <2>1
<1>3. PICK end \in 1 .. Len(x) + 1 : /\ Ends(end)
                                     /\ StrLt(x, y) <=> Char(x, end) >= Char(y, end)
  BY <1>2 DEF StrLt
<1>4. /\ \A j \in Places : Char(x, j) \in Nat /\ Char(y, j) \in Nat
      /\ \A j \in Places : Char(x, j) = 0 <=> j > Len(x)
      /\ \A j \in Places : Char(y, j) = 0 <=> j > Len(y)
      /\ end \in Places /\ Len(y) \in Nat
  BY <1>0, CharFacts DEF Places, Strings
<1> HIDE DEF Stops
<1>5. CASE Char(x, end) # Char(y, end)
  <2>1. ~ Same(x, y)
    BY <1>4, <1>5 DEF Same
  <2>2. ASSUME NEW j \in Places, Beyond(x, y, j) PROVE Char(x, end) >= Char(y, end)
    <3>1. CASE j < end
      <4>1. j \in 1 .. end - 1
        BY <1>4, <3>1 DEF Places
      <4>2. Char(x, j) = Char(y, j)
        BY <1>3, <4>1
      <4> QED
        BY <1>4, <2>2, <4>2 DEF Beyond
    <3>2. CASE j > end
      <4>1. end \in 1 .. j - 1
        BY <1>4, <3>2 DEF Places
      <4> QED
        BY <1>5, <2>2, <4>1 DEF Beyond
    <3>3. CASE j = end
      BY <1>4, <2>2, <3>3 DEF Beyond
    <3> QED
      BY <1>4, <3>1, <3>2, <3>3 DEF Places
  <2>3. Char(x, end) > Char(y, end) => Beyond(x, y, end)
    BY <1>3 DEF Beyond
  <2> QED
    BY <1>3, <1>4, <1>5, <2>1, <2>2, <2>3
<1>6. CASE Char(x, end) = Char(y, end)
  <2>1. Char(x, end) = 0
    BY <1>3, <1>6
  <2>2. ASSUME NEW j \in Places PROVE Char(x, j) = Char(y, j)
    <3>1. CASE j < end
      <4>1. j \in 1 .. end - 1
        BY <1>4, <3>1 DEF Places
      <4> QED
        BY <1>3, <4>1
    <3>2. CASE j >= end
      <4>1. end > Len(x) /\ end > Len(y)
        BY <1>4, <1>6, <2>1
      <4>2. j > Len(x) /\ j > Len(y)
        BY <1>0, <1>4, <3>2, <4>1 DEF Places
      <4> QED
        BY <1>4, <4>2
    <3> QED
      BY <1>4, <3>1, <3>2 DEF Places
  <2>3. Same(x, y)
    BY <2>2 DEF Same
  <2> QED
    BY <1>3, <1>4, <1>6, <2>3
<1> QED
  BY <1>5, <1>6

\* Two strings that are the same are equal.
LEMMA SameIsEqual ==
  ASSUME NEW x \in Strings, NEW y \in Strings, Same(x, y)
  PROVE  x = y
<1>1. /\ Len(x) \in Nat /\ Len(y) \in Nat
      /\ \A j \in Places : Char(x, j) = 0 <=> j > Len(x)
      /\ \A j \in Places : Char(y, j) = 0 <=> j > Len(y)
      /\ \A j \in Places : j <= Len(x) => Char(x, j) = x[j]
      /\ \A j \in Places : j <= Len(y) => Char(y, j) = y[j]
  BY CharFacts DEF Strings
<1>2. \A j \in Places : j > Len(x) <=> j > Len(y)
  BY <1>1 DEF Same
<1>3. Len(x) = Len(y)
  <2>1. Len(x) + 1 \in Places /\ Len(y) + 1 \in Places
    BY <1>1 DEF Places
  <2>2. Len(x) + 1 > Len(y) /\ Len(y) + 1 > Len(x)
    BY <1>1, <1>2, <2>1
  <2> QED
    BY <1>1, <2>2
<1>4. \A j \in 1 .. Len(x) : x[j] = y[j]
  BY <1>1, <1>3 DEF Same, Places
<1> QED
  BY <1>3, <1>4 DEF Strings

\* str_lt is a total order, the descending one ...
LEMMA StrLtTotal ==
  ASSUME NEW x \in Strings, NEW y \in Strings
  PROVE  StrLt(x, y) \/ StrLt(y, x)
BY FirstDifference, StrLtMeaning

\* ... which is transitive ...
LEMMA StrLtTransitive ==
  ASSUME NEW x \in Strings, NEW y \in Strings, NEW z \in Strings,
         StrLt(x, y), StrLt(y, z)
  PROVE  StrLt(x, z)
<1>1. x = y \/ \E i \in Places : Beyond(x, y, i)
  BY StrLtMeaning, SameIsEqual
<1>2. y = z \/ \E i \in Places : Beyond(y, z, i)
  BY StrLtMeaning, SameIsEqual
<1>3. ASSUME NEW i \in Places, NEW j \in Places, Beyond(x, y, i), Beyond(y, z, j)
      PROVE  \E k \in Places : Beyond(x, z, k)
  <2>0. \A k \in Places : Char(x, k) \in Nat /\ Char(y, k) \in Nat /\ Char(z, k) \in Nat
    BY CharFacts
  <2>1. PICK k \in Places : /\ k <= i /\ k <= j /\ (k = i \/ k = j)
    BY DEF Places
  <2>2. \A l \in 1 .. k - 1 : Char(x, l) = Char(y, l) /\ Char(y, l) = Char(z, l)
    BY <1>3, <2>1 DEF Beyond, Places
  <2>3. Char(x, k) >= Char(y, k)
    BY <1>3, <2>0, <2>1 DEF Beyond, Places
  <2>4. Char(y, k) >= Char(z, k)
    BY <1>3, <2>0, <2>1 DEF Beyond, Places
  <2>5. Char(x, k) > Char(y, k) \/ Char(y, k) > Char(z, k)
    BY <1>3, <2>1 DEF Beyond
  <2>6. Char(x, k) > Char(z, k)
    BY <2>0, <2>3, <2>4, <2>5
  <2> QED
    BY <2>2, <2>6 DEF Beyond
<1> QED
  BY <1>1, <1>2, <1>3, StrLtMeaning

\* ... of the strings as their definition has it.
LEMMA StrLtAfter ==
  ASSUME NEW x \in Strings, NEW y \in Strings, StrLt(x, y)
  PROVE  x = y \/ After(x, y)
<1>1. CASE Same(x, y)
  BY <1>1, SameIsEqual
<1>2. ASSUME NEW i \in Places, Beyond(x, y, i) PROVE After(x, y)
  <2>1. /\ Len(x) \in Nat /\ Len(y) \in Nat
        /\ DOMAIN x = 1 .. Len(x) /\ DOMAIN y = 1 .. Len(y)
        /\ \A j \in Places : Char(x, j) \in Nat /\ Char(y, j) \in Nat
        /\ \A j \in Places : Char(x, j) = 0 <=> j > Len(x)
        /\ \A j \in Places : Char(y, j) = 0 <=> j > Len(y)
        /\ \A j \in Places : j <= Len(x) => Char(x, j) = x[j]
        /\ \A j \in Places : j <= Len(y) => Char(y, j) = y[j]
    BY CharFacts DEF Strings
  <2>2. /\ Char(x, i) > Char(y, i)
        /\ \A j \in 1 .. i - 1 : Char(x, j) = Char(y, j)
    BY <1>2 DEF Beyond
  <2>3. i \in 1 .. Len(x)
    <3>1. Char(x, i) # 0
      BY <2>1, <2>2
    <3> QED
      BY <2>1, <3>1 DEF Places
  <2>4. CASE i <= Len(y)
    <3>1. i \in DOMAIN x \cap DOMAIN y /\ x[i] > y[i]
      BY <2>1, <2>2, <2>3, <2>4 DEF Places
    <3>2. \A j \in 1 .. i - 1 : x[j] = y[j]
      BY <2>1, <2>2, <2>3, <2>4 DEF Places
    <3> QED
      BY <3>1, <3>2 DEF After
  <2>5. CASE i > Len(y)
    <3>1. \A j \in 1 .. i - 1 : j \in Places /\ j <= Len(x)
      BY <2>1, <2>3 DEF Places
    <3>2. \A j \in 1 .. i - 1 : Char(y, j) # 0
      BY <2>1, <2>2, <3>1
    <3>3. i - 1 <= Len(y)
      BY <2>1, <3>1, <3>2 DEF Places
    <3>4. Len(y) < Len(x) /\ Len(y) = i - 1
      BY <2>1, <2>3, <2>5, <3>3 DEF Places
    <3>5. \A j \in 1 .. Len(y) : y[j] = x[j]
      BY <2>1, <2>2, <3>1, <3>4
    <3>6. SubSeq(y, 1, Len(y)) = SubSeq(x, 1, Len(y))
      BY <2>1, <3>4, <3>5 DEF Strings
    <3>7. IsStrictPrefix(y, x)
      BY <2>1, <3>4, <3>6 DEF IsStrictPrefix, IsPrefix
    <3> QED
      BY <3>7 DEF After
  <2> QED
    BY <2>1, <2>4, <2>5 DEF Places
<1> QED
  BY <1>1, <1>2, StrLtMeaning

------------------------------------------------------------------------------
(* The invariant.                                                          *)

\* Call d of those under way: a, len and pivot.  The last one has them in its
\* registers, the others in the frames of those they called.
Depth == Len(stack)
A(d) == IF d = Depth THEN s0 ELSE stack[d + 1].s0
L(d) == IF d = Depth THEN s1 ELSE stack[d + 1].s1
P(d) == IF d = Depth THEN s2 ELSE stack[d + 1].s2

\* A part of the array, in bytes.
Region(a, len) == /\ a \in Nat /\ a % 4 = 0 /\ len \in Nat /\ len % 4 = 0
                  /\ a + len <= 4 * Length

\* The part that call d sorts in the call that comes back to r.
Backs == {"left_done", "right_done"}
PartA(d, r) == IF r = "left_done" THEN A(d) ELSE A(d) + P(d) + 4
PartL(d, r) == IF r = "left_done" THEN P(d) ELSE L(d) - P(d) - 4

SortedIn(array, a, len) ==
  \A i, j \in Offsets : a <= i /\ i < j /\ j < a + len => StrLt(array[i], array[j])
Placed(array, a, len, p) ==
  \A i \in Offsets : /\ a <= i /\ i < a + p => StrLt(array[i], array[a + p])
                     /\ a + p < i /\ i < a + len => ~ StrLt(array[i], array[a + p])

\* Call d waits for the call that comes back to r, which sorts that part ...
Waits(d, r) ==
  /\ Placed(data, A(d), L(d), P(d))
  /\ r = "right_done" => SortedIn(data, A(d), P(d))

\* ... while the calls below that one stay inside the part.
Gives(d, r) ==
  /\ A(d + 1) = PartA(d, r) /\ L(d + 1) = PartL(d, r)
  /\ \A e \in d + 1 .. Depth :
       PartA(d, r) <= A(e) /\ A(e) + L(e) <= PartA(d, r) + PartL(d, r)

Frames == [ra : {"main"} \cup Backs, s0 : Int, s1 : Int, s2 : Int]

TypeOK ==
  /\ input \in [Offsets -> Names] /\ data \in [Offsets -> Names]
  /\ pc \in {"quick_sort", "partition", "place_pivot", "main"} \cup Backs
  /\ a0 \in Int /\ a1 \in Int /\ s0 \in Int /\ s1 \in Int /\ s2 \in Int
  /\ s3 \in Int /\ s4 \in Int
  /\ stack \in Seq(Frames)

\* Every call sorts a part of the array of its own.
CallInPart(d) ==
  Region(A(d), L(d)) /\ L(d) > 4 /\ P(d) \in Nat /\ P(d) % 4 = 0 /\ P(d) < L(d)
CallsInPart ==
  /\ \A d \in 1 .. Depth : CallInPart(d)
  /\ stack # <<>> =>
       /\ A(1) = 0 /\ L(1) = 4 * Length
       /\ stack[1] = [ra |-> "main", s0 |-> 0, s1 |-> 4 * Length, s2 |-> 0]

CallersWait ==
  \A d \in 1 .. Depth - 1 : \E r \in Backs : stack[d + 1].ra = r /\ Gives(d, r) /\ Waits(d, r)

\* What holds at each basic block.
AtCall ==
  IF stack = <<>>
    THEN ra = "main" /\ a0 = 0 /\ a1 = 4 * Length /\ saved = <<0, 4 * Length, 0>>
    ELSE /\ ra \in Backs /\ a0 = PartA(Depth, ra) /\ a1 = PartL(Depth, ra)
         /\ Waits(Depth, ra)
AtPartition ==
  /\ s2 <= s3 /\ s3 % 4 = 0 /\ s4 = s1 - 4
  /\ \A i \in Offsets :
       /\ s0 <= i /\ i < s0 + s2 => StrLt(data[i], data[s0 + s4])
       /\ s0 + s2 <= i /\ i < s0 + s3 => ~ StrLt(data[i], data[s0 + s4])
AtPoint ==
  /\ pc = "quick_sort" => AtCall
  /\ pc = "partition" => stack # <<>> /\ AtPartition /\ s3 < s4
  /\ pc = "place_pivot" => stack # <<>> /\ AtPartition /\ s3 = s4
  /\ pc \in Backs => /\ stack # <<>> /\ Waits(Depth, pc)
                     /\ SortedIn(data, PartA(Depth, pc), PartL(Depth, pc))
  /\ pc = "main" => /\ stack = <<>> /\ saved = <<0, 4 * Length, 0>>
                    /\ SortedIn(data, 0, 4 * Length)

\* The names have changed places, no more.
Permuted ==
  \E f \in Bijection(Offsets, Offsets) : data = [i \in Offsets |-> input[f[i]]]

IInv == TypeOK /\ CallsInPart /\ CallersWait /\ AtPoint /\ Permuted

------------------------------------------------------------------------------
(* Parts of the array.                                                     *)

\* The offsets are the multiples of four below the length of the array.
LEMMA OffsetFacts ==
  ASSUME NEW i
  PROVE  i \in Offsets <=> i \in Nat /\ i % 4 = 0 /\ i < 4 * Length
<1>1. ASSUME i \in Offsets PROVE i \in Nat /\ i % 4 = 0 /\ i < 4 * Length
  <2>1. PICK k \in 0 .. Length - 1 : i = 4 * k
    BY <1>1 DEF Offsets
  <2> QED
    BY <2>1, ConstantsAssumption
<1>2. ASSUME i \in Nat, i % 4 = 0, i < 4 * Length PROVE i \in Offsets
  <2>1. PICK k \in Nat : i = 4 * k
    BY <1>2, Factor
  <2>2. k \in 0 .. Length - 1
    BY <1>2, <2>1, ConstantsAssumption
  <2> QED
    BY <2>1, <2>2 DEF Offsets
<1> QED
  BY <1>1, <1>2

\* The places of a part.
LEMMA PlaceFacts ==
  ASSUME NEW a \in Nat, NEW len \in Nat, NEW p \in Nat, Region(a, len), p % 4 = 0, p < len
  PROVE  a + p \in Offsets /\ a \in Nat /\ len \in Nat /\ a + len <= 4 * Length
<1>1. a \in Nat /\ a % 4 = 0 /\ len \in Nat /\ a + len <= 4 * Length
  BY DEF Region
<1>2. a + p \in Nat /\ (a + p) % 4 = 0
  BY <1>1
<1>3. a + p < 4 * Length
  BY <1>1, ConstantsAssumption
<1> QED
  BY <1>1, <1>2, <1>3, OffsetFacts

\* The array lo .. hi - 1 holds names that were there before, the rest of the
\* array what it held.
Shuffled(old, new, lo, hi) ==
  \A i \in Offsets :
    IF lo <= i /\ i < hi THEN \E j \in Offsets : lo <= j /\ j < hi /\ new[i] = old[j]
                         ELSE new[i] = old[i]

\* What swap_str_ptrs does, for places inside lo .. hi - 1.
LEMMA SwapFacts ==
  ASSUME data \in [Offsets -> Names], NEW x \in Offsets, NEW y \in Offsets,
         NEW lo \in Int, NEW hi \in Int, lo <= x, x < hi, lo <= y, y < hi
  PROVE  /\ Swapped(x, y) \in [Offsets -> Names]
         /\ Swapped(x, y)[x] = data[y] /\ Swapped(x, y)[y] = data[x]
         /\ \A i \in Offsets \ {x, y} : Swapped(x, y)[i] = data[i]
         /\ Shuffled(data, Swapped(x, y), lo, hi)
<1>1. /\ Swapped(x, y) \in [Offsets -> Names]
      /\ Swapped(x, y)[x] = data[y] /\ Swapped(x, y)[y] = data[x]
      /\ \A i \in Offsets \ {x, y} : Swapped(x, y)[i] = data[i]
  BY DEF Swapped
<1>2. Offsets \subseteq Int
  BY OffsetFacts
<1> QED
  BY <1>1, <1>2 DEF Shuffled

\* A swap of two names leaves a permutation of the input.
LEMMA SwapPermutes ==
  ASSUME Permuted, data \in [Offsets -> Names], NEW x \in Offsets, NEW y \in Offsets,
         data' = Swapped(x, y), input' = input
  PROVE  Permuted'
<1>1. PICK f \in Bijection(Offsets, Offsets) : data = [i \in Offsets |-> input[f[i]]]
  BY DEF Permuted
<1> DEFINE g == [i \in Offsets |-> IF i = x THEN f[y] ELSE IF i = y THEN f[x] ELSE f[i]]
<1>2. f \in [Offsets -> Offsets]
  BY DEF Bijection, Injection
<1>3. g \in [Offsets -> Offsets]
  BY <1>2
<1>4. \A i, j \in Offsets : g[i] = g[j] => i = j
  <2>1. \A i, j \in Offsets : f[i] = f[j] => i = j
    BY DEF Bijection, Injection, IsInjective
  <2> QED
    BY <2>1
<1>5. \A j \in Offsets : \E i \in Offsets : g[i] = j
  <2> TAKE j \in Offsets
  <2>1. PICK i \in Offsets : f[i] = j
    BY DEF Bijection, Surjection
  <2> QED
    BY <2>1
<1>6. g \in Bijection(Offsets, Offsets)
  BY <1>3, <1>4, <1>5 DEF Bijection, Injection, Surjection, IsInjective
<1>7. data' = [i \in Offsets |-> input[g[i]]]
  BY <1>1, <1>3 DEF Swapped
<1> HIDE DEF g
<1> QED
  BY <1>6, <1>7 DEF Permuted

\* A pivot stays placed while a part beside it is sorted.
LEMMA PlacedKept ==
  ASSUME NEW old \in [Offsets -> Names], NEW new \in [Offsets -> Names],
         NEW a \in Nat, NEW len \in Nat, NEW p \in Nat, NEW lo \in Int, NEW hi \in Int,
         Region(a, len), p % 4 = 0, p < len,
         \/ a <= lo /\ hi <= a + p
         \/ a + p + 4 <= lo /\ hi <= a + len,
         Placed(old, a, len, p), Shuffled(old, new, lo, hi)
  PROVE  Placed(new, a, len, p)
<1>1. a + p \in Offsets /\ a \in Nat /\ len \in Nat
  BY PlaceFacts
<1>2. new[a + p] = old[a + p]
  BY <1>1 DEF Shuffled
<1>3. ASSUME NEW i \in Offsets, a <= i, i < a + p
      PROVE  StrLt(new[i], new[a + p])
  <2>0. i \in Nat
    BY OffsetFacts
  <2>1. PICK j \in Offsets : a <= j /\ j < a + p /\ new[i] = old[j]
    <3>1. CASE lo <= i /\ i < hi
      <4>1. PICK j \in Offsets : lo <= j /\ j < hi /\ new[i] = old[j]
        BY <3>1 DEF Shuffled
      <4>2. j \in Nat
        BY OffsetFacts
      <4> QED
        BY <1>1, <1>3, <2>0, <3>1, <4>1, <4>2
    <3>2. CASE ~ (lo <= i /\ i < hi)
      BY <1>3, <3>2 DEF Shuffled
    <3> QED
      BY <3>1, <3>2
  <2> QED
    BY <1>2, <2>1 DEF Placed
<1>4. ASSUME NEW i \in Offsets, a + p < i, i < a + len
      PROVE  ~ StrLt(new[i], new[a + p])
  <2>0. i \in Nat /\ i >= a + p + 4
    <3>1. i \in Nat /\ i % 4 = 0 /\ a % 4 = 0
      BY OffsetFacts DEF Region
    <3> QED
      BY <1>1, <1>4, <3>1
  <2>1. PICK j \in Offsets : a + p < j /\ j < a + len /\ new[i] = old[j]
    <3>1. CASE lo <= i /\ i < hi
      <4>1. PICK j \in Offsets : lo <= j /\ j < hi /\ new[i] = old[j]
        BY <3>1 DEF Shuffled
      <4>2. j \in Nat
        BY OffsetFacts
      <4> QED
        BY <1>1, <1>4, <2>0, <3>1, <4>1, <4>2
    <3>2. CASE ~ (lo <= i /\ i < hi)
      BY <1>4, <3>2 DEF Shuffled
    <3> QED
      BY <3>1, <3>2
  <2> QED
    BY <1>2, <2>1 DEF Placed
<1> QED
  BY <1>3, <1>4 DEF Placed

\* What is sorted stays so while another part is.
LEMMA SortedKept ==
  ASSUME NEW old, NEW new, NEW a \in Int, NEW len \in Int, NEW lo \in Int, NEW hi \in Int,
         a + len <= lo, SortedIn(old, a, len), Shuffled(old, new, lo, hi)
  PROVE  SortedIn(new, a, len)
<1> SUFFICES ASSUME NEW i \in Offsets, NEW j \in Offsets, a <= i, i < j, j < a + len
             PROVE  StrLt(new[i], new[j])
  BY DEF SortedIn
<1>1. i \in Nat /\ j \in Nat
  BY OffsetFacts
<1>2. new[i] = old[i] /\ new[j] = old[j]
  BY <1>1 DEF Shuffled
<1> QED
  BY <1>2 DEF SortedIn

\* Two sorted parts and the pivot between them are sorted.
LEMMA Joined ==
  ASSUME NEW array \in [Offsets -> Names],
         NEW a \in Nat, NEW len \in Nat, NEW p \in Nat,
         Region(a, len), p % 4 = 0, p < len,
         Placed(array, a, len, p), SortedIn(array, a, p),
         SortedIn(array, a + p + 4, len - p - 4)
  PROVE  SortedIn(array, a, len)
<1> SUFFICES ASSUME NEW i \in Offsets, NEW j \in Offsets, a <= i, i < j, j < a + len
             PROVE  StrLt(array[i], array[j])
  BY DEF SortedIn
<1>1. /\ a + p \in Offsets /\ a \in Nat /\ len \in Nat
      /\ i \in Nat /\ i % 4 = 0 /\ j \in Nat /\ j % 4 = 0 /\ a % 4 = 0
  <2>1. a + p \in Offsets /\ a \in Nat /\ len \in Nat
    BY PlaceFacts
  <2>2. i \in Nat /\ i % 4 = 0 /\ j \in Nat /\ j % 4 = 0
    BY OffsetFacts
  <2>3. a % 4 = 0
    BY DEF Region
  <2> QED
    BY <2>1, <2>2, <2>3
<1>2. array[i] \in Strings /\ array[j] \in Strings /\ array[a + p] \in Strings
  BY <1>1, ConstantsAssumption DEF Strings
<1>3. j > a + p => ~ StrLt(array[j], array[a + p]) /\ StrLt(array[a + p], array[j])
  BY <1>1, <1>2, StrLtTotal DEF Placed
<1>4. i < a + p => StrLt(array[i], array[a + p])
  BY DEF Placed
<1>5. CASE j < a + p
  BY <1>5 DEF SortedIn
<1>6. CASE i < a + p /\ j = a + p
  BY <1>4, <1>6
<1>7. CASE i < a + p /\ j > a + p
  BY <1>2, <1>3, <1>4, <1>7, StrLtTransitive
<1>8. CASE i = a + p
  BY <1>3, <1>8
<1>9. CASE i > a + p
  <2>1. a + p + 4 <= i /\ j < (a + p + 4) + (len - p - 4)
    BY <1>1, <1>9
  <2> QED
    BY <2>1 DEF SortedIn
<1> QED
  BY <1>1, <1>5, <1>6, <1>7, <1>8, <1>9

\* A part of one name at most is sorted.
LEMMA ShortIsSorted ==
  ASSUME NEW array, NEW a \in Nat, NEW len \in Nat, Region(a, len), len <= 4
  PROVE  SortedIn(array, a, len)
<1>1. a \in Nat /\ a % 4 = 0 /\ len \in Nat
  BY DEF Region
<1>2. ASSUME NEW i \in Offsets, NEW j \in Offsets, a <= i, i < j, j < a + len
      PROVE  FALSE
  <2>1. i \in Nat /\ i % 4 = 0 /\ j \in Nat /\ j % 4 = 0
    BY OffsetFacts
  <2>2. i >= a /\ j < a + 4
    BY <1>1, <1>2, <2>1
  <2> QED
    BY <1>1, <1>2, <2>1, <2>2
<1> QED
  BY <1>2 DEF SortedIn

------------------------------------------------------------------------------
(* The calls under way.                                                    *)

\* The registers hold the last call.
LEMMA CurrentCall ==
  ASSUME IInv, stack # <<>>
  PROVE  /\ Depth \in Nat \ {0}
         /\ A(Depth) = s0 /\ L(Depth) = s1 /\ P(Depth) = s2
         /\ Region(s0, s1) /\ s0 \in Nat /\ s1 \in Nat /\ s0 % 4 = 0 /\ s1 % 4 = 0
         /\ s0 + s1 <= 4 * Length /\ s1 > 4
         /\ s2 \in Nat /\ s2 % 4 = 0 /\ s2 < s1
<1>1. Depth \in Nat \ {0}
  <2>1. stack \in Seq(Frames)
    BY DEF IInv, TypeOK
  <2> QED
    BY <2>1 DEF Depth
<1>2. A(Depth) = s0 /\ L(Depth) = s1 /\ P(Depth) = s2
  BY DEF A, L, P
<1>3. Region(s0, s1) /\ s1 > 4 /\ s2 \in Nat /\ s2 % 4 = 0 /\ s2 < s1
  BY <1>1, <1>2 DEF IInv, CallsInPart, CallInPart
<1> QED
  BY <1>1, <1>2, <1>3 DEF Region

\* The part of a call that it has sorted by another one.
LEMMA PartFacts ==
  ASSUME IInv, NEW d \in 1 .. Depth, NEW r \in Backs
  PROVE  /\ Region(PartA(d, r), PartL(d, r))
         /\ A(d) <= PartA(d, r) /\ PartA(d, r) + PartL(d, r) <= A(d) + L(d)
         /\ A(d) \in Nat /\ L(d) \in Nat /\ P(d) \in Nat
         /\ PartA(d, r) \in Nat /\ PartL(d, r) \in Nat
<1>1. Region(A(d), L(d)) /\ P(d) \in Nat /\ P(d) % 4 = 0 /\ P(d) < L(d)
  BY DEF IInv, CallsInPart, CallInPart
<1> HIDE DEF A, L, P
<1>2. PICK a \in Nat, len \in Nat, p \in Nat : a = A(d) /\ len = L(d) /\ p = P(d)
  BY <1>1 DEF Region
<1>3. a % 4 = 0 /\ len % 4 = 0 /\ p % 4 = 0 /\ p < len /\ a + len <= 4 * Length
  BY <1>1, <1>2 DEF Region
<1>4. len - p - 4 \in Nat /\ (len - p - 4) % 4 = 0 /\ (a + p + 4) % 4 = 0
  BY <1>3
<1>5. CASE r = "left_done"
  BY <1>1, <1>2, <1>3, <1>5, ConstantsAssumption DEF PartA, PartL, Region
<1>6. CASE r = "right_done"
  <2>1. PartA(d, r) = a + p + 4 /\ PartL(d, r) = len - p - 4
    BY <1>2, <1>6 DEF PartA, PartL
  <2> QED
    <3>1. (a + p + 4) + (len - p - 4) = a + len
      OBVIOUS
    <3>2. a + p + 4 \in Nat /\ a <= a + p + 4
      OBVIOUS
    <3>3. Region(a + p + 4, len - p - 4)
      BY <1>3, <1>4, <3>1, <3>2 DEF Region
    <3> QED
      BY <1>2, <1>4, <2>1, <3>1, <3>2, <3>3
<1> QED
  BY <1>5, <1>6 DEF Backs

\* The callers of a call that keeps to its part go on waiting as they did.
LEMMA CallersGoOn ==
  ASSUME IInv, stack # <<>>, UNCHANGED <<stack, s0, s1>>,
         data' \in [Offsets -> Names], Shuffled(data, data', s0, s0 + s1),
         s2' \in Nat, s2' % 4 = 0, s2' < s1
  PROVE  CallsInPart' /\ CallersWait'
<1>1. /\ Depth' = Depth /\ Depth \in Nat \ {0}
      /\ \A d \in 1 .. Depth : A(d)' = A(d) /\ L(d)' = L(d)
      /\ \A d \in 1 .. Depth - 1 : P(d)' = P(d)
      /\ P(Depth)' = s2'
      /\ A(Depth) = s0 /\ L(Depth) = s1
  BY CurrentCall DEF Depth, A, L, P
<1>2. ASSUME NEW d \in 1 .. Depth PROVE CallInPart(d)'
  <2>1. CASE d = Depth
    BY <1>1, <2>1, CurrentCall DEF CallInPart
  <2>2. CASE d # Depth
    BY <1>1, <2>2 DEF IInv, CallsInPart, CallInPart
  <2> QED
    BY <2>1, <2>2
<1>3. CallsInPart'
  BY <1>1, <1>2 DEF CallsInPart, IInv
<1>4. ASSUME NEW d \in 1 .. Depth - 1, NEW r \in Backs, Gives(d, r), Waits(d, r)
      PROVE  Gives(d, r)' /\ Waits(d, r)'
  <2>1. /\ CallInPart(d)
        /\ PartA(d, r) <= s0 /\ s0 + s1 <= PartA(d, r) + PartL(d, r)
    BY <1>1, <1>4 DEF IInv, CallsInPart, Gives
  <2>3. A(d)' = A(d) /\ L(d)' = L(d) /\ P(d)' = P(d)
    BY <1>1
  <2>4. PICK a \in Nat, len \in Nat, q \in Nat : a = A(d) /\ len = L(d) /\ q = P(d)
    BY <2>1 DEF Region, CallInPart
  <2>5. PICK lo \in Nat, hi \in Nat : lo = s0 /\ hi = s0 + s1
    BY CurrentCall
  <2>6. /\ Region(a, len) /\ q % 4 = 0 /\ q < len
        /\ IF r = "left_done" THEN a <= lo /\ hi <= a + q
                              ELSE a + q + 4 <= lo /\ hi <= a + len
    BY <2>1, <2>4, <2>5 DEF PartA, PartL, CallInPart
  <2>7. Shuffled(data, data', lo, hi) /\ data \in [Offsets -> Names]
    BY <2>5 DEF IInv, TypeOK
  <2>8. Placed(data, a, len, q) /\ (r = "right_done" => SortedIn(data, a, q))
    BY <1>4, <2>4 DEF Waits
  <2>9. Placed(data', a, len, q)
    <3>1. \/ a <= lo /\ hi <= a + q
          \/ a + q + 4 <= lo /\ hi <= a + len
      BY <2>6
    <3>2. PICK new \in [Offsets -> Names] : new = data'
      OBVIOUS
    <3>3. PICK old \in [Offsets -> Names] : old = data
      BY <2>7
    <3>4. Placed(old, a, len, q) /\ Shuffled(old, new, lo, hi)
      BY <2>7, <2>8, <3>2, <3>3
    <3>5. Region(a, len) /\ q % 4 = 0 /\ q < len
      BY <2>6
    <3>6. Placed(new, a, len, q)
      BY <3>1, <3>4, <3>5, PlacedKept
    <3> QED
      BY <3>2, <3>6
  <2>10. r = "right_done" => SortedIn(data', a, q)
    <3>1. r = "right_done" => a + q <= lo
      BY <2>6
    <3> QED
      BY <2>7, <2>8, <3>1, SortedKept
  <2>11. Waits(d, r)'
    BY <2>3, <2>4, <2>9, <2>10 DEF Waits
  <2>12. PartA(d, r)' = PartA(d, r) /\ PartL(d, r)' = PartL(d, r)
    BY <2>3 DEF PartA, PartL
  <2>13. Gives(d, r)'
    BY <1>1, <1>4, <2>12 DEF Gives
  <2> QED
    BY <2>11, <2>13
<1>5. CallersWait'
  BY <1>1, <1>4 DEF IInv, CallersWait
<1> QED
  BY <1>3, <1>5

------------------------------------------------------------------------------
(* The steps.                                                              *)

\* main calls quick_sort for the whole array.
LEMMA InitIInv == Init => IInv
<1> SUFFICES ASSUME Init PROVE IInv
  OBVIOUS
<1>1. TypeOK
  BY ConstantsAssumption DEF Init, TypeOK
<1>2. Depth = 0 /\ stack = <<>>
  BY DEF Init, Depth
<1>3. CallsInPart /\ CallersWait
  BY <1>2 DEF CallsInPart, CallersWait
<1>4. AtPoint
  BY <1>2 DEF AtPoint, AtCall, Init, saved, Backs
<1>5. Permuted
  <2> DEFINE f == [i \in Offsets |-> i]
  <2>1. f \in Bijection(Offsets, Offsets)
    BY DEF Bijection, Injection, Surjection, IsInjective
  <2>2. data = [i \in Offsets |-> input[f[i]]]
    BY DEF Init
  <2> HIDE DEF f
  <2> QED
    BY <2>1, <2>2 DEF Permuted
<1> QED
  BY <1>1, <1>3, <1>4, <1>5 DEF IInv

\* Steps that leave the array, the calls and their registers alone.
LEMMA CallsSame ==
  ASSUME IInv, UNCHANGED <<data, stack, s0, s1, s2>>
  PROVE  /\ CallsInPart' /\ CallersWait' /\ Depth' = Depth
         /\ \A d \in 1 .. Depth, r \in Backs :
              /\ PartA(d, r)' = PartA(d, r) /\ PartL(d, r)' = PartL(d, r)
              /\ Waits(d, r)' <=> Waits(d, r)
<1>1. Depth' = Depth /\ \A d : A(d)' = A(d) /\ L(d)' = L(d) /\ P(d)' = P(d)
  BY DEF Depth, A, L, P
<1>2. \A d, r : /\ PartA(d, r)' = PartA(d, r) /\ PartL(d, r)' = PartL(d, r)
                /\ Waits(d, r)' <=> Waits(d, r)
  BY <1>1 DEF PartA, PartL, Waits
<1>3. \A d, r : Gives(d, r)' <=> Gives(d, r)
  BY <1>1, <1>2 DEF Gives
<1>4. CallsInPart'
  BY <1>1 DEF CallsInPart, CallInPart, IInv
<1>5. CallersWait'
  BY <1>1, <1>2, <1>3 DEF CallersWait, IInv
<1> QED
  BY <1>1, <1>2, <1>4, <1>5

\* A part of one name is returned as it is.
LEMMA ReturnIInv ==
  ASSUME IInv, QuickSortReturn
  PROVE  IInv'
<1>1. /\ pc = "quick_sort" /\ a1 <= 4 /\ pc' = ra
      /\ UNCHANGED <<input, data, ra, args, saved, s3, s4, stack>>
  BY DEF QuickSortReturn, AtMostOne
<1>2. UNCHANGED <<a0, a1, s0, s1, s2>>
  BY <1>1 DEF args, saved
<1>3. CallsInPart' /\ CallersWait' /\ Permuted'
  BY <1>1, <1>2, CallsSame DEF Permuted, IInv
<1>4. AtCall
  BY <1>1 DEF IInv, AtPoint
<1>5. CASE stack = <<>>
  <2>1. /\ ra = "main" /\ saved = <<0, 4 * Length, 0>> /\ a1 = 4 * Length
    BY <1>4, <1>5 DEF AtCall
  <2>2. Region(0, 4 * Length)
    BY ConstantsAssumption DEF Region
  <2>3. SortedIn(data, 0, 4 * Length)
    BY <1>1, <2>1, <2>2, ShortIsSorted, ConstantsAssumption
  <2>4. AtPoint'
    BY <1>1, <1>5, <2>1, <2>3 DEF AtPoint, Backs
  <2>5. TypeOK'
    BY <1>1, <1>2, <2>1 DEF TypeOK, IInv
  <2> QED
    BY <1>3, <2>4, <2>5 DEF IInv
<1>6. CASE stack # <<>>
  <2>1. /\ ra \in Backs /\ a0 = PartA(Depth, ra) /\ a1 = PartL(Depth, ra)
        /\ Waits(Depth, ra)
    BY <1>4, <1>6 DEF AtCall
  <2>2. PICK r \in Backs, d \in 1 .. Depth : r = ra /\ d = Depth
    BY <1>6, <2>1, CurrentCall
  <2>3. PartA(d, r) \in Nat /\ PartL(d, r) \in Nat /\ Region(PartA(d, r), PartL(d, r))
    BY PartFacts
  <2>4. SortedIn(data, PartA(d, r), PartL(d, r))
    BY <1>1, <2>1, <2>2, <2>3, ShortIsSorted
  <2>5. /\ PartA(d, r)' = PartA(d, r) /\ PartL(d, r)' = PartL(d, r)
        /\ Waits(d, r)' /\ Depth' = d
    BY <1>1, <1>2, <2>1, <2>2, CallsSame
  <2>6. AtPoint'
    BY <1>1, <1>6, <2>2, <2>4, <2>5 DEF AtPoint, Backs
  <2>7. TypeOK'
    BY <1>1, <1>2, <2>1 DEF TypeOK, IInv
  <2> QED
    BY <1>3, <2>6, <2>7 DEF IInv
<1> QED
  BY <1>5, <1>6

\* The right part, behind the pivot, with the left one sorted.
LEMMA SortRightIInv ==
  ASSUME IInv, SortRight
  PROVE  IInv'
<1>1. /\ pc = "left_done" /\ pc' = "quick_sort" /\ ra' = "right_done"
      /\ a0' = s0 + s2 + 4 /\ a1' = s1 - s2 - 4
      /\ UNCHANGED <<input, data, saved, s3, s4, stack>>
  BY DEF SortRight, Call
<1>2. UNCHANGED <<s0, s1, s2>>
  BY <1>1 DEF saved
<1>3. CallsInPart' /\ CallersWait' /\ Permuted' /\ Depth' = Depth
  BY <1>1, <1>2, CallsSame DEF Permuted, IInv
<1>4. /\ stack # <<>> /\ Waits(Depth, "left_done")
      /\ SortedIn(data, PartA(Depth, "left_done"), PartL(Depth, "left_done"))
  BY <1>1 DEF IInv, AtPoint, Backs
<1>5. PICK d \in 1 .. Depth : d = Depth
  BY <1>4, CurrentCall
<1>6. Waits(d, "right_done")
  BY <1>4, <1>5 DEF Waits, PartA, PartL
<1>7. /\ a0' = PartA(d, "right_done") /\ a1' = PartL(d, "right_done")
  BY <1>1, <1>4, <1>5, CurrentCall DEF PartA, PartL
<1>8. /\ PartA(d, "right_done")' = PartA(d, "right_done")
      /\ PartL(d, "right_done")' = PartL(d, "right_done")
      /\ Waits(d, "right_done")'
  BY <1>1, <1>2, <1>6, CallsSame DEF Backs
<1>9. AtPoint'
  BY <1>1, <1>3, <1>4, <1>5, <1>7, <1>8 DEF AtPoint, AtCall, Backs
<1>10. TypeOK'
  <2>1. a0' \in Int /\ a1' \in Int
    BY <1>1, <1>4, CurrentCall
  <2> QED
    BY <1>1, <1>2, <2>1 DEF TypeOK, IInv
<1> QED
  BY <1>3, <1>9, <1>10 DEF IInv

\* One turn of the loop: the names before s2 come after the pivot, those before
\* s3 before it.
LEMMA PartitionIInv ==
  ASSUME IInv, Partition
  PROVE  IInv'
<1> DEFINE greater == StrLt(data[s0 + s3], data[s0 + s4])
<1>1. /\ pc = "partition" /\ s3' = s3 + 4
      /\ IF greater THEN data' = Swapped(s0 + s3, s0 + s2) /\ s2' = s2 + 4
                    ELSE UNCHANGED <<data, s2>>
      /\ pc' = IF s3' < s4 THEN "partition" ELSE "place_pivot"
      /\ UNCHANGED <<input, args, s0, s1, s4, stack>>
  BY DEF Partition, Advanced
<1>2. /\ stack # <<>> /\ AtPartition /\ s3 < s4
      /\ data \in [Offsets -> Names] /\ s3 \in Int
  BY <1>1 DEF IInv, AtPoint, TypeOK
<1>3. /\ s0 \in Nat /\ s1 \in Nat /\ s0 % 4 = 0 /\ s1 % 4 = 0 /\ s0 + s1 <= 4 * Length
      /\ s2 \in Nat /\ s2 % 4 = 0 /\ s2 < s1 /\ Region(s0, s1)
  BY <1>2, CurrentCall
<1>4. /\ s2 <= s3 /\ s3 \in Nat /\ s3 % 4 = 0 /\ s4 = s1 - 4 /\ s4 \in Nat /\ s4 % 4 = 0
  BY <1>2, <1>3 DEF AtPartition
<1>5. s0 + s2 \in Offsets /\ s0 + s3 \in Offsets /\ s0 + s4 \in Offsets
  <2>1. s3 < s1 /\ s4 < s1
    BY <1>2, <1>3, <1>4
  <2>2. s0 + s2 \in Offsets
    BY <1>3, PlaceFacts
  <2>3. s0 + s3 \in Offsets
    BY <1>3, <1>4, <2>1, PlaceFacts
  <2>4. s0 + s4 \in Offsets
    BY <1>3, <1>4, <2>1, PlaceFacts
  <2> QED
    BY <2>2, <2>3, <2>4
<1>6. /\ data' \in [Offsets -> Names] /\ Shuffled(data, data', s0, s0 + s1)
      /\ data'[s0 + s4] = data[s0 + s4]
      /\ greater => /\ data'[s0 + s3] = data[s0 + s2] /\ data'[s0 + s2] = data[s0 + s3]
                    /\ \A i \in Offsets \ {s0 + s2, s0 + s3} : data'[i] = data[i]
  <2>1. CASE greater
    <3>1. PICK x \in Offsets, y \in Offsets, lo \in Int, hi \in Int :
            x = s0 + s3 /\ y = s0 + s2 /\ lo = s0 /\ hi = s0 + s1
      BY <1>3, <1>5
    <3>2. lo <= x /\ x < hi /\ lo <= y /\ y < hi
      BY <1>2, <1>3, <1>4, <3>1
    <3>3. data' = Swapped(x, y)
      BY <1>1, <2>1, <3>1
    <3>4. /\ Swapped(x, y) \in [Offsets -> Names]
          /\ Swapped(x, y)[x] = data[y] /\ Swapped(x, y)[y] = data[x]
          /\ \A i \in Offsets \ {x, y} : Swapped(x, y)[i] = data[i]
          /\ Shuffled(data, Swapped(x, y), lo, hi)
      BY <1>2, <3>2, SwapFacts
    <3>5. s0 + s4 \in Offsets \ {x, y}
      BY <1>2, <1>3, <1>4, <1>5, <3>1
    <3> QED
      BY <3>1, <3>3, <3>4, <3>5
  <2>2. CASE ~ greater
    <3>1. data' = data
      BY <1>1, <2>2
    <3>2. Shuffled(data, data, s0, s0 + s1)
      BY DEF Shuffled
    <3> QED
      BY <1>2, <2>2, <3>1, <3>2
  <2> QED
    BY <2>1, <2>2
<1>7. s2' \in Nat /\ s2' % 4 = 0 /\ s2' <= s3' /\ s3' % 4 = 0 /\ s3' \in Nat /\ s3' <= s4
      /\ s2' < s1
  BY <1>1, <1>2, <1>3, <1>4
<1>8. CallsInPart' /\ CallersWait'
  BY <1>1, <1>2, <1>6, <1>7, CallersGoOn
<1>9. ASSUME NEW i \in Offsets
      PROVE  /\ s0 <= i /\ i < s0 + s2' => StrLt(data'[i], data[s0 + s4])
             /\ s0 + s2' <= i /\ i < s0 + s3' => ~ StrLt(data'[i], data[s0 + s4])
  <2>1. i \in Nat /\ i % 4 = 0
    BY OffsetFacts
  <2>2. /\ s0 <= i /\ i < s0 + s2 => StrLt(data[i], data[s0 + s4])
        /\ s0 + s2 <= i /\ i < s0 + s3 => ~ StrLt(data[i], data[s0 + s4])
        /\ s0 + s2 < s0 + s3 => ~ StrLt(data[s0 + s2], data[s0 + s4])
    BY <1>2, <1>3, <1>4, <1>5 DEF AtPartition
  <2>3. i < s0 + s3' => i < s0 + s3 \/ i = s0 + s3
    BY <1>1, <1>3, <1>4, <2>1
  <2>4. CASE greater
    <3>1. s2' = s2 + 4
      BY <1>1, <2>4
    <3>2. i < s0 + s2' => i < s0 + s2 \/ i = s0 + s2
      BY <1>3, <2>1, <3>1
    <3>3. CASE i = s0 + s2
      BY <1>3, <1>6, <2>4, <3>1, <3>3
    <3>4. CASE i = s0 + s3 /\ i # s0 + s2
      <4>1. s0 + s2 < s0 + s3 /\ ~ (i < s0 + s2')
        BY <1>3, <1>4, <3>2, <3>4
      <4> QED
        BY <1>6, <2>2, <2>4, <3>4, <4>1
    <3>5. CASE i # s0 + s2 /\ i # s0 + s3
      <4>1. data'[i] = data[i]
        BY <1>6, <2>4, <3>5
      <4>2. s0 + s2' <= i => s0 + s2 <= i
        BY <1>3, <2>1, <3>1
      <4> QED
        BY <2>2, <2>3, <3>2, <3>5, <4>1, <4>2
    <3> QED
      BY <3>3, <3>4, <3>5
  <2>5. CASE ~ greater
    BY <1>1, <2>2, <2>3, <2>5
  <2> QED
    BY <2>4, <2>5
<1>10. AtPartition'
  BY <1>1, <1>4, <1>6, <1>7, <1>9 DEF AtPartition
<1>11. AtPoint'
  <2>1. s3' < s4 \/ s3' = s4
    BY <1>4, <1>7
  <2> QED
    BY <1>1, <1>2, <1>10, <2>1, <1>4 DEF AtPoint, Backs
<1>12. Permuted'
  <2>1. CASE greater
    BY <1>1, <1>2, <1>5, <2>1, SwapPermutes DEF IInv
  <2>2. CASE ~ greater
    BY <1>1, <2>2 DEF IInv, Permuted
  <2> QED
    BY <2>1, <2>2
<1>13. TypeOK'
  <2>1. pc' \in {"partition", "place_pivot"}
    BY <1>1
  <2>2. UNCHANGED <<a0, a1>>
    BY <1>1 DEF args
  <2> QED
    BY <1>1, <1>6, <1>7, <2>1, <2>2 DEF TypeOK, IInv
<1> QED
  BY <1>8, <1>11, <1>12, <1>13 DEF IInv

\* The pivot goes between the parts and stays there; the left part comes first.
LEMMA PlacePivotIInv ==
  ASSUME IInv, PlacePivot
  PROVE  IInv'
<1>1. /\ pc = "place_pivot" /\ pc' = "quick_sort" /\ ra' = "left_done"
      /\ a0' = s0 /\ a1' = s2
      /\ data' = Swapped(s0 + s2, s0 + s4)
      /\ UNCHANGED <<input, saved, s3, s4, stack>>
  BY DEF PlacePivot, Call
<1>2. /\ stack # <<>> /\ AtPartition /\ s3 = s4 /\ UNCHANGED <<s0, s1, s2>>
      /\ data \in [Offsets -> Names]
  BY <1>1 DEF IInv, AtPoint, TypeOK, saved
<1>3. /\ s0 \in Nat /\ s1 \in Nat /\ s0 % 4 = 0 /\ s1 % 4 = 0 /\ s0 + s1 <= 4 * Length
      /\ s2 \in Nat /\ s2 % 4 = 0 /\ s2 < s1 /\ Region(s0, s1) /\ s1 > 4
  BY <1>2, CurrentCall
<1>4. s4 = s1 - 4 /\ s4 \in Nat /\ s4 % 4 = 0 /\ s2 <= s4 /\ s4 < s1
  BY <1>2, <1>3 DEF AtPartition
<1>5. s0 + s2 \in Offsets /\ s0 + s4 \in Offsets
  <2>1. s0 + s2 \in Offsets
    BY <1>3, PlaceFacts
  <2>2. s0 + s4 \in Offsets
    BY <1>3, <1>4, PlaceFacts
  <2> QED
    BY <2>1, <2>2
<1>6. /\ data' \in [Offsets -> Names] /\ Shuffled(data, data', s0, s0 + s1)
      /\ data'[s0 + s2] = data[s0 + s4] /\ data'[s0 + s4] = data[s0 + s2]
      /\ \A i \in Offsets \ {s0 + s2, s0 + s4} : data'[i] = data[i]
  <2>1. PICK x \in Offsets, y \in Offsets, lo \in Int, hi \in Int :
          x = s0 + s2 /\ y = s0 + s4 /\ lo = s0 /\ hi = s0 + s1
    BY <1>3, <1>5
  <2>2. lo <= x /\ x < hi /\ lo <= y /\ y < hi
    BY <1>3, <1>4, <2>1
  <2>3. data' = Swapped(x, y)
    BY <1>1, <2>1
  <2>4. /\ Swapped(x, y) \in [Offsets -> Names]
        /\ Swapped(x, y)[x] = data[y] /\ Swapped(x, y)[y] = data[x]
        /\ \A i \in Offsets \ {x, y} : Swapped(x, y)[i] = data[i]
        /\ Shuffled(data, Swapped(x, y), lo, hi)
    BY <1>2, <2>2, SwapFacts
  <2> QED
    BY <2>1, <2>3, <2>4
<1>7. CallsInPart' /\ CallersWait'
  <2>1. UNCHANGED <<stack, s0, s1>>
    BY <1>1, <1>2
  <2>2. s2' \in Nat /\ s2' % 4 = 0 /\ s2' < s1
    BY <1>2, <1>3
  <2> QED
    BY <1>2, <1>6, <2>1, <2>2, CallersGoOn
<1>8. Placed(data', s0, s1, s2)
  <2> SUFFICES ASSUME NEW i \in Offsets
               PROVE  /\ s0 <= i /\ i < s0 + s2 => StrLt(data'[i], data'[s0 + s2])
                      /\ s0 + s2 < i /\ i < s0 + s1 => ~ StrLt(data'[i], data'[s0 + s2])
    BY DEF Placed
  <2>1. i \in Nat /\ i % 4 = 0
    BY OffsetFacts
  <2>2. /\ s0 <= i /\ i < s0 + s2 => StrLt(data[i], data[s0 + s4])
        /\ s0 + s2 <= i /\ i < s0 + s4 => ~ StrLt(data[i], data[s0 + s4])
        /\ s2 < s4 => ~ StrLt(data[s0 + s2], data[s0 + s4])
    BY <1>2, <1>3, <1>4, <1>5 DEF AtPartition
  <2>3. CASE i < s0 + s2
    <3>1. data'[i] = data[i]
      BY <1>3, <1>4, <1>6, <2>1, <2>3
    <3> QED
      BY <1>3, <1>6, <2>1, <2>2, <2>3, <3>1
  <2>4. CASE s0 + s2 < i /\ i < s0 + s4
    <3>1. data'[i] = data[i]
      BY <1>3, <1>4, <1>6, <2>1, <2>4
    <3> QED
      BY <1>3, <1>6, <2>1, <2>2, <2>4, <3>1
  <2>5. CASE s0 + s2 < i /\ i = s0 + s4
    BY <1>3, <1>4, <1>6, <2>2, <2>5
  <2>6. i < s0 + s1 => i <= s0 + s4
    BY <1>3, <1>4, <2>1
  <2>7. i = s0 + s2 \/ i < s0 + s2 \/ s0 + s2 < i
    BY <1>3, <2>1
  <2>8. CASE i = s0 + s2
    BY <1>3, <2>8
  <2> QED
    BY <1>3, <1>4, <2>1, <2>3, <2>4, <2>5, <2>6, <2>7, <2>8
<1>9. /\ Depth' = Depth /\ A(Depth)' = s0 /\ L(Depth)' = s1 /\ P(Depth)' = s2
  BY <1>1, <1>2 DEF A, L, P, Depth
<1>10. PICK d : d = Depth
  OBVIOUS
<1>11. /\ Waits(d, "left_done")' /\ Depth' = d
       /\ a0' = PartA(d, "left_done")' /\ a1' = PartL(d, "left_done")'
  BY <1>1, <1>8, <1>9, <1>10 DEF Waits, PartA, PartL
<1>12. AtPoint'
  BY <1>1, <1>2, <1>11 DEF AtPoint, AtCall, Backs
<1>13. Permuted'
  BY <1>1, <1>2, <1>5, SwapPermutes DEF IInv
<1>14. TypeOK'
  BY <1>1, <1>2, <1>3, <1>6 DEF TypeOK, IInv
<1> QED
  BY <1>7, <1>12, <1>13, <1>14 DEF IInv

\* The caller's registers go on the stack, and the loop begins.
LEMMA PrologueIInv ==
  ASSUME IInv, Prologue
  PROVE  IInv'
<1>1. /\ pc = "quick_sort" /\ pc' = "partition" /\ a1 > 4
      /\ stack' = Append(stack, Frame)
      /\ s0' = a0 /\ s1' = a1 /\ s2' = 0 /\ s3' = 0 /\ s4' = a1 - 4
      /\ UNCHANGED <<input, data, ra, a0, a1>>
  BY DEF Prologue, AtMostOne, args, IInv, TypeOK
<1>2. AtCall /\ stack \in Seq(Frames) /\ a0 \in Int /\ a1 \in Int
  BY <1>1 DEF IInv, AtPoint, TypeOK
<1>3. Frame = [ra |-> ra, s0 |-> s0, s1 |-> s1, s2 |-> s2] /\ Frame \in Frames
  BY <1>2 DEF Frame, Frames, AtCall, IInv, TypeOK
<1>4. PICK n \in Nat : n = Depth
  BY <1>2 DEF Depth
<1>5. /\ stack' \in Seq(Frames) /\ Depth' = n + 1 /\ stack' # <<>>
      /\ stack'[n + 1] = Frame
      /\ \A d \in 1 .. n : stack'[d] = stack[d]
  BY <1>1, <1>2, <1>3, <1>4 DEF Depth
<1>6. /\ \A d \in 1 .. n : A(d)' = A(d) /\ L(d)' = L(d) /\ P(d)' = P(d)
      /\ A(n + 1)' = a0 /\ L(n + 1)' = a1 /\ P(n + 1)' = 0
  <2>1. ASSUME NEW d \in 1 .. n PROVE A(d)' = A(d) /\ L(d)' = L(d) /\ P(d)' = P(d)
    <3>1. CASE d = n
      BY <1>3, <1>4, <1>5, <3>1 DEF A, L, P
    <3>2. CASE d # n
      <4>1. d + 1 \in 1 .. n
        BY <3>2
      <4> QED
        BY <1>4, <1>5, <3>2, <4>1 DEF A, L, P
    <3> QED
      BY <3>1, <3>2
  <2> QED
    BY <1>1, <1>5, <2>1 DEF A, L, P
<1>7. Region(a0, a1)
  <2>1. CASE stack = <<>>
    BY <1>2, <2>1, ConstantsAssumption, SMTT(30) DEF AtCall, Region
  <2>2. CASE stack # <<>>
    BY <1>2, <2>2, CurrentCall, PartFacts, SMTT(30) DEF AtCall
  <2> QED
    BY <2>1, <2>2
<1>8. CallsInPart'
  <2>1. ASSUME NEW d \in 1 .. n PROVE CallInPart(d)'
    BY <1>4, <1>6 DEF CallInPart, IInv, CallsInPart
  <2>2. CallInPart(n + 1)'
    BY <1>1, <1>2, <1>6, <1>7 DEF CallInPart
  <2>3. /\ A(1)' = 0 /\ L(1)' = 4 * Length
        /\ stack'[1] = [ra |-> "main", s0 |-> 0, s1 |-> 4 * Length, s2 |-> 0]
    <3>1. CASE stack = <<>>
      <4>1. n = 0
        BY <1>4, <3>1 DEF Depth
      <4> QED
        BY <1>2, <1>3, <1>5, <1>6, <3>1, <4>1 DEF AtCall, saved
    <3>2. CASE stack # <<>>
      <4>1. 1 \in 1 .. n
        BY <1>4, <3>2, CurrentCall
      <4> QED
        BY <1>5, <1>6, <3>2, <4>1 DEF IInv, CallsInPart
    <3> QED
      BY <3>1, <3>2
  <2> QED
    BY <1>5, <2>1, <2>2, <2>3 DEF CallsInPart
<1>9. \A d \in 1 .. n : \A r \in Backs :
        PartA(d, r)' = PartA(d, r) /\ PartL(d, r)' = PartL(d, r) /\ (Waits(d, r)' <=> Waits(d, r))
  BY <1>1, <1>6 DEF PartA, PartL, Waits
<1>10. CallersWait'
  <2>1. ASSUME NEW d \in 1 .. n
        PROVE  \E r \in Backs : stack'[d + 1].ra = r /\ Gives(d, r)' /\ Waits(d, r)'
    <3>0. stack # <<>>
      BY <1>4 DEF Depth
    <3>1. /\ ra \in Backs /\ a0 = PartA(n, ra) /\ a1 = PartL(n, ra) /\ Waits(n, ra)
      BY <1>2, <1>4, <3>0 DEF AtCall
    <3>2. CASE d = n
      <4>1. PICK r \in Backs : r = ra
        BY <3>1
      <4>2. stack'[d + 1].ra = r
        BY <1>3, <1>5, <3>2, <4>1
      <4>3. Gives(d, r)'
        BY <1>5, <1>6, <1>9, <3>1, <3>2, <4>1, PartFacts, <1>4 DEF Gives
      <4> QED
        BY <1>9, <3>1, <3>2, <4>1, <4>2, <4>3
    <3>3. CASE d # n
      <4>1. PICK r \in Backs : stack[d + 1].ra = r /\ Gives(d, r) /\ Waits(d, r)
        BY <1>4, <3>3 DEF IInv, CallersWait
      <4>2. stack'[d + 1].ra = r /\ Waits(d, r)'
        BY <1>5, <1>9, <3>3, <4>1
      <4>3. /\ A(d + 1)' = PartA(d, r)' /\ L(d + 1)' = PartL(d, r)'
        BY <1>6, <1>9, <3>3, <4>1 DEF Gives
      <4>4. ASSUME NEW e \in d + 1 .. n + 1
            PROVE  PartA(d, r)' <= A(e)' /\ A(e)' + L(e)' <= PartA(d, r)' + PartL(d, r)'
        <5>1. /\ PartA(d, r) \in Nat /\ PartL(d, r) \in Nat
              /\ PartA(n, ra) \in Nat /\ PartL(n, ra) \in Nat
              /\ A(n) <= PartA(n, ra) /\ PartA(n, ra) + PartL(n, ra) <= A(n) + L(n)
              /\ A(n) \in Nat /\ L(n) \in Nat
          BY <1>4, <3>1, PartFacts
        <5>2. PartA(d, r) <= A(n) /\ A(n) + L(n) <= PartA(d, r) + PartL(d, r)
          BY <1>4, <3>3, <4>1 DEF Gives
        <5>3. CASE e = n + 1
          BY <1>6, <1>9, <3>1, <5>1, <5>2, <5>3
        <5>4. CASE e # n + 1
          BY <1>4, <1>6, <1>9, <4>1, <5>4 DEF Gives
        <5> QED
          BY <5>3, <5>4
      <4>5. Gives(d, r)'
        BY <1>5, <4>3, <4>4 DEF Gives
      <4> QED
        BY <4>2, <4>5
    <3> QED
      BY <3>2, <3>3
  <2>2. 1 .. Depth' - 1 = 1 .. n
    BY <1>5
  <2> QED
    BY <2>1, <2>2 DEF CallersWait
<1>11. AtPoint'
  <2>1. a0 \in Nat /\ a1 - 4 > 0
    BY <1>1, <1>2, <1>7 DEF Region
  <2>2. s0' + s2' = a0 /\ s0' + s3' = a0
    BY <1>1, <2>1
  <2>3. s2' <= s3' /\ s3' % 4 = 0 /\ s4' = s1' - 4
    BY <1>1
  <2>4. ASSUME NEW i \in Offsets PROVE ~ (a0 <= i /\ i < a0)
    BY <2>1, OffsetFacts
  <2>5. AtPartition'
    BY <1>1, <2>2, <2>3, <2>4 DEF AtPartition
  <2> QED
    BY <1>1, <1>5, <2>1, <2>5 DEF AtPoint, Backs
<1>12. TypeOK'
  BY <1>1, <1>2, <1>5 DEF TypeOK, IInv
<1>13. Permuted'
  BY <1>1 DEF IInv, Permuted
<1> QED
  BY <1>8, <1>10, <1>11, <1>12, <1>13 DEF IInv

\* The part of the call is sorted when both its parts are, and its caller gets
\* its registers back.
LEMMA EpilogueIInv ==
  ASSUME IInv, Epilogue
  PROVE  IInv'
<1>1. /\ pc = "right_done" /\ stack # <<>> /\ stack \in Seq(Frames)
      /\ Waits(Depth, "right_done")
      /\ SortedIn(data, PartA(Depth, "right_done"), PartL(Depth, "right_done"))
  BY DEF Epilogue, IInv, AtPoint, TypeOK, Backs
<1>2. PICK n \in Nat : Depth = n + 1
  <2>1. Depth \in Nat \ {0}
    BY <1>1, CurrentCall
  <2>2. Depth - 1 \in Nat /\ Depth = (Depth - 1) + 1
    BY <2>1
  <2> QED
    BY <2>2
<1>3. stack[n + 1] \in Frames
  BY <1>1, <1>2 DEF Depth
<1>4. /\ s0' = stack[n + 1].s0 /\ s1' = stack[n + 1].s1 /\ s2' = stack[n + 1].s2
      /\ pc' = stack[n + 1].ra /\ ra' = stack[n + 1].ra
      /\ stack' = SubSeq(stack, 1, n)
      /\ UNCHANGED <<input, data, a0, a1>> /\ s3' \in Int /\ s4' \in Int
  BY <1>2 DEF Epilogue, Restored, Last, Front, Depth, args, IInv, TypeOK
<1>5. /\ stack' \in Seq(Frames) /\ Depth' = n
      /\ \A d \in 1 .. n : stack'[d] = stack[d]
  BY <1>1, <1>2, <1>4 DEF Depth
<1>6. SortedIn(data, s0, s1)
  <2>1. /\ s0 \in Nat /\ s1 \in Nat /\ s2 \in Nat /\ s2 % 4 = 0 /\ s2 < s1 /\ Region(s0, s1)
        /\ A(Depth) = s0 /\ L(Depth) = s1 /\ P(Depth) = s2
    BY <1>1, CurrentCall
  <2>2. Placed(data, s0, s1, s2) /\ SortedIn(data, s0, s2)
    BY <1>1, <2>1 DEF Waits
  <2>3. SortedIn(data, s0 + s2 + 4, s1 - s2 - 4)
    BY <1>1, <2>1 DEF PartA, PartL
  <2>4. data \in [Offsets -> Names]
    BY DEF IInv, TypeOK
  <2> QED
    BY <2>1, <2>2, <2>3, <2>4, Joined
<1>7. \A d \in 1 .. n : A(d)' = A(d) /\ L(d)' = L(d) /\ P(d)' = P(d)
  <2> TAKE d \in 1 .. n
  <2>1. CASE d = n
    BY <1>2, <1>4, <1>5, <2>1 DEF A, L, P
  <2>2. CASE d # n
    <3>1. d + 1 \in 1 .. n
      BY <2>2
    <3> QED
      BY <1>2, <1>5, <2>2, <3>1 DEF A, L, P
  <2> QED
    BY <2>1, <2>2
<1>8. \A d \in 1 .. n : \A r \in Backs :
        PartA(d, r)' = PartA(d, r) /\ PartL(d, r)' = PartL(d, r) /\ (Waits(d, r)' <=> Waits(d, r))
  BY <1>4, <1>7 DEF PartA, PartL, Waits
<1>9. CallsInPart'
  <2>1. ASSUME NEW d \in 1 .. n PROVE CallInPart(d)'
    BY <1>2, <1>7 DEF CallInPart, IInv, CallsInPart
  <2>2. ASSUME stack' # <<>>
        PROVE  /\ A(1)' = 0 /\ L(1)' = 4 * Length
               /\ stack'[1] = [ra |-> "main", s0 |-> 0, s1 |-> 4 * Length, s2 |-> 0]
    <3>1. 1 \in 1 .. n
      BY <1>5, <2>2 DEF Depth
    <3> QED
      BY <1>1, <1>5, <1>7, <3>1 DEF IInv, CallsInPart
  <2> QED
    BY <1>5, <2>1, <2>2 DEF CallsInPart
<1>10. CallersWait'
  <2>1. ASSUME NEW d \in 1 .. n - 1
        PROVE  \E r \in Backs : stack'[d + 1].ra = r /\ Gives(d, r)' /\ Waits(d, r)'
    <3>1. PICK r \in Backs : stack[d + 1].ra = r /\ Gives(d, r) /\ Waits(d, r)
      BY <1>2 DEF IInv, CallersWait
    <3>2. stack'[d + 1].ra = r /\ Waits(d, r)'
      BY <1>5, <1>8, <3>1
    <3>3. Gives(d, r)'
      BY <1>2, <1>5, <1>7, <1>8, <3>1 DEF Gives
    <3> QED
      BY <3>2, <3>3
  <2> QED
    BY <1>5, <2>1 DEF CallersWait
<1>11. AtPoint' /\ pc' \in {"main"} \cup Backs
  <2>1. CASE n = 0
    <3>1. /\ stack[1] = [ra |-> "main", s0 |-> 0, s1 |-> 4 * Length, s2 |-> 0]
          /\ s0 = 0 /\ s1 = 4 * Length
      BY <1>1, <1>2, <2>1, CurrentCall DEF IInv, CallsInPart
    <3>2. stack' = <<>>
      BY <1>5, <2>1 DEF Depth
    <3>3. pc' = "main" /\ saved' = <<0, 4 * Length, 0>>
      BY <1>4, <2>1, <3>1 DEF saved
    <3> QED
      BY <1>4, <1>6, <3>1, <3>2, <3>3 DEF AtPoint, Backs
  <2>2. CASE n # 0
    <3>1. PICK r \in Backs : stack[n + 1].ra = r /\ Gives(n, r) /\ Waits(n, r)
      BY <1>2, <2>2 DEF IInv, CallersWait
    <3>2. pc' = r
      BY <1>4, <3>1
    <3>3. s0 = PartA(n, r) /\ s1 = PartL(n, r)
      BY <1>1, <1>2, <3>1, CurrentCall DEF Gives
    <3>4. PartA(n, r)' = s0 /\ PartL(n, r)' = s1 /\ Waits(n, r)'
      BY <1>8, <2>2, <3>1, <3>3
    <3>5. stack' # <<>>
      BY <1>5, <2>2 DEF Depth
    <3> QED
      BY <1>4, <1>5, <1>6, <3>2, <3>4, <3>5 DEF AtPoint, Backs
  <2> QED
    BY <2>1, <2>2
<1>12. TypeOK'
  BY <1>3, <1>4, <1>5, <1>11 DEF TypeOK, IInv, Frames
<1>13. Permuted'
  BY <1>4 DEF IInv, Permuted
<1> QED
  BY <1>9, <1>10, <1>11, <1>12, <1>13 DEF IInv

\* Every step keeps the invariant.
LEMMA NextIInv == IInv /\ [Next]_vars => IInv'
<1> SUFFICES ASSUME IInv, [Next]_vars PROVE IInv'
  OBVIOUS
<1>1. CASE UNCHANGED vars
  <2>1. UNCHANGED <<input, data, pc, ra, a0, a1, s0, s1, s2, s3, s4, stack>>
    BY <1>1 DEF vars, args, saved
  <2>2. TypeOK' /\ CallsInPart' /\ CallersWait' /\ Permuted'
    BY <2>1, CallsSame DEF IInv, TypeOK, Permuted
  <2>3. Depth' = Depth /\ \A d : A(d)' = A(d) /\ L(d)' = L(d) /\ P(d)' = P(d)
    BY <2>1 DEF Depth, A, L, P
  <2>4. /\ \A r : PartA(Depth, r)' = PartA(Depth, r) /\ PartL(Depth, r)' = PartL(Depth, r)
        /\ \A r : Waits(Depth, r)' <=> Waits(Depth, r)
    BY <2>1, <2>3 DEF PartA, PartL, Waits
  <2>5. AtCall' <=> AtCall
    BY <2>1, <2>4 DEF AtCall, saved
  <2>6. AtPartition' <=> AtPartition
    BY <2>1 DEF AtPartition
  <2>7. AtPoint'
    BY <2>1, <2>4, <2>5, <2>6 DEF AtPoint, IInv, saved
  <2> QED
    BY <2>2, <2>7 DEF IInv
<1> QED
  BY <1>1, ReturnIInv, PrologueIInv, PartitionIInv, PlacePivotIInv, SortRightIInv,
     EpilogueIInv DEF Next

\* The invariant holds throughout.
THEOREM Invariance == Spec => []IInv
<1>1. Init => IInv
  BY InitIInv
<1>2. IInv /\ [Next]_vars => IInv'
  BY NextIInv
<1> QED
  BY <1>1, <1>2, PTL DEF Spec

------------------------------------------------------------------------------
(* The properties.                                                         *)

\* The calls the properties speak of are the calls under way.
LEMMA CallsAre ==
  ASSUME IInv, NEW c \in Calls
  PROVE  \E d \in 1 .. Depth :
           /\ c = <<A(d), L(d), P(d)>> /\ stack # <<>>
           /\ d = Depth => c = saved
<1>1. stack \in Seq(Frames)
  BY DEF IInv, TypeOK
<1>2. CASE c = saved /\ stack # <<>>
  <2>1. Depth \in 1 .. Depth /\ c = <<A(Depth), L(Depth), P(Depth)>>
    BY <1>2, CurrentCall DEF saved
  <2> QED
    BY <1>2, <2>1
<1>3. ASSUME NEW k \in 2 .. Len(stack), c = <<stack[k].s0, stack[k].s1, stack[k].s2>>
      PROVE  \E d \in 1 .. Depth :
               /\ c = <<A(d), L(d), P(d)>> /\ stack # <<>>
               /\ d = Depth => c = saved
  <2>1. PICK d \in 1 .. Depth : d + 1 = k /\ d # Depth
    <3>1. k - 1 \in 1 .. Depth /\ (k - 1) + 1 = k /\ k - 1 # Depth
      BY <1>1 DEF Depth
    <3> QED
      BY <3>1
  <2>2. c = <<A(d), L(d), P(d)>> /\ stack # <<>>
    BY <1>1, <1>3, <2>1 DEF A, L, P, Depth
  <2> QED
    BY <2>1, <2>2
<1> QED
  BY <1>2, <1>3 DEF Calls

\* No load and no store leaves the part of its call, and no part the array.
THEOREM StaysInPart == Spec => []InPart
<1>1. IInv => InPart
  <2> SUFFICES ASSUME IInv PROVE InPart
    OBVIOUS
  <2>1. ASSUME NEW c \in Calls
        PROVE  c[1] >= 0 /\ c[1] + c[2] <= 4 * Length /\ c[3] >= 0 /\ c[3] < c[2]
    <3>1. PICK d \in 1 .. Depth : c = <<A(d), L(d), P(d)>>
      BY CallsAre
    <3>2. CallInPart(d)
      BY DEF IInv, CallsInPart
    <3> QED
      BY <3>1, <3>2 DEF CallInPart, Region
  <2>2. pc = "partition" => s2 <= s3 /\ s3 < s4 /\ s4 = s1 - 4
    BY DEF IInv, AtPoint, AtPartition
  <2>3. pc = "quick_sort" => a1 >= 0 /\ a0 >= 0 /\ a0 + a1 <= 4 * Length
    <3> SUFFICES ASSUME pc = "quick_sort" PROVE Region(a0, a1)
      BY DEF Region
    <3>1. AtCall
      BY DEF IInv, AtPoint
    <3>2. CASE stack = <<>>
      BY <3>1, <3>2, ConstantsAssumption DEF AtCall, Region
    <3>3. CASE stack # <<>>
      BY <3>1, <3>3, CurrentCall, PartFacts DEF AtCall
    <3> QED
      BY <3>2, <3>3
  <2> QED
    BY <2>1, <2>2, <2>3 DEF InPart
<1> QED
  BY <1>1, Invariance, PTL

\* A pivot stays placed while the calls below it sort what is beside it.
THEOREM PivotsStayPlaced == Spec => []PivotsPlaced
<1>1. IInv => PivotsPlaced
  <2> SUFFICES ASSUME IInv, NEW c \in Calls, c # saved \/ pc \in Backs
               PROVE  Placed(data, c[1], c[2], c[3])
    BY DEF PivotsPlaced, Placed, Backs
  <2>1. PICK d \in 1 .. Depth : /\ c = <<A(d), L(d), P(d)>> /\ stack # <<>>
                                /\ d = Depth => c = saved
    BY CallsAre
  <2>2. Placed(data, A(d), L(d), P(d))
    <3>1. CASE d = Depth
      BY <2>1, <3>1 DEF IInv, AtPoint, Waits
    <3>2. CASE d # Depth
      <4>1. d \in 1 .. Depth - 1
        BY <2>1, <3>2, CurrentCall
      <4> QED
        BY <4>1 DEF IInv, CallersWait, Waits
    <3> QED
      BY <3>1, <3>2
  <2> QED
    BY <2>1, <2>2
<1> QED
  BY <1>1, Invariance, PTL

\* As many places hold a name after the sort as before it.
LEMMA NoneLost ==
  ASSUME IInv, NEW n \in Names
  PROVE  Copies(data, n) = Copies(input, n)
<1> DEFINE S == {i \in Offsets : data[i] = n}
           T == {i \in Offsets : input[i] = n}
<1>1. PICK f \in Bijection(Offsets, Offsets) : data = [i \in Offsets |-> input[f[i]]]
  BY DEF IInv, Permuted
<1>2. /\ f \in [Offsets -> Offsets]
      /\ \A i, j \in Offsets : f[i] = f[j] => i = j
      /\ \A j \in Offsets : \E i \in Offsets : f[i] = j
  BY DEF Bijection, Injection, Surjection, IsInjective
<1> DEFINE g == [i \in S |-> f[i]]
<1>3. g \in [S -> T]
  BY <1>1, <1>2
<1>4. \A i, j \in S : g[i] = g[j] => i = j
  BY <1>2
<1>5. \A j \in T : \E i \in S : g[i] = j
  <2> TAKE j \in T
  <2>1. PICK i \in Offsets : f[i] = j
    BY <1>2
  <2>2. i \in S /\ g[i] = j
    BY <1>1, <2>1
  <2> QED
    BY <2>2
<1>6. IsFiniteSet(Offsets)
  <2> DEFINE h == [k \in 0 .. Length - 1 |-> 4 * k]
  <2>1. IsFiniteSet(0 .. Length - 1)
    BY ConstantsAssumption, FS_Interval
  <2>2. h \in Surjection(0 .. Length - 1, Offsets)
    BY DEF Surjection, Offsets
  <2> HIDE DEF h
  <2> QED
    BY <2>1, <2>2, FS_Surjection
<1>7. IsFiniteSet(S)
  BY <1>6, FS_Subset
<1> HIDE DEF S, T, g
<1>8. g \in Bijection(S, T)
  BY <1>3, <1>4, <1>5 DEF Bijection, Injection, Surjection, IsInjective
<1>9. Cardinality(S) = Cardinality(T)
  BY <1>7, <1>8, FS_Bijection DEF ExistsBijection
<1> QED
  BY <1>9 DEF Copies, S, T

\* main gets the names it gave in descending order, and its registers back.
THEOREM MainGetsSorted == Spec => []Sorted
<1>1. IInv => Sorted
  <2> SUFFICES ASSUME IInv, pc = "main"
               PROVE  /\ \A i, j \in Offsets : i < j => data[i] = data[j] \/ After(data[i], data[j])
                      /\ stack = <<>> /\ saved = <<0, 4 * Length, 0>>
    BY NoneLost DEF Sorted
  <2>1. stack = <<>> /\ saved = <<0, 4 * Length, 0>> /\ SortedIn(data, 0, 4 * Length)
    BY DEF IInv, AtPoint
  <2>2. ASSUME NEW i \in Offsets, NEW j \in Offsets, i < j
        PROVE  data[i] = data[j] \/ After(data[i], data[j])
    <3>1. i >= 0 /\ j < 0 + 4 * Length
      BY OffsetFacts, ConstantsAssumption
    <3>2. StrLt(data[i], data[j])
      BY <2>1, <2>2, <3>1 DEF SortedIn
    <3>3. data[i] \in Strings /\ data[j] \in Strings
      BY ConstantsAssumption DEF IInv, TypeOK, Strings
    <3> QED
      BY <3>2, <3>3, StrLtAfter
  <2> QED
    BY <2>1, <2>2
<1> QED
  BY <1>1, Invariance, PTL

------------------------------------------------------------------------------
(* The sort runs out of steps.                                             *)
(*                                                                         *)
(* Terminates without the scheduler: a number goes down with every step.   *)
(* A part of the array costs at most the square of its length, whatever    *)
(* the pivot is, for the squares of two parts are not above that of their  *)
(* sum, and the loop over the part is paid from what the pivot saves.      *)

\* A bound on the steps of a call that sorts a part of len bytes.
Square(x) == x * x
Cost(len) == Square(len) + 1

\* What is left of a call of len bytes and pivot p once a call comes back to r.
AfterReturn(r, len, p) ==
  CASE r = "left_done"  -> Cost(len - p - 4) + 2
    [] r = "right_done" -> 1
    [] OTHER            -> 0

\* What is left of the last call, and of those that wait for it.
StepsOfCall ==
  CASE pc = "quick_sort"                    -> Cost(a1) + AfterReturn(ra, s1, s2)
    [] pc \in {"partition", "place_pivot"}  -> (s4 - s3) + Square(s1 - 4) + 5
    [] OTHER                                -> AfterReturn(pc, s1, s2)
OfFrame(f) == AfterReturn(f.ra, f.s1, f.s2)
Waiting(frames) == [k \in 1 .. Len(frames) |-> OfFrame(frames[k])]
StepsOfCallers == SumFunctionOnSet(Waiting(stack), 1 .. Len(stack))
StepsLeft == StepsOfCall + StepsOfCallers

\* Squares are natural numbers ...
LEMMA SquareType == ASSUME NEW x \in Int PROVE Square(x) \in Nat
<1>1. CASE x >= 0
  BY <1>1 DEF Square
<1>2. CASE x < 0
  <2>1. PICK y \in Nat : x = - y
    BY <1>2
  <2>2. x * x = y * y
    BY <2>1
  <2> QED
    BY <2>2 DEF Square
<1> QED
  BY <1>1, <1>2

\* ... those of two parts are not above that of the whole ...
LEMMA SquareOfParts ==
  ASSUME NEW x \in Nat, NEW y \in Nat
  PROVE  Square(x) + Square(y) <= Square(x + y)
<1>1. (x + y) * (x + y) = x * x + y * y + 2 * (x * y)
  OBVIOUS
<1>2. x * y \in Nat
  OBVIOUS
<1> QED
  BY <1>1, <1>2 DEF Square

\* ... and the pivot saves more than the loop takes.
LEMMA SquareWithoutPivot ==
  ASSUME NEW x \in Nat, x > 4
  PROVE  (x - 4) + Square(x - 4) + 5 < Square(x) + 1
<1>1. (x - 4) * (x - 4) = x * x - 8 * x + 16
  OBVIOUS
<1>2. x * x \in Nat
  OBVIOUS
<1>3. PICK n \in Nat, m \in Int : n = x * x /\ m = (x - 4) * (x - 4)
  BY <1>2
<1>4. (x - 4) + m + 5 < n + 1
  BY ONLY <1>1, <1>3, x \in Nat, x > 4
<1> QED
  BY <1>3, <1>4 DEF Square

\* A call takes a step at least, and what it comes back to is not negative.
LEMMA CostType ==
  ASSUME NEW len \in Int, NEW p \in Int, NEW r
  PROVE  Cost(len) \in Nat \ {0} /\ AfterReturn(r, len, p) \in Nat
<1>1. Square(len) \in Nat /\ Square(len - p - 4) \in Nat
  BY SquareType
<1> QED
  BY <1>1 DEF Cost, AfterReturn

\* What the callers have left is a number.
LEMMA CallersType ==
  ASSUME NEW s \in Seq(Frames)
  PROVE  SumFunctionOnSet(Waiting(s), 1 .. Len(s)) \in Nat
<1>1. Len(s) \in Nat /\ \A k \in 1 .. Len(s) : s[k] \in Frames
  OBVIOUS
<1>2. ASSUME NEW k \in 1 .. Len(s) PROVE Waiting(s)[k] \in Nat
  <2>1. s[k].s1 \in Int /\ s[k].s2 \in Int
    BY <1>1 DEF Frames
  <2>2. OfFrame(s[k]) \in Nat
    BY <2>1, CostType DEF OfFrame
  <2> QED
    BY <2>2 DEF Waiting
<1>3. IsFiniteSet(1 .. Len(s))
  BY <1>1, FS_Interval
<1>4. PICK w, S : w = Waiting(s) /\ S = 1 .. Len(s)
  OBVIOUS
<1>5. IsFiniteSet(S) /\ \A k \in S : w[k] \in Nat
  BY <1>2, <1>3, <1>4
<1>6. SumFunctionOnSet(w, S) \in Nat
  <2>1. SumFunctionOnSet(w, {}) <= SumFunctionOnSet(w, S) /\ SumFunctionOnSet(w, S) \in Int
    <3>1. {} \in SUBSET S /\ \A k \in S \ {} : w[k] >= 0
      BY <1>5
    <3> QED
      BY ONLY <1>5, <3>1, SumGrows, SumType
  <2>2. SumFunctionOnSet(w, {}) = 0
    BY SumEmpty
  <2> QED
    BY <2>1, <2>2
<1> QED
  BY <1>4, <1>6

\* A frame is pushed, or popped: the callers have more to do by what is in it.
LEMMA CallersOfTwo ==
  ASSUME NEW s \in Seq(Frames), NEW f \in Frames
  PROVE  SumFunctionOnSet(Waiting(Append(s, f)), 1 .. Len(Append(s, f)))
           = SumFunctionOnSet(Waiting(s), 1 .. Len(s)) + OfFrame(f)
<1>1. PICK n \in Nat : n = Len(s)
  OBVIOUS
<1>2. PICK w, v : w = Waiting(s) /\ v = Waiting(Append(s, f))
  OBVIOUS
<1>3. Len(Append(s, f)) = n + 1 /\ v[n + 1] = OfFrame(f)
      /\ \A k \in 1 .. n : v[k] = w[k]
  <2>1. Len(Append(s, f)) = n + 1 /\ Append(s, f)[n + 1] = f
        /\ \A k \in 1 .. n : Append(s, f)[k] = s[k]
    BY <1>1
  <2> QED
    BY <1>1, <1>2, <2>1 DEF Waiting
<1>4. \A k \in 1 .. n + 1 : v[k] \in Int
  <2>1. OfFrame(f) \in Int
    BY CostType DEF OfFrame, Frames
  <2>2. ASSUME NEW k \in 1 .. n PROVE w[k] \in Int
    <3>1. s[k] \in Frames
      BY <1>1
    <3>2. s[k].s1 \in Int /\ s[k].s2 \in Int
      BY <3>1 DEF Frames
    <3>3. OfFrame(s[k]) \in Int
      BY <3>2, CostType DEF OfFrame
    <3> QED
      BY <1>1, <1>2, <3>3 DEF Waiting
  <2>3. \A k \in 1 .. n + 1 : k = n + 1 \/ k \in 1 .. n
    BY <1>1
  <2> QED
    BY <1>3, <2>1, <2>2, <2>3
<1>5. IsFiniteSet(1 .. n) /\ IsFiniteSet(1 .. n + 1)
  BY ONLY n \in Nat, FS_Interval
<1>6. n + 1 \in 1 .. n + 1 /\ (1 .. n + 1) \ {n + 1} = 1 .. n
  BY <1>1
<1>7. /\ SumFunctionOnSet(v, 1 .. n + 1)
           = v[n + 1] + SumFunctionOnSet(v, (1 .. n + 1) \ {n + 1})
      /\ SumFunctionOnSet(v, (1 .. n + 1) \ {n + 1}) \in Int
  BY ONLY <1>4, <1>5, <1>6, SumStep
<1>8. \A k \in 1 .. n : v[k] = w[k] /\ v[k] \in Int
  BY <1>1, <1>3, <1>4
<1>9. SumFunctionOnSet(v, 1 .. n) = SumFunctionOnSet(w, 1 .. n)
  BY ONLY <1>5, <1>8, SumSame
<1>10. v[n + 1] \in Int
  BY <1>4, <1>6
<1>11. PICK x, y, z :
         /\ x = v[n + 1] /\ y = SumFunctionOnSet(w, 1 .. n) /\ z = SumFunctionOnSet(v, 1 .. n + 1)
         /\ x \in Int /\ y \in Int
  BY <1>6, <1>7, <1>9, <1>10
<1>12. z = y + x
  <2>1. z = x + y
    BY <1>6, <1>7, <1>9, <1>11
  <2> QED
    BY ONLY <1>11, <2>1
<1> QED
  BY <1>1, <1>2, <1>3, <1>11, <1>12

\* The number is one in every state.
LEMMA StepsLeftType ==
  ASSUME IInv
  PROVE  StepsOfCall \in Nat /\ StepsOfCallers \in Nat /\ StepsLeft \in Nat
<1>1. a1 \in Int /\ s1 \in Int /\ s2 \in Int /\ s3 \in Int /\ s4 \in Int
  BY DEF IInv, TypeOK
<1>2. /\ Cost(a1) \in Nat /\ AfterReturn(ra, s1, s2) \in Nat
      /\ AfterReturn(pc, s1, s2) \in Nat /\ Square(s1 - 4) \in Nat
  <2>1. \A r : AfterReturn(r, s1, s2) \in Nat
    BY <1>1, CostType
  <2>2. Cost(a1) \in Nat
    BY <1>1, CostType
  <2>3. s1 - 4 \in Int
    BY <1>1
  <2> QED
    BY <2>1, <2>2, <2>3, SquareType
<1>3. pc \in {"partition", "place_pivot"} => s3 <= s4
  BY <1>1 DEF IInv, AtPoint
<1>4. StepsOfCall \in Nat
  BY <1>1, <1>2, <1>3 DEF StepsOfCall
<1> QED
  <2>1. StepsOfCallers \in Nat
    BY CallersType DEF IInv, TypeOK, StepsOfCallers
  <2> QED
    BY <1>4, <2>1 DEF StepsLeft

\* Steps of the last call, which leave its callers alone.
LEMMA CallGoesOn ==
  ASSUME IInv, UNCHANGED stack, NEW n \in Int, StepsOfCall' = n, n < StepsOfCall
  PROVE  StepsLeft' < StepsLeft
<1>1. StepsOfCallers' = StepsOfCallers
  BY DEF StepsOfCallers, Waiting, OfFrame, AfterReturn, Cost, Square
<1>2. StepsOfCall \in Nat /\ StepsOfCallers \in Nat
  BY StepsLeftType
<1> QED
  BY <1>1, <1>2 DEF StepsLeft

\* A call of one name or none returns.
LEMMA ReturnLowers == IInv /\ QuickSortReturn => StepsLeft' < StepsLeft
<1> SUFFICES ASSUME IInv, QuickSortReturn PROVE StepsLeft' < StepsLeft
  OBVIOUS
<1>1. /\ pc = "quick_sort" /\ pc' = ra /\ ra \in {"main"} \cup Backs
      /\ UNCHANGED <<s1, s2, stack>>
  BY DEF QuickSortReturn, saved, IInv, AtPoint, AtCall
<1>2. a1 \in Int /\ s1 \in Int /\ s2 \in Int
  BY DEF IInv, TypeOK
<1>3. PICK m, n : m = Cost(a1) /\ n = AfterReturn(ra, s1, s2)
  OBVIOUS
<1>4. m \in Nat \ {0} /\ n \in Nat
  BY <1>2, <1>3, CostType
<1>5. StepsOfCall = m + n
  BY <1>1, <1>3 DEF StepsOfCall
<1>6. StepsOfCall' = n
  <2>1. StepsOfCall' = AfterReturn(ra, s1, s2)
    BY <1>1 DEF StepsOfCall, Backs, AfterReturn, Cost, Square
  <2> QED
    BY <1>3, <2>1
<1>7. n < m + n /\ n \in Int
  BY ONLY <1>4
<1> QED
  BY <1>1, <1>5, <1>6, <1>7, CallGoesOn

\* A longer one pays the loop over its part, and its parts.
LEMMA PrologueLowers == IInv /\ Prologue => StepsLeft' < StepsLeft
<1> SUFFICES ASSUME IInv, Prologue PROVE StepsLeft' < StepsLeft
  OBVIOUS
<1>1. /\ pc = "quick_sort" /\ pc' = "partition" /\ ra \in {"main"} \cup Backs
      /\ a1 \in Nat /\ a1 > 4 /\ s1' = a1 /\ s3' = 0 /\ s4' = a1 - 4
      /\ stack' = Append(stack, Frame)
  <2>1. a1 \in Int /\ a1 > 4
    BY DEF Prologue, AtMostOne, IInv, TypeOK
  <2> QED
    BY <2>1 DEF Prologue, IInv, AtPoint, AtCall
<1>2. stack \in Seq(Frames) /\ s1 \in Int /\ s2 \in Int /\ s0 \in Int
  BY DEF IInv, TypeOK
<1>3. PICK f : f = Frame
  OBVIOUS
<1>4. f \in Frames /\ OfFrame(f) = AfterReturn(ra, s1, s2)
  BY <1>1, <1>2, <1>3 DEF Frame, Frames, OfFrame
<1>5. PICK n, c : n = AfterReturn(ra, s1, s2) /\ c = StepsOfCallers
  OBVIOUS
<1>6. n \in Nat /\ c \in Nat
  BY <1>2, <1>5, CostType, StepsLeftType
<1>7. StepsOfCallers' = c + n
  <2>1. SumFunctionOnSet(Waiting(Append(stack, f)), 1 .. Len(Append(stack, f)))
          = StepsOfCallers + OfFrame(f)
    BY <1>2, <1>4, CallersOfTwo DEF StepsOfCallers
  <2>2. StepsOfCallers' =
          SumFunctionOnSet(Waiting(Append(stack, f)), 1 .. Len(Append(stack, f)))
    BY <1>1, <1>3 DEF StepsOfCallers, Waiting, OfFrame, AfterReturn, Cost, Square
  <2> QED
    BY <1>4, <1>5, <2>1, <2>2
<1>8. PICK m \in Nat, k \in Nat : m = Square(a1) /\ k = Square(a1 - 4)
  BY <1>1, SquareType
<1>9. StepsOfCall = (m + 1) + n
  BY <1>1, <1>5, <1>8 DEF StepsOfCall, Cost
<1>10. StepsOfCall' = (a1 - 4) + k + 5
  <2>1. StepsOfCall' = ((a1 - 4) - 0) + (a1 - 4) * (a1 - 4) + 5
    BY <1>1 DEF StepsOfCall, Square
  <2>2. (a1 - 4) * (a1 - 4) = k
    BY <1>8 DEF Square
  <2> QED
    BY <1>1, <2>1, <2>2
<1>11. (a1 - 4) + k + 5 < m + 1
  BY <1>1, <1>8, SquareWithoutPivot
<1>12. StepsLeft = ((m + 1) + n) + c /\ StepsLeft' = ((a1 - 4) + k + 5) + (c + n)
  BY <1>5, <1>7, <1>9, <1>10 DEF StepsLeft
<1>13. ((a1 - 4) + k + 5) + (c + n) < ((m + 1) + n) + c
  BY ONLY <1>6, <1>11, m \in Nat, k \in Nat, <1>1
<1> QED
  BY <1>12, <1>13

\* A turn of the loop.
LEMMA PartitionLowers == IInv /\ Partition => StepsLeft' < StepsLeft
<1> SUFFICES ASSUME IInv, Partition PROVE StepsLeft' < StepsLeft
  OBVIOUS
<1>1. /\ pc = "partition" /\ pc' \in {"partition", "place_pivot"}
      /\ s3' = s3 + 4 /\ UNCHANGED <<s1, s4, stack>>
  BY DEF Partition, Advanced
<1>2. s1 \in Int /\ s3 \in Int /\ s4 \in Int
  BY DEF IInv, TypeOK
<1>3. PICK k \in Nat : k = Square(s1 - 4)
  BY <1>2, SquareType
<1>4. StepsOfCall = (s4 - s3) + k + 5 /\ StepsOfCall' = (s4 - (s3 + 4)) + k + 5
  <2>1. StepsOfCall' = (s4 - (s3 + 4)) + (s1 - 4) * (s1 - 4) + 5
    BY <1>1 DEF StepsOfCall, Square
  <2>2. (s1 - 4) * (s1 - 4) = k
    BY <1>3 DEF Square
  <2> QED
    BY <1>1, <1>3, <2>1, <2>2 DEF StepsOfCall
<1>5. PICK n \in Int : n = (s4 - (s3 + 4)) + k + 5
  BY <1>2
<1>6. n < (s4 - s3) + k + 5
  BY <1>2, <1>5
<1> QED
  BY <1>1, <1>4, <1>5, <1>6, CallGoesOn

\* The parts left and right of the pivot cost less than the call had left.
LEMMA PlacePivotLowers == IInv /\ PlacePivot => StepsLeft' < StepsLeft
<1> SUFFICES ASSUME IInv, PlacePivot PROVE StepsLeft' < StepsLeft
  OBVIOUS
<1>1. /\ pc = "place_pivot" /\ pc' = "quick_sort" /\ ra' = "left_done" /\ a1' = s2
      /\ UNCHANGED <<s1, s2, stack>>
  BY DEF PlacePivot, Call, saved
<1>2. stack # <<>> /\ s3 = s4 /\ s4 \in Int
  BY <1>1 DEF IInv, TypeOK, AtPoint
<1>3. s1 \in Nat /\ s2 \in Nat /\ s1 % 4 = 0 /\ s2 % 4 = 0 /\ s2 < s1
  BY <1>2, CurrentCall
<1>4. PICK y \in Nat : y = s1 - s2 - 4 /\ s2 + y = s1 - 4
  BY <1>3
<1>5. PICK k \in Nat, l \in Nat, r \in Nat :
        k = Square(s1 - 4) /\ l = Square(s2) /\ r = Square(s1 - s2 - 4)
  BY <1>3, SquareType
<1>6. l + r <= k
  <2>1. Square(s2) + Square(y) <= Square(s2 + y)
    BY <1>3, <1>4, SquareOfParts
  <2> QED
    BY <1>4, <1>5, <2>1
<1>7. StepsOfCall = k + 5
  BY <1>1, <1>2, <1>5 DEF StepsOfCall
<1>8. StepsOfCall' = (l + 1) + ((r + 1) + 2)
  <2>1. StepsOfCall' = (s2 * s2 + 1) + (((s1 - s2 - 4) * (s1 - s2 - 4) + 1) + 2)
    BY <1>1 DEF StepsOfCall, AfterReturn, Cost, Square
  <2>2. s2 * s2 = l /\ (s1 - s2 - 4) * (s1 - s2 - 4) = r
    BY <1>5 DEF Square
  <2> QED
    BY <2>1, <2>2
<1>9. PICK n \in Int : n = (l + 1) + ((r + 1) + 2)
  OBVIOUS
<1>10. n < k + 5
  BY <1>6, <1>9
<1> QED
  BY <1>1, <1>7, <1>8, <1>9, <1>10, CallGoesOn

\* The call of the right part has been paid for.
LEMMA SortRightLowers == IInv /\ SortRight => StepsLeft' < StepsLeft
<1> SUFFICES ASSUME IInv, SortRight PROVE StepsLeft' < StepsLeft
  OBVIOUS
<1>1. /\ pc = "left_done" /\ pc' = "quick_sort" /\ ra' = "right_done"
      /\ a1' = s1 - s2 - 4 /\ UNCHANGED <<s1, s2, stack>>
  BY DEF SortRight, Call, saved
<1>2. s1 \in Int /\ s2 \in Int
  BY DEF IInv, TypeOK
<1>3. PICK r \in Nat : r = Square(s1 - s2 - 4)
  BY <1>2, SquareType
<1>4. StepsOfCall = (r + 1) + 2
  BY <1>1, <1>3 DEF StepsOfCall, AfterReturn, Cost
<1>5. StepsOfCall' = (r + 1) + 1
  <2>1. StepsOfCall' = ((s1 - s2 - 4) * (s1 - s2 - 4) + 1) + 1
    BY <1>1 DEF StepsOfCall, AfterReturn, Cost, Square
  <2>2. (s1 - s2 - 4) * (s1 - s2 - 4) = r
    BY <1>3 DEF Square
  <2> QED
    BY <2>1, <2>2
<1>6. PICK n \in Int : n = (r + 1) + 1
  OBVIOUS
<1>7. n < (r + 1) + 2
  BY <1>6
<1> QED
  BY <1>1, <1>4, <1>5, <1>6, <1>7, CallGoesOn

\* The caller goes on with what its frame said it had left.
LEMMA EpilogueLowers == IInv /\ Epilogue => StepsLeft' < StepsLeft
<1> SUFFICES ASSUME IInv, Epilogue PROVE StepsLeft' < StepsLeft
  OBVIOUS
<1>1. /\ pc = "right_done" /\ stack # <<>> /\ stack \in Seq(Frames)
      /\ pc' = Last(stack).ra /\ s1' = Last(stack).s1 /\ s2' = Last(stack).s2
      /\ stack' = Front(stack)
  BY DEF Epilogue, Restored, IInv, TypeOK, AtPoint
<1>2. PICK s \in Seq(Frames), f \in Frames :
        s = Front(stack) /\ f = Last(stack) /\ stack = Append(s, f)
  <2>1. Front(stack) \in Seq(Frames) /\ Last(stack) \in Frames
    BY <1>1 DEF Front, Last
  <2>2. stack = Append(Front(stack), Last(stack))
    BY <1>1 DEF Front, Last
  <2> QED
    BY <2>1, <2>2
<1>3. PICK n : n = OfFrame(f)
  OBVIOUS
<1>4. n \in Nat
  BY <1>2, <1>3, CostType DEF OfFrame, Frames
<1>5. PICK c : c = SumFunctionOnSet(Waiting(s), 1 .. Len(s))
  OBVIOUS
<1>6. StepsOfCallers = c + n
  BY <1>2, <1>3, <1>5, CallersOfTwo DEF StepsOfCallers
<1>7. StepsOfCallers' = c
  <2>1. StepsOfCallers' = SumFunctionOnSet(Waiting(s), 1 .. Len(s))
    BY <1>1, <1>2 DEF StepsOfCallers, Waiting, OfFrame, AfterReturn, Cost, Square
  <2> QED
    BY <1>5, <2>1
<1>8. c \in Nat
  BY <1>5, CallersType
<1>9. StepsOfCall = 1
  BY <1>1 DEF StepsOfCall, AfterReturn
<1>10. StepsOfCall' = n
  <2>1. f.ra \in {"main"} \cup Backs
    BY DEF Frames
  <2>2. StepsOfCall' = AfterReturn(f.ra, f.s1, f.s2)
    BY <1>1, <1>2, <2>1 DEF StepsOfCall, AfterReturn, Cost, Square, Backs
  <2> QED
    BY <1>3, <2>2 DEF OfFrame
<1> QED
  BY <1>4, <1>6, <1>7, <1>8, <1>9, <1>10 DEF StepsLeft

\* Whatever the pivots are, the sort of n names makes at most 16 n^2 + 1 steps of
\* a basic block each: no input lets it go on for ever, and what is left to say
\* for Terminates is that the machine runs and has a block to go to.
THEOREM SortRunsOut ==
  Spec => /\ StepsLeft = (4 * Length) * (4 * Length) + 1
          /\ [](StepsLeft \in Nat) /\ [][StepsLeft' < StepsLeft]_vars
<1> DEFINE Bounded == StepsLeft = (4 * Length) * (4 * Length) + 1
           Number  == StepsLeft \in Nat
           Lower   == StepsLeft' < StepsLeft
<1>1. Init => Bounded
  <2> SUFFICES ASSUME Init PROVE Bounded
    OBVIOUS
  <2>1. pc = "quick_sort" /\ ra = "main" /\ a1 = 4 * Length /\ stack = <<>>
    BY DEF Init
  <2>2. StepsOfCallers = 0
    <3>1. 1 .. Len(stack) = {}
      BY <2>1
    <3> QED
      BY <3>1, SumEmpty DEF StepsOfCallers
  <2>3. StepsOfCall = ((4 * Length) * (4 * Length) + 1) + 0
    BY <2>1 DEF StepsOfCall, AfterReturn, Cost, Square
  <2>4. PICK n \in Nat : n = 4 * Length /\ n * n \in Nat
    BY ConstantsAssumption
  <2> QED
    BY <2>2, <2>3, <2>4 DEF StepsLeft
<1>2. IInv => Number
  BY StepsLeftType
<1>3. IInv /\ [Next]_vars => [Lower]_vars
  BY ReturnLowers, PrologueLowers, PartitionLowers, PlacePivotLowers,
     SortRightLowers, EpilogueLowers DEF Next
<1> HIDE DEF Bounded, Number, Lower
<1>4. Spec => Bounded /\ []Number /\ [][Lower]_vars
  BY <1>1, <1>2, <1>3, Invariance, PTL DEF Spec
<1> QED
  BY <1>4 DEF Bounded, Number, Lower
==============================================================================
