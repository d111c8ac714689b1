--------------------------- MODULE CheckpointProofs ---------------------------
(***************************************************************************)
(* What hw2 does, for any memory map, any sizes, and any reads and writes. *)
(*                                                                         *)
(* Every unit of an image has a place: the header and the data of a region *)
(* lie where the sizes of the regions before it say (Offset), the          *)
(* registers behind them all.  No two things belong at one place, so what  *)
(* is read at a place is what belongs there; the writer and the reader are *)
(* always where the region they work at says (Inv).                        *)
(*                                                                         *)
(* Without root's rights open() makes the file or fails: the handler       *)
(* appends, an image is of one memory from its first unit on, and a reader *)
(* that finds the registers has read all of that memory (Kept).            *)
(*                                                                         *)
(* Every step of the handler and of the restarter ends a chunk or tries    *)
(* again, which it may three times, and every region is written and mapped *)
(* once: so both run out of steps (StepsLeft).                             *)
(***************************************************************************)
EXTENDS Checkpoint, NumberLemmas

------------------------------------------------------------------------------
(* FlattenSeq, and where the parts of what it joins are.                   *)

\* What comes before an element of the second part of a sequence.
Joined(c, a, b) ==
  /\ Len(c) = Len(a) + Len(b)
  /\ \A p \in 1 .. Len(a) : p \in 1 .. Len(c) /\ c[p] = a[p]
  /\ \A p \in 1 .. Len(b) : Len(a) + p \in 1 .. Len(c) /\ c[Len(a) + p] = b[p]

\* Each part of two sequences joined is where Joined says.
LEMMA InJoin ==
  ASSUME NEW S, NEW a \in Seq(S), NEW b \in Seq(S)
  PROVE  a \o b \in Seq(S) /\ Joined(a \o b, a, b)
BY DEF Joined

\* f holds the sequences that FlattenSeq joins to the result, one more in each.
Joins(f, s, n) == /\ f[1] = s[1] /\ f[n] = FlattenSeq(s)
                  /\ \A i \in 2 .. n : f[i] = f[i - 1] \o s[i]

\* FlattenSeq joins one sequence after the other.  Its definition is a recursive
\* function chosen by CHOOSE: what it returns is built up here, length by length.
LEMMA FlattenFacts ==
  ASSUME NEW S, NEW n \in Nat \ {0}, NEW s \in [1 .. n -> Seq(S)]
  PROVE  \E f \in [1 .. n -> Seq(S)] : Joins(f, s, n)
<1> DEFINE Flat(f, k) == /\ f \in [1 .. k -> Seq(S)] /\ f[1] = s[1]
                         /\ \A i \in 2 .. k : f[i] = f[i - 1] \o s[i]
           Some == {k \in 1 .. n : \E f : Flat(f, k)}
<1>0. \A i \in 1 .. n : s[i] \in Seq(S)
  OBVIOUS
<1>1. 1 \in Some
  <2> DEFINE g == [i \in 1 .. 1 |-> s[1]]
  <2>1. g \in [1 .. 1 -> Seq(S)] /\ g[1] = s[1]
    BY <1>0
  <2> HIDE DEF g
  <2>2. Flat(g, 1) /\ 1 \in 1 .. n
    BY <2>1
  <2> HIDE DEF Flat
  <2> QED
    BY <2>2
<1>2. ASSUME NEW l \in 2 .. n, l - 1 \in Some PROVE l \in Some
  <2>0. l \in 2 .. n /\ l \in 1 .. n /\ l - 1 \in 1 .. n
    BY <1>2
  <2>1. PICK f : Flat(f, l - 1)
    BY <1>2
  <2> DEFINE g == [i \in 1 .. l |-> IF i = l THEN f[l - 1] \o s[l] ELSE f[i]]
  <2>2. f[l - 1] \o s[l] \in Seq(S)
    <3>1. f[l - 1] \in Seq(S) /\ s[l] \in Seq(S)
      BY <1>0, <2>0, <2>1
    <3> QED
      BY <3>1
  <2>3. g \in [1 .. l -> Seq(S)]
    <3>1. \A i \in 1 .. l : (IF i = l THEN f[l - 1] \o s[l] ELSE f[i]) \in Seq(S)
      BY <2>0, <2>1, <2>2
    <3> QED
      BY <3>1
  <2>4. g[l] = f[l - 1] \o s[l] /\ \A i \in 1 .. l - 1 : g[i] = f[i]
    BY <2>0
  <2> HIDE DEF g
  <2>5. g[1] = s[1]
    <3>1. 1 \in 1 .. l - 1
      BY <2>0
    <3> QED
      BY <2>1, <2>4, <3>1
  <2>6. \A i \in 2 .. l : g[i] = g[i - 1] \o s[i]
    <3> TAKE i \in 2 .. l
    <3>1. i - 1 \in 1 .. l - 1
      BY <2>0
    <3>2. CASE i = l
      BY <2>4, <3>1, <3>2
    <3>3. CASE i # l
      <4>1. i \in 2 .. l - 1 /\ i \in 1 .. l - 1
        BY <2>0, <3>3
      <4>2. f[i] = f[i - 1] \o s[i]
        BY <2>1, <4>1
      <4> QED
        BY <2>4, <3>1, <4>1, <4>2
    <3> QED
      BY <3>2, <3>3
  <2>7. Flat(g, l)
    BY <2>3, <2>5, <2>6
  <2> QED
    BY <2>0, <2>7
<1>3. n \in Some
  <2>1. 1 \in Nat /\ n \in 1 .. n /\ \A l \in 1 + 1 .. n : l \in 2 .. n
    OBVIOUS
  <2> HIDE DEF Some
  <2>2. 1 .. n \subseteq Some
    BY <1>1, <1>2, <2>1, UpTo
  <2> QED
    BY <2>1, <2>2
<1>4. PICK f : Flat(f, n)
  BY <1>3
<1> HIDE DEF Flat
<1> DEFINE Body(g) == [i \in 1 .. n |-> IF i = 1 THEN s[i] ELSE g[i - 1] \o s[i]]
           F == CHOOSE g : g = Body(g)
<1>5. FlattenSeq(s) = F[n]
  <2>1. Len(s) = n
    BY <1>0
  <2> QED
    BY <2>1 DEF FlattenSeq
<1>6. f = Body(f)
  <2>1. f \in [1 .. n -> Seq(S)] /\ f[1] = s[1] /\ \A i \in 2 .. n : f[i] = f[i - 1] \o s[i]
    BY <1>4 DEF Flat
  <2>2. \A i \in 1 .. n : f[i] = IF i = 1 THEN s[i] ELSE f[i - 1] \o s[i]
    <3> TAKE i \in 1 .. n
    <3>1. i = 1 \/ i \in 2 .. n
      OBVIOUS
    <3>2. CASE i = 1
      BY <2>1, <3>2
    <3>3. CASE i # 1
      BY <2>1, <3>1, <3>3
    <3> QED
      BY <3>2, <3>3
  <2>3. Body(f) = [i \in 1 .. n |-> f[i]]
    BY <2>2
  <2>4. f = [i \in 1 .. n |-> f[i]]
    BY <2>1
  <2> QED
    BY <2>3, <2>4
<1>7. F = Body(F)
  <2> HIDE DEF Body
  <2> QED
    BY <1>6
<1> HIDE DEF F
<1>8. \A i \in 1 .. n : F[i] = IF i = 1 THEN s[i] ELSE F[i - 1] \o s[i]
  <2> TAKE i \in 1 .. n
  <2>1. Body(F)[i] = IF i = 1 THEN s[i] ELSE F[i - 1] \o s[i]
    OBVIOUS
  <2> HIDE DEF Body
  <2> QED
    BY <1>7, <2>1
<1>9. F[1] = s[1] /\ \A i \in 2 .. n : F[i] = F[i - 1] \o s[i]
  <2>1. 1 \in 1 .. n /\ \A i \in 2 .. n : i \in 1 .. n /\ i # 1
    OBVIOUS
  <2> QED
    BY <1>8, <2>1
<1>10. F \in [1 .. n -> Seq(S)]
  <2> DEFINE Typed == {k \in 1 .. n : F[k] \in Seq(S)}
  <2>1. 1 \in Typed
    BY <1>0, <1>9
  <2>2. ASSUME NEW l \in 2 .. n, l - 1 \in Typed PROVE l \in Typed
    <3>0. l \in 1 .. n
      OBVIOUS
    <3>1. F[l - 1] \in Seq(S) /\ s[l] \in Seq(S)
      BY <1>0, <2>2, <3>0
    <3>2. F[l - 1] \o s[l] \in Seq(S)
      BY <3>1
    <3> QED
      BY <1>9, <3>0, <3>2
  <2>3. 1 \in Nat /\ \A l \in 1 + 1 .. n : l \in 2 .. n
    OBVIOUS
  <2>4. 1 .. n \subseteq Typed
    <3> HIDE DEF Typed
    <3> QED
      BY <2>1, <2>2, <2>3, UpTo
  <2>5. \A i \in 1 .. n : F[i] \in Seq(S)
    BY <2>4
  <2>6. F = [i \in 1 .. n |-> F[i]]
    BY <1>7
  <2> QED
    BY <2>5, <2>6
<1> QED
  BY <1>5, <1>9, <1>10 DEF Joins

\* B[i] is where the i-th of the joined sequences ends.
Ends(B, s, n) ==
  /\ B[0] = 0 /\ B[n] = Len(FlattenSeq(s))
  /\ \A i \in 1 .. n : B[i] = B[i - 1] + Len(s[i])
  /\ \A i \in 1 .. n : \A j \in 1 .. Len(s[i]) :
       /\ B[i - 1] + j \in 1 .. Len(FlattenSeq(s))
       /\ FlattenSeq(s)[B[i - 1] + j] = s[i][j]

\* Each of the sequences that FlattenSeq joins is found behind those before it.
LEMMA FlattenPlaces ==
  ASSUME NEW S, NEW n \in Nat \ {0}, NEW s \in [1 .. n -> Seq(S)]
  PROVE  FlattenSeq(s) \in Seq(S) /\ \E B \in [0 .. n -> Nat] : Ends(B, s, n)
<1>0. PICK f \in [1 .. n -> Seq(S)] : Joins(f, s, n)
  BY FlattenFacts
<1>1. /\ f \in [1 .. n -> Seq(S)] /\ f[1] = s[1] /\ f[n] = FlattenSeq(s)
      /\ \A i \in 2 .. n : f[i] = f[i - 1] \o s[i]
  BY <1>0 DEF Joins
<1>2. \A i \in 1 .. n : s[i] \in Seq(S) /\ f[i] \in Seq(S) /\ Len(s[i]) \in Nat
        /\ Len(f[i]) \in Nat
  BY <1>1
<1> DEFINE B == [i \in 0 .. n |-> IF i = 0 THEN 0 ELSE Len(f[i])]
<1>3. B \in [0 .. n -> Nat] /\ B[0] = 0 /\ B[n] = Len(FlattenSeq(s))
  <2>1. \A i \in 0 .. n : (IF i = 0 THEN 0 ELSE Len(f[i])) \in Nat
    BY <1>2
  <2> QED
    BY <1>1, <2>1
<1>4. \A i \in 1 .. n : B[i] = Len(f[i])
  OBVIOUS
<1> HIDE DEF B
<1>5. \A i \in 1 .. n : B[i] = B[i - 1] + Len(s[i])
  <2> TAKE i \in 1 .. n
  <2>1. CASE i = 1
    <3>1. i - 1 = 0
      BY <2>1
    <3> QED
      BY <1>1, <1>2, <1>3, <1>4, <2>1, <3>1
  <2>2. CASE i # 1
    <3>1. i \in 2 .. n /\ i - 1 \in 1 .. n
      BY <2>2
    <3>2. f[i] = f[i - 1] \o s[i] /\ f[i - 1] \in Seq(S) /\ s[i] \in Seq(S)
      BY <1>1, <1>2, <3>1
    <3>3. Len(f[i]) = Len(f[i - 1]) + Len(s[i])
      BY <3>2, InJoin DEF Joined
    <3> QED
      BY <1>4, <3>1, <3>3
  <2> QED
    BY <2>1, <2>2
<1> DEFINE Right(k) == \A i \in 1 .. k : \A j \in 1 .. Len(s[i]) :
                         B[i - 1] + j \in 1 .. Len(f[k]) /\ f[k][B[i - 1] + j] = s[i][j]
           T == {k \in 1 .. n : Right(k)}
<1>6. 1 \in T
  <2> SUFFICES ASSUME NEW j \in 1 .. Len(s[1])
               PROVE  B[0] + j \in 1 .. Len(f[1]) /\ f[1][B[0] + j] = s[1][j]
    OBVIOUS
  <2> QED
    BY <1>1, <1>3
<1>7. ASSUME NEW l \in 2 .. n, l - 1 \in T PROVE l \in T
  <2>0. l \in 2 .. n /\ l \in 1 .. n /\ l - 1 \in 1 .. n
    BY <1>7
  <2>1. f[l] = f[l - 1] \o s[l] /\ f[l - 1] \in Seq(S) /\ s[l] \in Seq(S)
    BY <1>1, <1>2, <2>0
  <2>2. Right(l - 1)
    BY <1>7
  <2> SUFFICES ASSUME NEW i \in 1 .. l, NEW j \in 1 .. Len(s[i])
               PROVE  B[i - 1] + j \in 1 .. Len(f[l]) /\ f[l][B[i - 1] + j] = s[i][j]
    BY <2>0
  <2>3. CASE i = l
    <3>1. B[i - 1] = Len(f[l - 1])
      BY <1>4, <2>0, <2>3
    <3> QED
      BY <2>1, <2>3, <3>1, InJoin DEF Joined
  <2>4. CASE i # l
    <3>1. i \in 1 .. l - 1
      BY <2>0, <2>4
    <3>2. B[i - 1] + j \in 1 .. Len(f[l - 1]) /\ f[l - 1][B[i - 1] + j] = s[i][j]
      BY <2>2, <3>1
    <3>3. PICK a \in Seq(S), b \in Seq(S) : a = f[l - 1] /\ b = s[l]
      BY <2>1
    <3>4. \A p \in 1 .. Len(a) : p \in 1 .. Len(a \o b) /\ (a \o b)[p] = a[p]
      BY InJoin DEF Joined
    <3>5. f[l] = a \o b
      BY <2>1, <3>3
    <3> QED
      BY <3>2, <3>3, <3>4, <3>5
  <2> QED
    BY <2>3, <2>4
<1>8. Right(n)
  <2>1. 1 \in Nat /\ n \in 1 .. n /\ \A l \in 1 + 1 .. n : l \in 2 .. n
    OBVIOUS
  <2>2. 1 .. n \subseteq T
    <3> HIDE DEF T
    <3> QED
      BY <1>6, <1>7, <2>1, UpTo
  <2> QED
    BY <2>1, <2>2
<1>9. FlattenSeq(s) \in Seq(S)
  BY <1>1, <1>2
<1>10. \A i \in 1 .. n : \A j \in 1 .. Len(s[i]) :
         B[i - 1] + j \in 1 .. Len(FlattenSeq(s)) /\ FlattenSeq(s)[B[i - 1] + j] = s[i][j]
  BY <1>1, <1>8
<1> QED
  BY <1>3, <1>5, <1>9, <1>10 DEF Ends

------------------------------------------------------------------------------
(* Where the regions lie in an image.                                      *)

\* How many regions the map has, and how many units region r takes.
N == Len(Layout)
PartLen(r) == IF r \in Saved THEN 1 + Layout[r].size ELSE 0

\* Behind region r, in an image.
IsOffset(B) ==
  B \in [0 .. N -> Nat] /\ B[0] = 0 /\ \A r \in 1 .. N : B[r] = B[r - 1] + PartLen(r)
Offset == CHOOSE B : IsOffset(B)

\* What LayoutAssumption says, with numbers for regions.
LEMMA LayoutFacts ==
  /\ N \in Nat \ {0} /\ Regions = 1 .. N /\ Saved \subseteq 1 .. N /\ Stack \in Saved
  /\ ContextSize \in Nat \ {0}
  /\ \A r \in 1 .. N : Layout[r].size \in Nat \ {0}
  /\ \A r \in 1 .. N : PartLen(r) \in Nat
<1>1. Layout \in Seq([size : Nat \ {0}, r : BOOLEAN, vsyscall : BOOLEAN])
  BY LayoutAssumption
<1>2. N \in Nat /\ Regions = 1 .. N
  BY <1>1 DEF N, Regions
<1>3. \A r \in 1 .. N : Layout[r].size \in Nat \ {0}
  <2> TAKE r \in 1 .. N
  <2>0. r \in 1 .. Len(Layout)
    BY DEF N
  <2>1. Layout[r] \in [size : Nat \ {0}, r : BOOLEAN, vsyscall : BOOLEAN]
    <3> DEFINE Lines == [size : Nat \ {0}, r : BOOLEAN, vsyscall : BOOLEAN]
    <3>1. Layout \in Seq(Lines)
      BY <1>1
    <3> HIDE DEF Lines
    <3>2. Layout[r] \in Lines
      BY <2>0, <3>1
    <3> QED
      BY <3>2 DEF Lines
  <2> QED
    BY <2>1
<1>4. Saved \subseteq 1 .. N /\ Stack \in Saved /\ ContextSize \in Nat \ {0}
  BY <1>2, LayoutAssumption DEF Saved
<1> QED
  BY <1>2, <1>3, <1>4 DEF PartLen

\* The regions that are saved have numbers from 0 up.
LEMMA RegionNumbers == 0 \in 0 .. N /\ Saved \subseteq 0 .. N
<1>1. N \in Nat /\ Saved \subseteq 1 .. N
  BY LayoutFacts
<1> QED
  BY <1>1

\* The sums of the sizes exist, for a map of any length.
LEMMA OffsetFacts == IsOffset(Offset)
<1>0. N \in Nat \ {0} /\ \A r \in 1 .. N : PartLen(r) \in Nat
  BY LayoutFacts
<1> DEFINE s == [r \in 1 .. N |-> [i \in 1 .. PartLen(r) |-> 0]]
<1>1. s \in [1 .. N -> Seq({0})] /\ \A r \in 1 .. N : Len(s[r]) = PartLen(r)
  BY <1>0
<1> HIDE DEF s
<1>2. PICK B \in [0 .. N -> Nat] : Ends(B, s, N)
  BY <1>0, <1>1, FlattenPlaces
<1>3. IsOffset(B)
  BY <1>1, <1>2 DEF IsOffset, Ends
<1> QED
  BY <1>3 DEF Offset

\* There is one way to lay the regions out.
LEMMA OffsetUnique ==
  ASSUME NEW B, IsOffset(B)
  PROVE  \A r \in 0 .. N : B[r] = Offset[r]
<1>1. N \in Nat /\ IsOffset(B) /\ IsOffset(Offset)
  BY LayoutFacts, OffsetFacts
<1> DEFINE T == {r \in 0 .. N : B[r] = Offset[r]}
<1>2. 0 \in T
  BY <1>1 DEF IsOffset
<1>3. ASSUME NEW l \in 0 + 1 .. N, l - 1 \in T PROVE l \in T
  <2>1. l \in 1 .. N /\ l \in 0 .. N
    OBVIOUS
  <2>2. B[l] = B[l - 1] + PartLen(l) /\ Offset[l] = Offset[l - 1] + PartLen(l)
    BY <1>1, <2>1 DEF IsOffset
  <2> QED
    BY <1>3, <2>1, <2>2
<1>4. 0 .. N \subseteq T
  <2> HIDE DEF T
  <2> QED
    BY <1>1, <1>2, <1>3, UpTo
<1> QED
  BY <1>4

\* Behind a region comes the next one.
LEMMA OffsetSteps ==
  /\ \A r \in 0 .. N : Offset[r] \in Nat
  /\ Offset[0] = 0
  /\ \A r \in Saved : Offset[r] = Offset[r - 1] + 1 + Layout[r].size /\ Offset[r - 1] \in Nat
  /\ \A r \in 1 .. N : Offset[r - 1] <= Offset[r]
     /\ (r \notin Saved => Offset[r - 1] = Offset[r])
<1>1. IsOffset(Offset)
  BY OffsetFacts
<1>2. \A r \in 1 .. N : r - 1 \in 0 .. N /\ r \in 0 .. N
  BY LayoutFacts
<1>3. Offset[0] = 0 /\ \A r \in 0 .. N : Offset[r] \in Nat
  BY <1>1 DEF IsOffset
<1>4. ASSUME NEW r \in 1 .. N PROVE Offset[r] = Offset[r - 1] + PartLen(r)
  BY <1>1, <1>4 DEF IsOffset
<1>5. ASSUME NEW r \in 1 .. N
      PROVE  /\ Offset[r - 1] <= Offset[r] /\ Offset[r - 1] \in Nat
             /\ r \in Saved => Offset[r] = Offset[r - 1] + 1 + Layout[r].size
             /\ r \notin Saved => Offset[r - 1] = Offset[r]
  <2>1. Offset[r - 1] \in Nat /\ Offset[r] = Offset[r - 1] + PartLen(r) /\ PartLen(r) \in Nat
    BY <1>2, <1>3, <1>4, LayoutFacts
  <2>2. Layout[r].size \in Nat
    BY LayoutFacts
  <2>3. PartLen(r) = IF r \in Saved THEN 1 + Layout[r].size ELSE 0
    BY DEF PartLen
  <2> QED
    BY <2>1, <2>2, <2>3
<1> QED
  BY <1>3, <1>5, LayoutFacts

\* A later region lies behind an earlier one.
LEMMA OffsetGrows ==
  ASSUME NEW q \in 0 .. N, NEW r \in 0 .. N, q <= r
  PROVE  Offset[q] <= Offset[r]
<1> DEFINE T == {l \in q .. N : Offset[q] <= Offset[l]}
<1>1. N \in Nat /\ q \in Nat /\ Offset[q] \in Nat
  BY LayoutFacts, OffsetSteps
<1>2. q \in T
  BY <1>1
<1>3. ASSUME NEW l \in q + 1 .. N, l - 1 \in T PROVE l \in T
  <2>1. l \in 1 .. N /\ l \in q .. N /\ l - 1 \in 0 .. N /\ l \in 0 .. N
    BY <1>1
  <2>2. Offset[l - 1] \in Nat /\ Offset[l] \in Nat /\ Offset[l - 1] <= Offset[l]
    BY <2>1, OffsetSteps
  <2>3. Offset[q] <= Offset[l - 1]
    BY <1>3
  <2>4. Offset[q] <= Offset[l]
    BY <1>1, <2>2, <2>3
  <2> QED
    BY <2>1, <2>4
<1>4. q .. N \subseteq T
  <2> HIDE DEF T
  <2> QED
    BY <1>1, <1>2, <1>3, UpTo
<1> QED
  BY <1>1, <1>4

\* What is not saved takes no room.
LEMMA OffsetSkips ==
  ASSUME NEW q \in 0 .. N, NEW r \in 0 .. N, q <= r, \A k \in q + 1 .. r : k \notin Saved
  PROVE  Offset[q] = Offset[r]
<1> DEFINE T == {l \in q .. r : Offset[q] = Offset[l]}
<1>1. N \in Nat /\ q \in Nat /\ r \in Nat
  BY LayoutFacts
<1>2. q \in T
  BY <1>1
<1>3. ASSUME NEW l \in q + 1 .. r, l - 1 \in T PROVE l \in T
  <2>1. l \in 1 .. N /\ l \in q .. r /\ l \notin Saved
    BY <1>1
  <2>2. Offset[l - 1] = Offset[l]
    BY <2>1, OffsetSteps
  <2> QED
    BY <1>3, <2>1, <2>2
<1>4. q .. r \subseteq T
  <2> HIDE DEF T
  <2> QED
    BY <1>1, <1>2, <1>3, UpTo
<1> QED
  BY <1>1, <1>4

\* A region's part ends before the next one's begins, and before the registers.
LEMMA OffsetOrder ==
  ASSUME NEW r \in Saved
  PROVE  /\ \A q \in 0 .. N : r <= q => Offset[r] <= Offset[q]
         /\ \A q \in 0 .. N : q < r => Offset[q] <= Offset[r - 1]
         /\ Offset[r] = Offset[r - 1] + 1 + Layout[r].size
         /\ Offset[r - 1] \in Nat /\ Layout[r].size \in Nat \ {0} /\ r \in 1 .. N
<1>1. r \in 1 .. N /\ r \in 0 .. N /\ r - 1 \in 0 .. N /\ \A q \in 0 .. N : q < r => q <= r - 1
  BY LayoutFacts
<1> QED
  BY <1>1, OffsetGrows, OffsetSteps, LayoutFacts

------------------------------------------------------------------------------
(* The image of a memory.                                                  *)

\* What a region, and a unit of the image, may hold.
Vals == Values \cup {"clear", "restart", "torn", "unmapped", "none"}
UnitSet == [what : {"header", "data", "context"}, region : 0 .. N, index : Nat, val : Vals]

\* What the image has of region r.
PageOf(m, r) == IF r = Stack THEN "restart" ELSE m[r]

\* What the handler writes are units.
LEMMA UnitFacts ==
  /\ Context \in Seq(UnitSet) /\ Len(Context) = ContextSize
  /\ \A i \in 1 .. ContextSize : Context[i] = Unit("context", 0, i, "none")
  /\ \A r \in Saved : Header(r) \in UnitSet
  /\ \A r \in 0 .. N, i \in Nat, v \in Vals : Unit("data", r, i, v) \in UnitSet
<1>1. N \in Nat /\ Saved \subseteq 1 .. N /\ ContextSize \in Nat
  BY LayoutFacts
<1>2. \A r \in Saved : Header(r) \in UnitSet
  BY <1>1 DEF Header, Unit, UnitSet, Vals
<1>3. \A r \in 0 .. N, i \in Nat, v \in Vals : Unit("data", r, i, v) \in UnitSet
  BY <1>1 DEF Unit, UnitSet, Vals
<1>4. \A i \in 1 .. ContextSize : Unit("context", 0, i, "none") \in UnitSet
  BY <1>1 DEF Unit, UnitSet, Vals
<1> QED
  BY <1>1, <1>2, <1>3, <1>4 DEF Context

\* A saved region takes a header and its data, any other nothing.
LEMMA RegionImageFacts ==
  ASSUME NEW m \in Memories, NEW r \in 1 .. N
  PROVE  /\ RegionImage(m, r) \in Seq(UnitSet) /\ Len(RegionImage(m, r)) = PartLen(r)
         /\ r \in Saved => /\ RegionImage(m, r)[1] = Header(r)
                           /\ \A i \in 1 .. Layout[r].size :
                                RegionImage(m, r)[1 + i] = Unit("data", r, i, PageOf(m, r))
<1>1. CASE r \notin Saved
  BY <1>1 DEF RegionImage, PartLen
<1>2. CASE r \in Saved
  <2> DEFINE a == <<Header(r)>>
             b == [i \in 1 .. Layout[r].size |-> Unit("data", r, i, PageOf(m, r))]
  <2>0. Layout[r].size \in Nat /\ r \in 0 .. N
    BY LayoutFacts
  <2>1. PageOf(m, r) \in Vals
    BY <1>2 DEF PageOf, Vals, Memories
  <2>2. a \in Seq(UnitSet) /\ Len(a) = 1 /\ a[1] = Header(r)
    BY <1>2, UnitFacts
  <2>3. b \in Seq(UnitSet) /\ Len(b) = Layout[r].size
        /\ \A i \in 1 .. Layout[r].size : b[i] = Unit("data", r, i, PageOf(m, r))
    <3>1. \A i \in 1 .. Layout[r].size : Unit("data", r, i, PageOf(m, r)) \in UnitSet
      BY <2>0, <2>1, UnitFacts
    <3> QED
      BY <2>0, <3>1
  <2>4. RegionImage(m, r) = a \o b
    BY <1>2 DEF RegionImage, PageOf
  <2> HIDE DEF a, b
  <2>5. /\ a \o b \in Seq(UnitSet) /\ Len(a \o b) = 1 + Layout[r].size
        /\ (a \o b)[1] = Header(r)
        /\ \A i \in 1 .. Layout[r].size : (a \o b)[1 + i] = b[i]
    <3>1. a \o b \in Seq(UnitSet) /\ Joined(a \o b, a, b)
      BY <2>2, <2>3, InJoin
    <3>2. 1 \in 1 .. Len(a)
      BY <2>2
    <3> QED
      BY <2>2, <2>3, <3>1, <3>2 DEF Joined
  <2> QED
    BY <1>2, <2>3, <2>4, <2>5 DEF PartLen
<1> QED
  BY <1>1, <1>2

\* Where each unit of an image is.
Lies(s, m) ==
  /\ s \in Seq(UnitSet) /\ Len(s) = Offset[N] + ContextSize
  /\ \A r \in Saved :
       /\ s[Offset[r - 1] + 1] = Header(r)
       /\ \A i \in 1 .. Layout[r].size :
            s[Offset[r - 1] + 1 + i] = Unit("data", r, i, PageOf(m, r))
  /\ \A i \in 1 .. ContextSize : s[Offset[N] + i] = Context[i]

\* A complete image: each header, the data and the registers at their offsets.
LEMMA ImageFacts ==
  ASSUME NEW m \in Memories
  PROVE  Lies(ImageOf(m), m)
<1>0. N \in Nat \ {0} /\ Regions = 1 .. N /\ Saved \subseteq 1 .. N /\ ContextSize \in Nat \ {0}
  BY LayoutFacts
<1> DEFINE s == [r \in 1 .. N |-> RegionImage(m, r)]
           a == FlattenSeq(s)
<1>1. s \in [1 .. N -> Seq(UnitSet)] /\ \A r \in 1 .. N : s[r] = RegionImage(m, r)
  BY RegionImageFacts
<1>2. ImageOf(m) = a \o Context
  BY <1>0 DEF ImageOf
<1> HIDE DEF s
<1>3. a \in Seq(UnitSet) /\ \E B \in [0 .. N -> Nat] : Ends(B, s, N)
  BY <1>0, <1>1, FlattenPlaces
<1>4. PICK B \in [0 .. N -> Nat] : Ends(B, s, N)
  BY <1>3
<1>5. \A r \in 0 .. N : B[r] = Offset[r]
  <2>1. IsOffset(B)
    BY <1>1, <1>4, RegionImageFacts DEF IsOffset, Ends
  <2> QED
    BY <2>1, OffsetUnique
<1>6. Len(a) = Offset[N] /\ Offset[N] \in Nat
  BY <1>0, <1>4, <1>5, OffsetSteps DEF Ends
<1>7. ASSUME NEW r \in Saved
      PROVE  /\ Offset[r - 1] + 1 \in 1 .. Len(a) /\ a[Offset[r - 1] + 1] = Header(r)
             /\ \A i \in 1 .. Layout[r].size :
                  /\ Offset[r - 1] + 1 + i \in 1 .. Len(a)
                  /\ a[Offset[r - 1] + 1 + i] = Unit("data", r, i, PageOf(m, r))
  <2>0. r \in Saved /\ r \in 1 .. N
    BY <1>0, <1>7
  <2>1. r \in 1 .. N /\ r - 1 \in 0 .. N /\ Layout[r].size \in Nat
        /\ Offset[r - 1] \in Nat
    BY <1>0, <2>0, LayoutFacts, OffsetSteps, SMTT(30)
  <2>2. s[r] = RegionImage(m, r) /\ Len(s[r]) = 1 + Layout[r].size
    BY <1>1, <2>1, RegionImageFacts DEF PartLen
  <2>3. \A j \in 1 .. 1 + Layout[r].size :
          Offset[r - 1] + j \in 1 .. Len(a) /\ a[Offset[r - 1] + j] = s[r][j]
    BY <1>4, <1>5, <2>1, <2>2 DEF Ends
  <2>4. 1 \in 1 .. 1 + Layout[r].size
    BY <2>1
  <2>5. Offset[r - 1] + 1 \in 1 .. Len(a) /\ a[Offset[r - 1] + 1] = Header(r)
    BY <2>1, <2>2, <2>3, <2>4, RegionImageFacts
  <2>6. ASSUME NEW i \in 1 .. Layout[r].size
        PROVE  /\ Offset[r - 1] + 1 + i \in 1 .. Len(a)
               /\ a[Offset[r - 1] + 1 + i] = Unit("data", r, i, PageOf(m, r))
    <3>1. 1 + i \in 1 .. 1 + Layout[r].size /\ Offset[r - 1] + (1 + i) = Offset[r - 1] + 1 + i
      BY <2>1
    <3>2. s[r][1 + i] = Unit("data", r, i, PageOf(m, r))
      BY <2>1, <2>2, RegionImageFacts
    <3> QED
      BY <2>3, <3>1, <3>2
  <2> QED
    BY <2>5, <2>6
<1> HIDE DEF a
<1>8. /\ a \o Context \in Seq(UnitSet) /\ Len(a \o Context) = Offset[N] + ContextSize
      /\ \A p \in 1 .. Len(a) : (a \o Context)[p] = a[p]
      /\ \A i \in 1 .. ContextSize : (a \o Context)[Offset[N] + i] = Context[i]
  <2>1. a \o Context \in Seq(UnitSet) /\ Joined(a \o Context, a, Context)
    BY <1>3, UnitFacts, InJoin
  <2> QED
    BY <1>6, <2>1, UnitFacts DEF Joined
<1> QED
  BY <1>2, <1>7, <1>8 DEF Lies

------------------------------------------------------------------------------
(* Pieces of sequences.                                                    *)

\* What SubSeq returns.
LEMMA SubSeqFacts ==
  ASSUME NEW S, NEW s \in Seq(S), NEW a \in Nat \ {0}, NEW b \in 0 .. Len(s), a <= b + 1
  PROVE  /\ SubSeq(s, a, b) \in Seq(S) /\ Len(SubSeq(s, a, b)) = b - a + 1
         /\ \A i \in 1 .. b - a + 1 : SubSeq(s, a, b)[i] = s[a + i - 1]
OBVIOUS

\* What Patched makes of the units u from k on, with c written there.
Writes(w, u, k, c) ==
  /\ k + Len(c) <= Len(w) /\ Len(u) <= Len(w)
  /\ k = Len(u) => Len(w) = k + Len(c)
  /\ \A p \in 1 .. Len(w) : \/ p - k \in 1 .. Len(c) /\ w[p] = c[p - k]
                            \/ p - k \notin 1 .. Len(c) /\ p \in 1 .. Len(u) /\ w[p] = u[p]

\* Patched puts a chunk at an offset that exists already, and leaves the rest.
LEMMA WritesFacts ==
  ASSUME NEW S, NEW u \in Seq(S), NEW c \in Seq(S), NEW k \in 0 .. Len(u)
  PROVE  LET w == SubSeq(u, 1, k) \o c \o SubSeq(u, k + Len(c) + 1, Len(u))
         IN  w \in Seq(S) /\ Writes(w, u, k, c)
<1> DEFINE a == SubSeq(u, 1, k)
           b == SubSeq(u, k + Len(c) + 1, Len(u))
           ac == a \o c
<1>0. k \in Nat /\ Len(u) \in Nat /\ Len(c) \in Nat
  OBVIOUS
<1>1. a \in Seq(S) /\ Len(a) = k /\ \A i \in 1 .. k : a[i] = u[i]
  OBVIOUS
<1>2. b \in Seq(S)
  OBVIOUS
<1>3. CASE k + Len(c) <= Len(u)
  <2>1. Len(b) = Len(u) - (k + Len(c)) /\ \A i \in 1 .. Len(b) : b[i] = u[k + Len(c) + i]
    BY <1>3
  <2> HIDE DEF a, b
  <2>2. ac \in Seq(S) /\ Joined(ac, a, c)
    BY <1>1, InJoin
  <2> HIDE DEF ac
  <2>3. ac \o b \in Seq(S) /\ Joined(ac \o b, ac, b)
    BY <1>2, <2>2, InJoin
  <2> DEFINE w == ac \o b
  <2> HIDE DEF w
  <2>4. Joined(w, ac, b) /\ w \in Seq(S)
    BY <2>3 DEF w
  <2>5. Len(ac) = k + Len(c) /\ Len(w) = Len(u)
    BY <1>0, <1>1, <2>1, <2>2, <2>4 DEF Joined
  <2>6. ASSUME NEW p \in 1 .. Len(w)
        PROVE  \/ p - k \in 1 .. Len(c) /\ w[p] = c[p - k]
               \/ p - k \notin 1 .. Len(c) /\ p \in 1 .. Len(u) /\ w[p] = u[p]
    <3>1. CASE p <= k
      <4>1. p \in 1 .. Len(a) /\ p \in 1 .. Len(ac)
        BY <1>0, <1>1, <2>5, <3>1
      <4>2. w[p] = ac[p] /\ ac[p] = a[p] /\ a[p] = u[p]
        BY <1>1, <2>2, <2>4, <4>1 DEF Joined
      <4>3. p - k \notin 1 .. Len(c) /\ p \in 1 .. Len(u)
        BY <1>0, <3>1, <1>3
      <4> QED
        BY <4>2, <4>3
    <3>2. CASE p > k /\ p <= k + Len(c)
      <4>1. p - k \in 1 .. Len(c) /\ p = Len(a) + (p - k) /\ p \in 1 .. Len(ac)
        BY <1>0, <1>1, <2>5, <3>2
      <4>2. w[p] = ac[p] /\ ac[Len(a) + (p - k)] = c[p - k]
        BY <2>2, <2>4, <4>1 DEF Joined
      <4> QED
        BY <4>1, <4>2
    <3>3. CASE p > k + Len(c)
      <4> DEFINE i == p - Len(ac)
      <4>1. i \in 1 .. Len(b) /\ Len(ac) + i = p /\ k + Len(c) + i = p
        BY <1>0, <2>1, <2>5, <3>3
      <4> HIDE DEF i
      <4>2. w[p] = b[i] /\ b[i] = u[p]
        BY <2>1, <2>4, <4>1 DEF Joined
      <4>3. p - k \notin 1 .. Len(c) /\ p \in 1 .. Len(u)
        BY <1>0, <2>5, <3>3
      <4> QED
        BY <4>2, <4>3
    <3> QED
      BY <1>0, <3>1, <3>2, <3>3
  <2>7. Writes(w, u, k, c)
    BY <1>0, <1>3, <2>5, <2>6 DEF Writes
  <2> QED
    BY <2>4, <2>7 DEF w, ac, a, b
<1>4. CASE k + Len(c) > Len(u)
  <2>1. b = <<>>
    BY <1>4
  <2> HIDE DEF a, b
  <2>2. ac \in Seq(S) /\ Joined(ac, a, c)
    BY <1>1, InJoin
  <2> HIDE DEF ac
  <2>3. ac \o b = ac
    BY <2>1, <2>2
  <2>4. Len(ac) = k + Len(c)
    BY <1>1, <2>2 DEF Joined
  <2>5. ASSUME NEW p \in 1 .. Len(ac)
        PROVE  \/ p - k \in 1 .. Len(c) /\ ac[p] = c[p - k]
               \/ p - k \notin 1 .. Len(c) /\ p \in 1 .. Len(u) /\ ac[p] = u[p]
    <3>1. CASE p <= k
      <4>1. p \in 1 .. Len(a) /\ p - k \notin 1 .. Len(c) /\ p \in 1 .. Len(u)
        BY <1>0, <1>1, <3>1
      <4> QED
        BY <1>1, <2>2, <4>1 DEF Joined
    <3>2. CASE p > k
      <4>1. p - k \in 1 .. Len(c) /\ p = Len(a) + (p - k)
        BY <1>0, <1>1, <2>4, <3>2
      <4>2. ac[Len(a) + (p - k)] = c[p - k]
        BY <2>2, <4>1 DEF Joined
      <4> QED
        BY <4>1, <4>2
    <3> QED
      BY <1>0, <3>1, <3>2
  <2>6. Writes(ac, u, k, c)
    BY <1>0, <1>4, <2>4, <2>5 DEF Writes
  <2> QED
    BY <2>2, <2>3, <2>6 DEF ac, a, b
<1> QED
  BY <1>0, <1>3, <1>4

------------------------------------------------------------------------------
(* The invariant.                                                          *)

\* The types of the variables.
Types ==
  /\ memory \in [Regions -> Vals]
  /\ image \in [there : BOOLEAN, units : Seq(UnitSet)]
  /\ pc \in {"run", "maps", "header", "data", "reset", "test", "context",
             "r_header", "r_data", "r_context", "dead", "wild"}
  /\ armed \in BOOLEAN /\ fd \in BOOLEAN /\ off \in BOOLEAN
  /\ region \in 0 .. N /\ at \in Nat /\ done \in 0 .. at /\ retry \in Nat

\* What belongs at a place p of an image, whatever memory it is of.
Pages(r) == IF r = Stack THEN {"restart"} ELSE Values
BelongsAt(p, u) ==
  \/ \E r \in Saved : p = Offset[r - 1] + 1 /\ u = Header(r)
  \/ \E r \in Saved : \E i \in 1 .. Layout[r].size : \E v \in Pages(r) :
       p = Offset[r - 1] + 1 + i /\ u = Unit("data", r, i, v)
  \/ \E i \in 1 .. ContextSize : p = Offset[N] + i /\ u = Context[i]
UnitsInPlace == \A p \in 1 .. Len(Units) : BelongsAt(p, Units[p])

\* The handler writes at the place of the region it is at, or of the registers.
WriterInPlace ==
  /\ pc \in {"run", "maps", "dead", "wild"} => at = 0 /\ done = 0
  /\ pc = "header" => region \in Saved /\ done = 0 /\ at = Offset[region - 1]
  /\ pc = "data" => region \in Saved /\ at = Offset[region - 1] + 1 + done
     /\ done < Layout[region].size
  /\ pc = "reset" \/ (pc = "test" /\ armed) => at = Offset[N] /\ done = 0
  /\ pc = "context" => at = Offset[N] + done /\ done < ContextSize
  /\ Program /\ armed => at <= Len(Units)
\* The memory is whole while the handler saves it, with `restart' set.
WriterMemory ==
  /\ Program /\ armed => \A r \in Saved \ {Stack} : memory[r] \in Values
  /\ pc \in {"maps", "header", "data"} => memory[Stack] = "restart"
\* A restored process finds `restart' set.
Restored ==
  /\ pc \in {"maps", "header", "data", "reset", "context"} => armed
  /\ pc = "test" /\ ~ armed => memory[Stack] = "restart"
  /\ ~ Program => ~ armed

\* The reader is where the region it is at says, as long as read_already is the
\* offset; with the stack it has read `restart', and behind it are the registers.
StackRead(q) == Stack <= q => memory[Stack] = "restart"
ReaderInPlace ==
  /\ pc = "r_header" => done = 0
  /\ pc = "r_data" => region \in Saved /\ done < Layout[region].size
  /\ pc = "r_context" => done < ContextSize
  /\ off => pc \in {"r_header", "r_data"}
  /\ pc = "r_header" /\ ~ off => /\ Len(Units) - at # ContextSize
                                 /\ \E q \in 0 .. N : at = Offset[q] /\ StackRead(q)
  /\ pc = "r_data" /\ ~ off => at = Offset[region - 1] + 1 + done /\ StackRead(region - 1)
  /\ pc = "r_context" => /\ Len(Units) - (at - done) = ContextSize
                         /\ \E q \in 0 .. N : at - done = Offset[q] /\ StackRead(q)

Inv == Types /\ UnitsInPlace /\ WriterInPlace /\ WriterMemory /\ Restored /\ ReaderInPlace


\* A place belongs to one unit.
LEMMA OnePlace ==
  ASSUME NEW r \in Saved, NEW q \in Saved, NEW i \in 0 .. Layout[r].size,
         NEW j \in 0 .. Layout[q].size,
         Offset[r - 1] + 1 + i = Offset[q - 1] + 1 + j
  PROVE  r = q /\ i = j
<1>1. r \in 1 .. N /\ q \in 1 .. N /\ r \in 0 .. N /\ q \in 0 .. N /\ N \in Nat
  BY LayoutFacts
<1>2. /\ Offset[r] = Offset[r - 1] + 1 + Layout[r].size
      /\ Offset[r - 1] \in Nat /\ Layout[r].size \in Nat
  BY OffsetOrder
<1>3. /\ Offset[q] = Offset[q - 1] + 1 + Layout[q].size
      /\ Offset[q - 1] \in Nat /\ Layout[q].size \in Nat
  BY OffsetOrder
<1>4. r < q => Offset[r] <= Offset[q - 1]
  BY <1>1, OffsetOrder
<1>5. q < r => Offset[q] <= Offset[r - 1]
  BY <1>1, OffsetOrder
<1>6. r = q
  BY <1>1, <1>2, <1>3, <1>4, <1>5
<1> QED
  BY <1>2, <1>6

\* The headers and data lie before the registers.
LEMMA BeforeRegisters ==
  ASSUME NEW r \in Saved, NEW i \in 0 .. Layout[r].size
  PROVE  Offset[r - 1] + 1 + i <= Offset[N] /\ Offset[N] \in Nat
<1>1. N \in 0 .. N /\ r <= N
  BY LayoutFacts
<1>2. Offset[r] <= Offset[N] /\ Offset[r] = Offset[r - 1] + 1 + Layout[r].size
      /\ Offset[r - 1] \in Nat /\ Layout[r].size \in Nat /\ Offset[N] \in Nat
  BY <1>1, OffsetOrder, OffsetSteps
<1> QED
  BY <1>2

\* Nothing but the header of a region belongs where it begins.
LEMMA HeaderBelongs ==
  ASSUME NEW r \in Saved, NEW u, BelongsAt(Offset[r - 1] + 1, u)
  PROVE  u = Header(r)
<1>0. 0 \in 0 .. Layout[r].size /\ Offset[r - 1] \in Nat /\ Offset[N] \in Nat
  BY LayoutFacts, OffsetOrder, BeforeRegisters
<1>1. ASSUME NEW q \in Saved, Offset[r - 1] + 1 = Offset[q - 1] + 1, u = Header(q)
      PROVE  u = Header(r)
  <2>1. 0 \in 0 .. Layout[q].size /\ Offset[q - 1] \in Nat
    BY LayoutFacts, OffsetOrder
  <2>2. Offset[r - 1] + 1 + 0 = Offset[q - 1] + 1 + 0
    BY <1>0, <1>1, <2>1
  <2> QED
    BY <1>0, <1>1, <2>1, <2>2, OnePlace
<1>2. ASSUME NEW q \in Saved, NEW i \in 1 .. Layout[q].size,
             Offset[r - 1] + 1 = Offset[q - 1] + 1 + i
      PROVE  FALSE
  <2>1. i \in 0 .. Layout[q].size /\ i # 0
    BY LayoutFacts
  <2>2. Offset[r - 1] + 1 + 0 = Offset[q - 1] + 1 + i
    BY <1>0, <1>2
  <2> QED
    BY <1>0, <2>1, <2>2, OnePlace
<1>3. ASSUME NEW i \in 1 .. ContextSize, Offset[r - 1] + 1 = Offset[N] + i PROVE FALSE
  <2>1. Offset[r - 1] + 1 + 0 <= Offset[N]
    BY <1>0, BeforeRegisters
  <2> QED
    BY <1>0, <1>3, <2>1, LayoutFacts
<1> QED
  BY <1>1, <1>2, <1>3 DEF BelongsAt

\* Nothing but data of this region belongs behind its header.
LEMMA DataBelongs ==
  ASSUME NEW r \in Saved, NEW i \in 1 .. Layout[r].size, NEW u,
         BelongsAt(Offset[r - 1] + 1 + i, u)
  PROVE  \E v \in Pages(r) : u = Unit("data", r, i, v)
<1>0. i \in 0 .. Layout[r].size /\ i # 0 /\ Offset[r - 1] \in Nat /\ Offset[N] \in Nat
  BY LayoutFacts, OffsetOrder, BeforeRegisters
<1>1. ASSUME NEW q \in Saved, Offset[r - 1] + 1 + i = Offset[q - 1] + 1 PROVE FALSE
  <2>1. 0 \in 0 .. Layout[q].size /\ Offset[q - 1] \in Nat
    BY LayoutFacts, OffsetOrder, SMTT(30)
  <2>2. Offset[r - 1] + 1 + i = Offset[q - 1] + 1 + 0
    BY <1>0, <1>1, <2>1
  <2> QED
    BY <1>0, <1>1, <2>1, <2>2, OnePlace
<1>2. ASSUME NEW q \in Saved, NEW j \in 1 .. Layout[q].size, NEW v \in Pages(q),
             Offset[r - 1] + 1 + i = Offset[q - 1] + 1 + j, u = Unit("data", q, j, v)
      PROVE  \E w \in Pages(r) : u = Unit("data", r, i, w)
  <2>1. j \in 0 .. Layout[q].size
    BY LayoutFacts
  <2>2. r = q /\ i = j
    BY <1>0, <1>2, <2>1, OnePlace
  <2> QED
    BY <1>2, <2>2
<1>3. ASSUME NEW j \in 1 .. ContextSize, Offset[r - 1] + 1 + i = Offset[N] + j PROVE FALSE
  <2>1. Offset[r - 1] + 1 + i <= Offset[N]
    BY <1>0, BeforeRegisters
  <2> QED
    BY <1>0, <1>3, <2>1, LayoutFacts
<1> QED
  BY <1>1, <1>2, <1>3 DEF BelongsAt

\* Nothing but the registers belongs behind the last region.
LEMMA ContextBelongs ==
  ASSUME NEW i \in 1 .. ContextSize, NEW u, BelongsAt(Offset[N] + i, u)
  PROVE  u = Context[i]
<1>0. Offset[N] \in Nat /\ ContextSize \in Nat
  BY LayoutFacts, BeforeRegisters
<1>1. ASSUME NEW q \in Saved, Offset[N] + i = Offset[q - 1] + 1 PROVE FALSE
  <2>1. 0 \in 0 .. Layout[q].size /\ Offset[q - 1] \in Nat
    BY LayoutFacts, OffsetOrder
  <2>2. Offset[q - 1] + 1 + 0 <= Offset[N]
    BY <2>1, BeforeRegisters
  <2> QED
    BY <1>0, <1>1, <2>1, <2>2
<1>2. ASSUME NEW q \in Saved, NEW j \in 1 .. Layout[q].size,
             Offset[N] + i = Offset[q - 1] + 1 + j
      PROVE  FALSE
  <2>1. j \in 0 .. Layout[q].size /\ Offset[q - 1] \in Nat
    BY LayoutFacts, OffsetOrder
  <2>2. Offset[q - 1] + 1 + j <= Offset[N]
    BY <2>1, BeforeRegisters
  <2> QED
    BY <1>0, <1>2, <2>1, <2>2
<1>3. ASSUME NEW j \in 1 .. ContextSize, Offset[N] + i = Offset[N] + j PROVE i = j
  BY <1>0, <1>3
<1> QED
  BY <1>1, <1>2, <1>3 DEF BelongsAt

------------------------------------------------------------------------------
(* The steps.                                                              *)

\* A unit says what it is and of which region.
LEMMA UnitFields ==
  /\ \A r : Header(r).what = "header" /\ Header(r).region = r
  /\ \A r, i, v : /\ Unit("data", r, i, v).what = "data" /\ Unit("data", r, i, v).region = r
                  /\ Unit("data", r, i, v).val = v
  /\ \A i \in 1 .. ContextSize : Context[i].what = "context" /\ Context[i].index = i
<1>1. \A i \in 1 .. ContextSize : Context[i] = Unit("context", 0, i, "none")
  BY UnitFacts
<1>2. \A i : Unit("context", 0, i, "none").what = "context"
        /\ Unit("context", 0, i, "none").index = i
  BY DEF Unit
<1> QED
  BY <1>1, <1>2 DEF Header, Unit

\* What is left of a header, a region or the registers is at least one unit.
LEMMA LeftFacts ==
  ASSUME Inv
  PROVE  /\ pc \in {"header", "r_header"} => Left = 1 /\ done = 0
         /\ pc \in {"data", "r_data"} =>
              region \in Saved /\ Left = Layout[region].size - done /\ Left \in Nat \ {0}
         /\ pc \in {"context", "r_context"} => Left = ContextSize - done /\ Left \in Nat \ {0}
         /\ at \in Nat /\ done \in Nat /\ done <= at
<1>1. at \in Nat /\ done \in Nat /\ done <= at /\ ContextSize \in Nat /\ Saved \subseteq 1 .. N
      /\ \A r \in 1 .. N : Layout[r].size \in Nat
  BY LayoutFacts DEF Inv, Types
<1>2. ASSUME pc \in {"header", "r_header"} PROVE Left = 1 /\ done = 0
  <2>1. Wanted = 1
    BY <1>2 DEF Wanted, Chunk
  <2>2. done = 0
    BY <1>2 DEF Inv, WriterInPlace, ReaderInPlace
  <2> QED
    BY <2>1, <2>2 DEF Left
<1>3. ASSUME pc \in {"data", "r_data"}
      PROVE  region \in Saved /\ Left = Layout[region].size - done /\ Left \in Nat \ {0}
  <2>1. Wanted = Layout[region].size
    BY <1>3 DEF Wanted
  <2>2. region \in Saved /\ done < Layout[region].size
    BY <1>3 DEF Inv, WriterInPlace, ReaderInPlace
  <2>3. Layout[region].size \in Nat
    BY <1>1, <2>2
  <2> QED
    BY <1>1, <2>1, <2>2, <2>3 DEF Left
<1>4. ASSUME pc \in {"context", "r_context"}
      PROVE  Left = ContextSize - done /\ Left \in Nat \ {0}
  <2>1. Wanted = ContextSize
    BY <1>4, UnitFacts DEF Wanted, Chunk
  <2>2. done < ContextSize
    BY <1>4 DEF Inv, WriterInPlace, ReaderInPlace
  <2> QED
    BY <1>1, <2>1, <2>2 DEF Left
<1> QED
  BY <1>1, <1>2, <1>3, <1>4

\* Where the process ends, only the image is left.
LEMMA StopsKeeps ==
  ASSUME Inv, NEW how \in {"dead", "wild"}, Stops(how),
         image' \in [there : BOOLEAN, units : Seq(UnitSet)], UnitsInPlace'
  PROVE  Inv'
<1>1. /\ pc' \in {"dead", "wild"} /\ armed' = FALSE /\ fd' = FALSE /\ off' = FALSE
      /\ region' = 0 /\ at' = 0 /\ done' = 0 /\ retry' = 0
      /\ memory' = [r \in Regions |-> "unmapped"]
  BY DEF Stops
<1>2. memory' \in [Regions -> Vals]
  BY <1>1 DEF Vals
<1>3. Types'
  <2>1. region' \in 0 .. N /\ at' \in Nat /\ done' \in 0 .. at' /\ retry' \in Nat
    BY <1>1, RegionNumbers
  <2> QED
    BY <1>1, <1>2, <2>1 DEF Types
<1>4. WriterInPlace' /\ WriterMemory' /\ Restored' /\ ReaderInPlace'
  BY <1>1 DEF WriterInPlace, WriterMemory, Restored, ReaderInPlace, Program
<1> QED
  BY <1>3, <1>4 DEF Inv

\* Where the process ends and leaves the image alone.
LEMMA StopsAlone ==
  ASSUME Inv, NEW how \in {"dead", "wild"}, Stops(how), UNCHANGED image
  PROVE  Inv'
<1>1. image' \in [there : BOOLEAN, units : Seq(UnitSet)] /\ UnitsInPlace'
  BY DEF Inv, Types, UnitsInPlace, Units
<1> QED
  BY <1>1, StopsKeeps

\* Where the image is left alone.
LEMMA ImageSame ==
  ASSUME Inv, UNCHANGED image
  PROVE  /\ image' \in [there : BOOLEAN, units : Seq(UnitSet)] /\ UnitsInPlace'
         /\ Units' = Units
         /\ Units \in Seq(UnitSet) /\ Len(Units) \in Nat
BY DEF Inv, Types, UnitsInPlace, Units

\* The invariant holds when the program starts.
LEMMA InitInv == Init => Inv
<1> SUFFICES ASSUME Init PROVE Inv
  OBVIOUS
<1>1. /\ image = [there |-> FALSE, units |-> <<>>]
      /\ pc = "run" /\ armed = TRUE /\ fd = FALSE
      /\ region = 0 /\ at = 0 /\ done = 0 /\ retry = 0 /\ off = FALSE
      /\ memory \in [Regions -> Values \cup {"clear", "unmapped"}]
  BY DEF Init
<1>2. memory \in [Regions -> Vals]
  BY <1>1 DEF Vals
<1>3. Types
  <2>1. region \in 0 .. N /\ at \in Nat /\ done \in 0 .. at /\ retry \in Nat
    BY <1>1, RegionNumbers
  <2>2. image \in [there : BOOLEAN, units : Seq(UnitSet)]
    BY <1>1
  <2> QED
    BY <1>1, <1>2, <2>1, <2>2 DEF Types
<1>4. UnitsInPlace
  BY <1>1 DEF UnitsInPlace, Units
<1>5. WriterInPlace /\ Restored /\ ReaderInPlace
  BY <1>1 DEF WriterInPlace, Restored, ReaderInPlace, Program, Units
<1>6. WriterMemory
  <2> SUFFICES ASSUME NEW r \in Saved \ {Stack} PROVE memory[r] \in Values
    BY <1>1 DEF WriterMemory
  <2>1. r \in Regions
    BY DEF Saved
  <2>2. memory[r] \in CASE r = Stack -> {"clear"}
                       [] r \notin Saved -> {"unmapped"}
                       [] OTHER -> Values
    BY <2>1 DEF Init
  <2> QED
    BY <2>2
<1> QED
  BY <1>3, <1>4, <1>5, <1>6 DEF Inv

\* The program writes to a region other than the stack.
LEMMA WorkKeeps ==
  ASSUME Inv, NEW r \in Regions, NEW v \in Values, Work(r, v)
  PROVE  Inv'
<1>1. /\ pc = "run" /\ r \in Saved \ {Stack} /\ memory' = [memory EXCEPT ![r] = v]
      /\ UNCHANGED <<image, pc, armed, fd, off>> /\ UNCHANGED <<region, at, done, retry>>
  BY DEF Work, place
<1>2. memory \in [Regions -> Vals] /\ v \in Vals
  BY DEF Inv, Types, Vals
<1>3. memory' \in [Regions -> Vals] /\ memory'[r] = v
        /\ \A q \in Regions \ {r} : memory'[q] = memory[q]
  BY <1>1, <1>2
<1>4. image' \in [there : BOOLEAN, units : Seq(UnitSet)] /\ UnitsInPlace' /\ Units' = Units
  BY <1>1, ImageSame
<1>5. Types'
  BY <1>1, <1>3, <1>4 DEF Inv, Types
<1>6. WriterInPlace' /\ Restored' /\ ReaderInPlace'
  BY <1>1, <1>4 DEF Inv, WriterInPlace, Restored, ReaderInPlace, Program
<1>7. WriterMemory'
  <2>1. ASSUME armed, NEW q \in Saved \ {Stack} PROVE memory'[q] \in Values
    <3>1. q \in Regions /\ memory[q] \in Values
      BY <1>1, <2>1 DEF Inv, WriterMemory, Program, Saved
    <3> QED
      BY <1>3, <3>1
  <2> QED
    BY <1>1, <2>1 DEF WriterMemory
<1> QED
  BY <1>4, <1>5, <1>6, <1>7 DEF Inv

\* The handler opens the image, or fails to, and sets `restart'.
LEMMA SigHandlerKeeps ==
  ASSUME Inv, SigHandler
  PROVE  Inv'
<1>1. /\ pc = "run" /\ armed /\ pc' = "maps" /\ memory' = [memory EXCEPT ![Stack] = "restart"]
      /\ fd' \in BOOLEAN /\ image' = [image EXCEPT !.there = @ \/ fd']
      /\ UNCHANGED <<armed, off>> /\ UNCHANGED <<region, at, done, retry>>
  BY DEF SigHandler, place, FlagSaved, Opens
<1>2. memory \in [Regions -> Vals] /\ "restart" \in Vals /\ Stack \in Regions
      /\ image \in [there : BOOLEAN, units : Seq(UnitSet)]
  BY LayoutFacts DEF Inv, Types, Vals
<1>3. memory' \in [Regions -> Vals] /\ memory'[Stack] = "restart"
      /\ \A q \in Regions \ {Stack} : memory'[q] = memory[q]
  BY <1>1, <1>2
<1>4. image' \in [there : BOOLEAN, units : Seq(UnitSet)] /\ Units' = Units
  BY <1>1, <1>2 DEF Units
<1>5. UnitsInPlace'
  BY <1>4 DEF Inv, UnitsInPlace
<1>6. Types'
  BY <1>1, <1>3, <1>4 DEF Inv, Types
<1>7. WriterInPlace' /\ Restored' /\ ReaderInPlace'
  BY <1>1, <1>4 DEF Inv, WriterInPlace, Restored, ReaderInPlace, Program
<1>8. WriterMemory'
  <2>1. ASSUME NEW q \in Saved \ {Stack} PROVE memory'[q] \in Values
    <3>1. q \in Regions /\ memory[q] \in Values
      BY <1>1 DEF Inv, WriterMemory, Program, Saved
    <3> QED
      BY <1>3, <3>1
  <2> QED
    BY <1>1, <1>3, <2>1 DEF WriterMemory
<1> QED
  BY <1>5, <1>6, <1>7, <1>8 DEF Inv

\* The next region that is saved lies where the one before it ends.
LEMMA NextSavedFacts ==
  ASSUME NEW r \in 0 .. N, \E k \in Saved : r < k
  PROVE  /\ NextSaved(r) \in Saved /\ NextSaved(r) > r
         /\ Offset[NextSaved(r) - 1] = Offset[r]
<1> DEFINE After == {k \in Saved : r < k}
<1>1. Saved \subseteq 1 .. N /\ N \in Nat
  BY LayoutFacts
<1>2. PICK n \in After : \A k \in After : n <= k
  <2>1. After \in SUBSET Nat /\ After # {}
    <3>1. PICK k \in Saved : r < k
      OBVIOUS
    <3>2. k \in After
      BY <3>1
    <3>3. Saved \subseteq Nat
      BY <1>1
    <3> QED
      BY <3>2, <3>3
  <2> HIDE DEF After
  <2> QED
    BY <2>1, LeastNumber
<1>3. \E n2 \in Saved : n2 > r /\ \A k \in Saved : k > r => n2 <= k
  BY <1>1, <1>2
<1>4. NextSaved(r) \in Saved /\ NextSaved(r) > r /\ \A k \in Saved : k > r => NextSaved(r) <= k
  BY <1>3 DEF NextSaved
<1> DEFINE m == NextSaved(r)
<1> HIDE DEF m
<1>5. m \in 1 .. N /\ m > r /\ \A k \in Saved : k > r => m <= k
  BY <1>1, <1>4 DEF m
<1>6. m - 1 \in 0 .. N /\ r <= m - 1 /\ \A k \in r + 1 .. m - 1 : k \notin Saved
  BY <1>1, <1>5
<1>7. Offset[r] = Offset[m - 1]
  BY <1>6, OffsetSkips
<1> QED
  BY <1>4, <1>7 DEF m

\* In maps, a retry changes neither the offset nor what is through.
LEMMA ReadMapsKeeps ==
  ASSUME Inv, ReadMaps
  PROVE  Inv'
<1>1. pc = "maps" /\ UNCHANGED image
  BY DEF ReadMaps
<1>2. image' \in [there : BOOLEAN, units : Seq(UnitSet)] /\ UnitsInPlace' /\ Units' = Units
      /\ Len(Units) \in Nat
  BY <1>1, ImageSame
<1>3. at = 0 /\ done = 0 /\ armed /\ memory[Stack] = "restart" /\ at \in Nat /\ ~ off
  BY <1>1 DEF Inv, Types, WriterInPlace, WriterMemory, Restored, ReaderInPlace
<1>4. CASE Begin("header", NextSaved(0), 0) /\ UNCHANGED <<memory, armed, fd, off>>
  <2>1. NextSaved(0) \in Saved /\ Offset[NextSaved(0) - 1] = 0
    <3>1. 0 \in 0 .. N /\ \E k \in Saved : 0 < k
      BY LayoutFacts
    <3> QED
      BY <3>1, NextSavedFacts, OffsetSteps
  <2>2. /\ pc' = "header" /\ region' = NextSaved(0) /\ at' = 0 /\ done' = 0 /\ retry' = 0
        /\ UNCHANGED <<memory, armed, fd, off>>
    BY <1>3, <1>4 DEF Begin
  <2>3. region' \in Saved /\ region' \in 0 .. N /\ at' = Offset[region' - 1]
    BY <2>1, <2>2, RegionNumbers
  <2>4. Types'
    BY <1>2, <2>2, <2>3 DEF Inv, Types
  <2>5. WriterInPlace'
    BY <1>2, <2>2, <2>3 DEF WriterInPlace
  <2>6. WriterMemory' /\ Restored' /\ ReaderInPlace'
    BY <1>1, <1>3, <2>2 DEF Inv, WriterMemory, Restored, ReaderInPlace, Program
  <2> QED
    BY <1>2, <2>4, <2>5, <2>6 DEF Inv
<1>5. CASE Again(0)
  <2>1. CASE Stops("dead")
    BY <1>1, <2>1, StopsAlone
  <2>2. CASE /\ retry' = RetryAfter(0) /\ done' = done + 0 /\ at' = at + 0
             /\ UNCHANGED <<memory, pc, armed, fd, region, off>>
    <3>1. /\ retry' \in Nat /\ done' = done /\ at' = at
          /\ UNCHANGED <<memory, pc, armed, fd, region, off>>
      BY <1>3, <2>2 DEF RetryAfter, Inv, Types
    <3>2. Types'
      BY <1>2, <3>1 DEF Inv, Types
    <3>3. WriterInPlace' /\ WriterMemory' /\ Restored' /\ ReaderInPlace'
      BY <1>1, <1>2, <3>1 DEF Inv, WriterInPlace, WriterMemory, Restored, ReaderInPlace, Program
    <3> QED
      BY <1>2, <3>2, <3>3 DEF Inv
  <2> QED
    BY <1>5, <2>1, <2>2 DEF Again
<1> QED
  BY <1>4, <1>5 DEF ReadMaps

\* `restart' is cleared after the last region is written.
LEMMA GetContextKeeps ==
  ASSUME Inv, GetContext
  PROVE  Inv'
<1>1. /\ pc = "reset" /\ pc' = "test" /\ memory' = [memory EXCEPT ![Stack] = "clear"]
      /\ UNCHANGED <<image, armed, fd, off>> /\ UNCHANGED <<region, at, done, retry>>
  BY DEF GetContext, place
<1>2. memory \in [Regions -> Vals] /\ "clear" \in Vals /\ Stack \in Regions /\ armed
  BY <1>1, LayoutFacts DEF Inv, Types, Vals, Restored
<1>3. memory' \in [Regions -> Vals] /\ \A q \in Regions \ {Stack} : memory'[q] = memory[q]
  BY <1>1, <1>2
<1>4. image' \in [there : BOOLEAN, units : Seq(UnitSet)] /\ UnitsInPlace' /\ Units' = Units
  BY <1>1, ImageSame
<1>5. Types'
  BY <1>1, <1>3, <1>4 DEF Inv, Types
<1>6. WriterInPlace' /\ Restored' /\ ReaderInPlace'
  BY <1>1, <1>2, <1>4 DEF Inv, WriterInPlace, Restored, ReaderInPlace, Program
<1>7. WriterMemory'
  <2>1. ASSUME NEW q \in Saved \ {Stack} PROVE memory'[q] \in Values
    <3>1. q \in Regions /\ memory[q] \in Values
      BY <1>1, <1>2 DEF Inv, WriterMemory, Program, Saved
    <3> QED
      BY <1>3, <3>1
  <2> QED
    BY <1>1, <2>1 DEF WriterMemory
<1> QED
  BY <1>4, <1>5, <1>6, <1>7 DEF Inv

\* A restored process finds `restart' set and does not write its registers.
LEMMA TestRestartKeeps ==
  ASSUME Inv, TestRestart
  PROVE  Inv'
<1>1. pc = "test" /\ UNCHANGED <<memory, image, armed, off>>
  BY DEF TestRestart
<1>2. image' \in [there : BOOLEAN, units : Seq(UnitSet)] /\ UnitsInPlace' /\ Units' = Units
      /\ Len(Units) \in Nat
  BY <1>1, ImageSame
<1>3. CASE Resume
  <2>1. pc' = "run" /\ fd' = FALSE /\ region' = 0 /\ at' = 0 /\ done' = 0 /\ retry' = 0
    BY <1>3 DEF Resume
  <2>2. Types'
    <3>1. region' \in 0 .. N /\ at' \in Nat /\ done' \in 0 .. at' /\ retry' \in Nat
      BY <2>1, RegionNumbers
    <3> QED
      BY <1>1, <1>2, <2>1, <3>1 DEF Inv, Types
  <2>3. WriterInPlace' /\ WriterMemory' /\ Restored' /\ ReaderInPlace'
    BY <1>1, <1>2, <2>1 DEF Inv, WriterInPlace, WriterMemory, Restored, ReaderInPlace, Program
  <2> QED
    BY <1>2, <2>2, <2>3 DEF Inv
<1>4. CASE memory[Stack] # "restart" /\ pc' = "context" /\ UNCHANGED <<fd, place>>
  <2>1. armed /\ UNCHANGED <<region, at, done, retry>> /\ pc' = "context" /\ fd' = fd
    BY <1>1, <1>4 DEF Inv, Restored, place
  <2>2. at = Offset[N] /\ done = 0 /\ at \in Nat
    BY <1>1, <2>1 DEF Inv, WriterInPlace, Types
  <2>3. Types'
    BY <1>1, <1>2, <2>1 DEF Inv, Types
  <2>4. WriterInPlace'
    BY <1>1, <1>2, <2>1, <2>2, LayoutFacts DEF Inv, WriterInPlace, Program
  <2>5. WriterMemory' /\ Restored' /\ ReaderInPlace'
    BY <1>1, <1>2, <2>1 DEF Inv, WriterMemory, Restored, ReaderInPlace, Program
  <2> QED
    BY <1>2, <2>3, <2>4, <2>5 DEF Inv
<1> QED
  BY <1>3, <1>4 DEF TestRestart

\* The image is removed while nobody has it open.
LEMMA RemoveImageKeeps ==
  ASSUME Inv, RemoveImage
  PROVE  Inv'
<1>1. /\ pc \in {"run", "dead"} /\ image' = [there |-> FALSE, units |-> <<>>]
      /\ UNCHANGED <<memory, pc, armed, fd, off>> /\ UNCHANGED <<region, at, done, retry>>
  BY DEF RemoveImage, place
<1>2. image' \in [there : BOOLEAN, units : Seq(UnitSet)] /\ Units' = <<>>
  BY <1>1 DEF Units
<1>3. UnitsInPlace'
  BY <1>2 DEF UnitsInPlace
<1>4. Types'
  BY <1>1, <1>2 DEF Inv, Types
<1>5. WriterInPlace'
  BY <1>1, <1>2 DEF Inv, WriterInPlace, Program
<1>6. WriterMemory' /\ Restored' /\ ReaderInPlace'
  BY <1>1 DEF Inv, WriterMemory, Restored, ReaderInPlace, Program
<1> QED
  BY <1>3, <1>4, <1>5, <1>6 DEF Inv

\* What is written is what belongs there, and of the memory as it is.
RestRight(n) ==
  /\ Rest(n) \in Seq(UnitSet) /\ Len(Rest(n)) = n /\ at \in 0 .. Len(Units)
  /\ \A j \in 1 .. n : BelongsAt(at + j, Rest(n)[j])
  /\ \A j \in 1 .. n : Rest(n)[j].what = "data" => /\ Rest(n)[j].region \in Saved /\ pc = "data"
                                                  /\ Rest(n)[j].val = memory[Rest(n)[j].region]

\* Whatever part of a chunk is left, it belongs at the offset where it goes.
LEMMA RestBelongs ==
  ASSUME Inv, pc \in {"header", "data", "context"}, NEW n \in 0 .. Left
  PROVE  RestRight(n)
<1>0. /\ n \in Nat /\ at \in Nat /\ done \in Nat /\ Offset[N] \in Nat
      /\ n <= Left /\ armed /\ Units \in Seq(UnitSet)
  <2>1. Left \in Nat
    BY LeftFacts
  <2> QED
    BY <2>1, LeftFacts, BeforeRegisters, LayoutFacts, OffsetSteps, RegionNumbers
       DEF Inv, Restored, Types, Units
<1>1. at \in 0 .. Len(Units)
  BY <1>0 DEF Inv, WriterInPlace, Program
<1>2. CASE pc = "header"
  <2>1. /\ Chunk = <<Header(region)>> /\ region \in Saved /\ done = 0 /\ at = Offset[region - 1]
        /\ n \in 0 .. 1
    BY <1>2, LeftFacts DEF Chunk, Inv, WriterInPlace
  <2>2. Chunk \in Seq(UnitSet) /\ Len(Chunk) = 1 /\ Chunk[1] = Header(region)
    BY <2>1, UnitFacts
  <2>3. BelongsAt(at + 1, Header(region))
    BY <2>1 DEF BelongsAt
  <2>4. /\ Rest(n) \in Seq(UnitSet) /\ Len(Rest(n)) = n
        /\ \A j \in 1 .. n : Rest(n)[j] = Chunk[j] /\ j = 1
    <3>1. 1 \in Nat \ {0} /\ n \in 0 .. Len(Chunk) /\ 1 <= n + 1 /\ n - 1 + 1 = n
          /\ \A j \in 1 .. n : 1 + j - 1 = j /\ j = 1
      BY <2>1, <2>2
    <3>2. Rest(n) = SubSeq(Chunk, 1, n)
      BY <2>1 DEF Rest
    <3> QED
      BY <2>2, <3>1, <3>2, SubSeqFacts
  <2> QED
    BY <1>1, <2>2, <2>3, <2>4, UnitFields DEF RestRight
<1>3. CASE pc = "data"
  <2>1. /\ Chunk = Data(region) /\ region \in Saved /\ at = Offset[region - 1] + 1 + done
        /\ n <= Layout[region].size - done /\ done < Layout[region].size
        /\ Layout[region].size \in Nat /\ Offset[region - 1] \in Nat /\ region \in Regions
    BY <1>0, <1>3, LeftFacts, LayoutFacts, OffsetOrder DEF Chunk, Inv, WriterInPlace
  <2>2. memory[region] \in Pages(region) /\ memory[region] \in Vals
    BY <1>0, <1>3, <2>1 DEF Inv, WriterMemory, Program, Pages, Types
  <2>3. /\ Chunk \in Seq(UnitSet) /\ Len(Chunk) = Layout[region].size
        /\ \A i \in 1 .. Layout[region].size : Chunk[i] = Unit("data", region, i, memory[region])
    <3>1. \A i \in 1 .. Layout[region].size : Unit("data", region, i, memory[region]) \in UnitSet
      BY <2>1, <2>2, UnitFacts, RegionNumbers
    <3> QED
      BY <2>1, <3>1 DEF Data
  <2>4. /\ Rest(n) \in Seq(UnitSet) /\ Len(Rest(n)) = n
        /\ \A j \in 1 .. n : Rest(n)[j] = Chunk[done + j]
    <3>1. done + 1 \in Nat \ {0} /\ done + n \in 0 .. Len(Chunk) /\ done + 1 <= (done + n) + 1
          /\ (done + n) - (done + 1) + 1 = n /\ \A j \in 1 .. n : (done + 1) + j - 1 = done + j
      BY <1>0, <2>1, <2>3
    <3>2. Rest(n) = SubSeq(Chunk, done + 1, done + n)
      BY DEF Rest
    <3> QED
      BY <2>3, <3>1, <3>2, SubSeqFacts
  <2>5. ASSUME NEW j \in 1 .. n
        PROVE  /\ BelongsAt(at + j, Rest(n)[j]) /\ Rest(n)[j].region = region
               /\ Rest(n)[j].val = memory[region]
    <3>1. PICK o \in Nat, s \in Nat, d \in Nat : o = Offset[region - 1]
            /\ s = Layout[region].size /\ d = done
      BY <1>0, <2>1
    <3>2. at = o + 1 + d /\ n <= s - d /\ n \in Nat
      BY <1>0, <2>1, <3>1
    <3>3. d + j \in 1 .. s /\ at + j = o + 1 + (d + j)
      BY <3>1, <3>2
    <3>4. done + j \in 1 .. Layout[region].size /\ at + j = Offset[region - 1] + 1 + (done + j)
      BY <3>1, <3>3
    <3>5. Rest(n)[j] = Unit("data", region, done + j, memory[region])
      BY <2>3, <2>4, <3>4
    <3>6. Rest(n)[j].region = region /\ Rest(n)[j].val = memory[region]
      BY <3>5, UnitFields
    <3> QED
      BY <2>1, <2>2, <3>4, <3>5, <3>6 DEF BelongsAt
  <2> QED
    BY <1>1, <1>3, <2>1, <2>4, <2>5 DEF RestRight
<1>4. CASE pc = "context"
  <2>1. /\ Chunk = Context /\ at = Offset[N] + done /\ n <= ContextSize - done
           /\ ContextSize \in Nat
    BY <1>0, <1>4, LeftFacts, LayoutFacts DEF Chunk, Inv, WriterInPlace
  <2>2. /\ Rest(n) \in Seq(UnitSet) /\ Len(Rest(n)) = n
        /\ \A j \in 1 .. n : Rest(n)[j] = Context[done + j]
    <3>1. done + 1 \in Nat \ {0} /\ done + n \in 0 .. Len(Context) /\ done + 1 <= (done + n) + 1
          /\ (done + n) - (done + 1) + 1 = n /\ \A j \in 1 .. n : (done + 1) + j - 1 = done + j
      BY <1>0, <2>1, UnitFacts
    <3>2. Rest(n) = SubSeq(Context, done + 1, done + n)
      BY <2>1 DEF Rest
    <3> QED
      BY <3>1, <3>2, SubSeqFacts, UnitFacts
  <2>3. ASSUME NEW j \in 1 .. n
        PROVE  BelongsAt(at + j, Rest(n)[j]) /\ Rest(n)[j].what = "context"
    <3>1. done + j \in 1 .. ContextSize /\ at + j = Offset[N] + (done + j)
      BY <1>0, <2>1
    <3> QED
      BY <2>2, <3>1, UnitFields DEF BelongsAt
  <2> QED
    BY <1>1, <2>2, <2>3 DEF RestRight
<1> QED
  BY <1>2, <1>3, <1>4

\* The image, after a write.
LEMMA WriteFacts ==
  ASSUME Inv, NEW n \in 0 .. Left, Write(n)
  PROVE  /\ image' \in [there : BOOLEAN, units : Seq(UnitSet)] /\ image'.there = image.there
         /\ UnitsInPlace' /\ Writes(Units', Units, at, Rest(n)) /\ Units' \in Seq(UnitSet)
         /\ at + n <= Len(Units') /\ Len(Units') \in Nat
<1>1. pc \in {"header", "data", "context"}
        /\ image' = [image EXCEPT !.units = Patched(@, Rest(n))]
  BY DEF Write
<1>2. Rest(n) \in Seq(UnitSet) /\ at \in 0 .. Len(Units) /\ Len(Rest(n)) = n /\ at \in Nat
      /\ \A j \in 1 .. n : BelongsAt(at + j, Rest(n)[j])
  <2>1. at \in Nat
    BY LeftFacts
  <2>2. /\ Rest(n) \in Seq(UnitSet) /\ at \in 0 .. Len(Units) /\ Len(Rest(n)) = n
        /\ \A j \in 1 .. n : BelongsAt(at + j, Rest(n)[j])
    BY <1>1, RestBelongs DEF RestRight
  <2> QED
    BY <2>1, <2>2
<1>3. image \in [there : BOOLEAN, units : Seq(UnitSet)] /\ Units \in Seq(UnitSet)
        /\ Units = image.units
  BY DEF Inv, Types, Units
<1>4. /\ Patched(Units, Rest(n)) \in Seq(UnitSet)
      /\ Writes(Patched(Units, Rest(n)), Units, at, Rest(n))
  BY <1>2, <1>3, WritesFacts DEF Patched
<1>5. image' \in [there : BOOLEAN, units : Seq(UnitSet)] /\ image'.there = image.there
      /\ Units' = Patched(Units, Rest(n))
  BY <1>1, <1>3, <1>4 DEF Units
<1>6. Writes(Units', Units, at, Rest(n)) /\ Units' \in Seq(UnitSet)
  BY <1>4, <1>5
<1>7. UnitsInPlace'
  <2> SUFFICES ASSUME NEW p \in 1 .. Len(Units') PROVE BelongsAt(p, Units'[p])
    BY DEF UnitsInPlace
  <2>1. CASE p - at \in 1 .. Len(Rest(n)) /\ Units'[p] = Rest(n)[p - at]
    <3>1. at + (p - at) = p /\ p - at \in 1 .. n
      BY <1>2, <2>1
    <3>2. BelongsAt(at + (p - at), Rest(n)[p - at])
      BY <1>2, <3>1
    <3> QED
      BY <2>1, <3>1, <3>2
  <2>2. CASE p \in 1 .. Len(Units) /\ Units'[p] = Units[p]
    BY <2>2 DEF Inv, UnitsInPlace
  <2> QED
    BY <1>6, <2>1, <2>2 DEF Writes
<1>8. at + n <= Len(Units') /\ Len(Units') \in Nat
  BY <1>2, <1>6 DEF Writes
<1> QED
  BY <1>5, <1>6, <1>7, <1>8

\* Behind the last region that is saved, the registers begin.
LEMMA LastEnds ==
  ASSUME NEW r \in Saved, LastSaved(r)
  PROVE  Offset[r] = Offset[N]
<1>1. N \in 0 .. N /\ r \in 0 .. N /\ r <= N /\ N \in Nat /\ r \in Nat /\ Saved \subseteq Nat
  BY LayoutFacts
<1>2. \A k \in r + 1 .. N : k \notin Saved
  BY <1>1 DEF LastSaved
<1> QED
  BY <1>1, <1>2, OffsetSkips

\* my_write writes all, a part or nothing, and goes on or gives up.
LEMMA WriteKeeps ==
  ASSUME Inv, NEW n \in 0 .. Left, Write(n)
  PROVE  Inv'
<1>0. image' \in [there : BOOLEAN, units : Seq(UnitSet)] /\ UnitsInPlace'
      /\ at + n <= Len(Units') /\ Len(Units') \in Nat
  BY WriteFacts
<1>1. pc \in {"header", "data", "context"} /\ armed /\ ~ off
  BY DEF Write, Inv, Restored, ReaderInPlace
<1>2. /\ n \in Nat /\ n <= Left /\ at \in Nat /\ done \in Nat /\ done <= at /\ Left \in Nat
      /\ retry \in Nat /\ Offset[N] \in Nat
  <2>1. Left \in Nat /\ at \in Nat /\ done \in Nat /\ done <= at
    BY <1>1, LeftFacts
  <2>2. retry \in Nat /\ Offset[N] \in Nat
    BY BeforeRegisters, LayoutFacts, OffsetSteps DEF Inv, Types
  <2> QED
    BY <2>1, <2>2
<1>3. \A r \in Saved \ {Stack} : memory[r] \in Values
  BY <1>1 DEF Inv, WriterMemory, Program
<1>4. pc \in {"header", "data"} => memory[Stack] = "restart"
  BY DEF Inv, WriterMemory
<1>5. ASSUME UNCHANGED <<memory, armed, off>>, fd' \in BOOLEAN,
             pc' \in {"run", "header", "data", "reset", "context"},
             pc' \in {"header", "data"} => pc \in {"header", "data"},
             region' \in 0 .. N, at' \in Nat, done' \in 0 .. at', retry' \in Nat, WriterInPlace'
      PROVE  Inv'
  <2>1. Types'
    <3>1. /\ memory' \in [Regions -> Vals] /\ armed' \in BOOLEAN /\ off' \in BOOLEAN
          /\ pc' \in {"run", "maps", "header", "data", "reset", "test", "context",
                      "r_header", "r_data", "r_context", "dead", "wild"}
      BY <1>5 DEF Inv, Types
    <3> QED
      BY <1>0, <1>5, <3>1 DEF Types
  <2>2. WriterMemory'
    BY <1>3, <1>4, <1>5 DEF WriterMemory
  <2>3. Restored' /\ ReaderInPlace'
    BY <1>1, <1>5 DEF Restored, ReaderInPlace, Program
  <2> QED
    BY <1>0, <1>5, <2>1, <2>2, <2>3 DEF Inv
<1>6. CASE n # Left
  <2>1. Again(n)
    BY <1>6 DEF Write
  <2>2. CASE Stops("dead")
    BY <1>0, <2>2, StopsKeeps
  <2>3. CASE /\ retry' = RetryAfter(n) /\ done' = done + n /\ at' = at + n
             /\ UNCHANGED <<memory, pc, armed, fd, region, off>>
    <3>1. retry' \in Nat /\ at' \in Nat /\ done' \in 0 .. at'
      BY <1>2, <2>3 DEF RetryAfter
    <3>2. fd' \in BOOLEAN /\ region' \in 0 .. N
      BY <2>3 DEF Inv, Types
    <3>3. at' <= Len(Units') /\ n < Left /\ armed'
      BY <1>0, <1>1, <1>2, <1>6, <2>3
    <3>4. WriterInPlace'
      <4>1. CASE pc = "header"
        <5>1. n = 0 /\ done' = 0 /\ at' = at
          BY <1>2, <2>3, <3>3, <4>1, LeftFacts
        <5> QED
          BY <2>3, <3>3, <4>1, <5>1 DEF Inv, WriterInPlace
      <4>2. CASE pc = "data"
        <5>1. region \in Saved /\ Left = Layout[region].size - done
                /\ at = Offset[region - 1] + 1 + done
          BY <4>2, LeftFacts DEF Inv, WriterInPlace
        <5>2. Offset[region - 1] \in Nat /\ Layout[region].size \in Nat
          BY <5>1, OffsetOrder
        <5>3. at' = Offset[region - 1] + 1 + done' /\ done' < Layout[region].size
          <6>1. PICK o \in Nat, s \in Nat, d \in Nat :
                  o = Offset[region - 1] /\ s = Layout[region].size /\ d = done
            BY <1>2, <5>2
          <6>2. at = o + 1 + d /\ n < s - d /\ at' = at + n /\ done' = d + n /\ n \in Nat
            BY <1>2, <2>3, <3>3, <5>1, <6>1
          <6>3. at' = o + 1 + done' /\ done' < s
            BY <6>1, <6>2
          <6> QED
            BY <6>1, <6>3
        <5> QED
          BY <2>3, <3>3, <4>2, <5>1, <5>3 DEF WriterInPlace
      <4>3. CASE pc = "context"
        <5>1. Left = ContextSize - done /\ at = Offset[N] + done
          BY <4>3, LeftFacts DEF Inv, WriterInPlace
        <5>2. at' = Offset[N] + done' /\ done' < ContextSize
          BY <1>2, <2>3, <3>3, <5>1, LayoutFacts
        <5> QED
          BY <2>3, <3>3, <4>3, <5>2 DEF WriterInPlace
      <4> QED
        BY <1>1, <4>1, <4>2, <4>3
    <3> QED
      BY <1>1, <1>5, <2>3, <3>1, <3>2, <3>4
  <2> QED
    BY <2>1, <2>2, <2>3 DEF Again
<1>7. CASE n = Left
  <2>1. AfterChunk(n) /\ UNCHANGED <<memory, armed, off>>
    BY <1>7 DEF Write
  <2>2. fd \in BOOLEAN
    BY DEF Inv, Types
  <2>3. CASE pc = "header" /\ Begin("data", region, n) /\ UNCHANGED fd
    <3>1. pc' = "data" /\ region' = region /\ at' = at + n /\ done' = 0 /\ retry' = 0 /\ n = 1
      BY <1>7, <2>3, LeftFacts DEF Begin
    <3>2. region \in Saved /\ at = Offset[region - 1] /\ region \in 0 .. N
      BY <2>3 DEF Inv, WriterInPlace, Types
    <3>3. Layout[region].size \in Nat \ {0} /\ Offset[region - 1] \in Nat
      BY <3>2, OffsetOrder
    <3>4. WriterInPlace'
      <4>1. at' = Offset[region' - 1] + 1 + done' /\ done' < Layout[region'].size
              /\ at' <= Len(Units')
        BY <1>0, <3>1, <3>2, <3>3
      <4> QED
        BY <3>1, <3>2, <4>1 DEF WriterInPlace
    <3>5. at' \in Nat /\ done' \in 0 .. at'
      BY <1>2, <3>1
    <3> QED
      BY <1>5, <2>1, <2>2, <2>3, <3>1, <3>2, <3>4, <3>5
  <2>4. ASSUME pc = "data"
        PROVE  /\ region \in Saved /\ at + n = Offset[region]
               /\ Offset[region] \in Nat /\ region \in 0 .. N
    <3>1. region \in Saved /\ n = Layout[region].size - done
            /\ at = Offset[region - 1] + 1 + done
      BY <1>7, <2>4, LeftFacts DEF Inv, WriterInPlace
    <3>2. Offset[region - 1] \in Nat /\ Layout[region].size \in Nat
          /\ Offset[region] = Offset[region - 1] + 1 + Layout[region].size /\ region \in 0 .. N
      BY <3>1, OffsetOrder, RegionNumbers
    <3> QED
      BY <1>2, <3>1, <3>2
  <2>5. CASE pc = "data" /\ ~ LastSaved(region) /\ Begin("header", NextSaved(region), n)
          /\ UNCHANGED fd
    <3>1. pc' = "header" /\ region' = NextSaved(region) /\ at' = at + n /\ done' = 0
            /\ retry' = 0
      BY <2>5 DEF Begin
    <3>2. \E k \in Saved : region < k
      BY <2>4, <2>5, LayoutFacts DEF LastSaved
    <3>3. region' \in Saved /\ at' = Offset[region' - 1] /\ region' \in 0 .. N
      BY <2>4, <2>5, <3>1, <3>2, NextSavedFacts, RegionNumbers
    <3>4. WriterInPlace'
      BY <1>0, <3>1, <3>3 DEF WriterInPlace
    <3>5. at' \in Nat /\ done' \in 0 .. at'
      BY <1>2, <3>1
    <3> QED
      BY <1>5, <2>1, <2>2, <2>5, <3>1, <3>3, <3>4, <3>5
  <2>6. CASE pc = "data" /\ LastSaved(region) /\ Begin("reset", 0, n) /\ UNCHANGED fd
    <3>1. pc' = "reset" /\ region' = 0 /\ at' = at + n /\ done' = 0 /\ retry' = 0
      BY <2>6 DEF Begin
    <3>2. at' = Offset[N]
      BY <2>4, <2>6, <3>1, LastEnds
    <3>3. WriterInPlace'
      BY <1>0, <3>1, <3>2 DEF WriterInPlace
    <3>4. at' \in Nat /\ done' \in 0 .. at' /\ region' \in 0 .. N
      BY <1>2, <3>1, RegionNumbers
    <3> QED
      BY <1>5, <2>1, <2>2, <2>6, <3>1, <3>3, <3>4
  <2>7. CASE pc = "context" /\ Resume
    <3>1. pc' = "run" /\ fd' = FALSE /\ region' = 0 /\ at' = 0 /\ done' = 0 /\ retry' = 0
      BY <2>7 DEF Resume
    <3>2. WriterInPlace'
      BY <1>0, <3>1 DEF WriterInPlace
    <3>3. at' \in Nat /\ done' \in 0 .. at' /\ region' \in 0 .. N
      BY <3>1, RegionNumbers
    <3> QED
      BY <1>5, <2>1, <3>1, <3>2, <3>3
  <2> QED
    BY <2>1, <2>3, <2>5, <2>6, <2>7 DEF AfterChunk
<1> QED
  BY <1>6, <1>7

\* A saved region up to p is one up to any region that ends where p does.
LEMMA SavedBefore ==
  ASSUME NEW q \in 0 .. N, NEW p \in 0 .. N, Offset[q] = Offset[p], NEW r \in Saved, r <= p
  PROVE  r <= q
<1>1. r \in 1 .. N /\ N \in Nat
  BY LayoutFacts
<1>2. /\ Offset[r] = Offset[r - 1] + 1 + Layout[r].size
      /\ Offset[r - 1] \in Nat /\ Layout[r].size \in Nat
      /\ Offset[r] <= Offset[p]
      /\ q < r => Offset[q] <= Offset[r - 1]
  BY <1>1, OffsetOrder
<1>3. Offset[q] \in Nat /\ Offset[p] \in Nat
  BY OffsetSteps
<1> QED
  BY <1>1, <1>2, <1>3

\* What has been read up to one place has been read up to any region that ends there.
LEMMA StackReadMoves ==
  ASSUME NEW q \in 0 .. N, NEW p \in 0 .. N, Offset[q] = Offset[p], StackRead(q)
  PROVE  StackRead(p)
BY SavedBefore, LayoutFacts DEF StackRead

\* What is read is of the places it is read from.
LEMMA GotFacts ==
  ASSUME Inv, pc \in {"r_header", "r_data", "r_context"}, Readable
  PROVE  /\ Got \in Seq(UnitSet) /\ Len(Got) = Left + done /\ DOMAIN Got = 1 .. Left + done
         /\ Left + done \in Nat \ {0} /\ at - done \in Nat
         /\ \A i \in 1 .. Left + done : BelongsAt((at - done) + i, Got[i])
         /\ \A i \in 1 .. Left + done : /\ (at - done) + i \in 1 .. Len(Units)
                                       /\ Got[i] = Units[(at - done) + i]
<1>1. /\ Units \in Seq(UnitSet) /\ Len(Units) \in Nat /\ at \in Nat /\ done \in Nat
         /\ done <= at
      /\ Left \in Nat \ {0} /\ at + Left <= Len(Units)
  <2>1. Units \in Seq(UnitSet) /\ Len(Units) \in Nat
    BY DEF Inv, Types, Units
  <2>2. Left \in Nat \ {0} /\ at \in Nat /\ done \in Nat /\ done <= at
    BY LeftFacts
  <2> QED
    BY <2>1, <2>2 DEF Readable
<1> DEFINE a == at - done + 1
           b == at + Left
<1>2. /\ a \in Nat \ {0} /\ b \in 0 .. Len(Units) /\ a <= b + 1 /\ b - a + 1 = Left + done
      /\ at - done \in Nat /\ Left + done \in Nat \ {0}
      /\ \A i \in 1 .. Left + done : a + i - 1 = (at - done) + i
         /\ (at - done) + i \in 1 .. Len(Units)
  BY <1>1
<1>3. Got = SubSeq(Units, a, b)
  BY DEF Got
<1> HIDE DEF a, b
<1>4. /\ Got \in Seq(UnitSet) /\ Len(Got) = Left + done
      /\ \A i \in 1 .. Left + done : Got[i] = Units[a + i - 1]
  BY <1>1, <1>2, <1>3, SubSeqFacts
<1>5. \A i \in 1 .. Left + done : BelongsAt((at - done) + i, Got[i])
  BY <1>2, <1>4 DEF Inv, UnitsInPlace
<1>6. DOMAIN Got = 1 .. Left + done
  BY <1>4
<1>7. \A i \in 1 .. Left + done : Got[i] = Units[(at - done) + i]
  BY <1>2, <1>4
<1> QED
  BY <1>2, <1>4, <1>5, <1>6, <1>7

\* Where the restarter goes on.
LEMMA NextChunkKeeps ==
  ASSUME Inv, UNCHANGED <<image, armed>>, ~ armed, off' \in BOOLEAN, fd' \in BOOLEAN,
         memory' \in [Regions -> Vals], NEW n \in Nat, NextChunk(n),
         ~ off' => \E q \in 0 .. N : at + n = Offset[q]
           /\ (Stack <= q => memory'[Stack] = "restart")
  PROVE  Inv'
<1>1. image' \in [there : BOOLEAN, units : Seq(UnitSet)] /\ UnitsInPlace' /\ Units' = Units
      /\ Len(Units) \in Nat
  BY ImageSame
<1>2. /\ pc' = (IF LoopEnds(n) THEN "r_context" ELSE "r_header") /\ region' = 0
      /\ at' = at + n /\ done' = 0 /\ retry' = 0
  BY DEF NextChunk, Begin
<1>3. at \in Nat /\ at' \in Nat
  BY <1>2, LeftFacts
<1>4. region' \in 0 .. N /\ done' \in 0 .. at' /\ retry' \in Nat
  BY <1>2, <1>3, RegionNumbers
<1>5. Types'
  <2>1. armed' \in BOOLEAN /\ off' \in BOOLEAN
    BY DEF Inv, Types
  <2> QED
    BY <1>1, <1>2, <1>3, <1>4, <2>1 DEF Types
<1>6. WriterInPlace' /\ WriterMemory' /\ Restored'
  BY <1>2 DEF WriterInPlace, WriterMemory, Restored, Program
<1>7. CASE LoopEnds(n)
  <2>1. pc' = "r_context" /\ ~ off' /\ Len(Units') - at' = ContextSize
          /\ at' - done' = at' /\ done' < ContextSize
    BY <1>1, <1>2, <1>3, <1>7, LayoutFacts DEF LoopEnds
  <2>2. \E q \in 0 .. N : at' - done' = Offset[q] /\ StackRead(q)'
    BY <1>2, <2>1 DEF StackRead
  <2> QED
    BY <1>1, <1>5, <1>6, <2>1, <2>2 DEF Inv, ReaderInPlace
<1>8. CASE ~ LoopEnds(n)
  <2>1. pc' = "r_header" /\ (~ off' => Len(Units') - at' # ContextSize)
    BY <1>1, <1>2, <1>3, <1>8 DEF LoopEnds
  <2>2. ~ off' => \E q \in 0 .. N : at' = Offset[q] /\ StackRead(q)'
    BY <1>2 DEF StackRead
  <2> QED
    BY <1>1, <1>2, <1>5, <1>6, <2>1, <2>2 DEF Inv, ReaderInPlace
<1> QED
  BY <1>7, <1>8

\* The restarter begins at the offset 0.
LEMMA RestartKeeps ==
  ASSUME Inv, Restart
  PROVE  Inv'
<1>1. /\ pc = "dead" /\ off' = FALSE /\ NextChunk(0) /\ fd' = TRUE
         /\ UNCHANGED <<memory, image, armed>>
  BY DEF Restart
<1>2. at = 0 /\ ~ armed /\ memory \in [Regions -> Vals]
  BY <1>1 DEF Inv, WriterInPlace, Restored, Program, Types
<1>3. 0 \in 0 .. N /\ at + 0 = Offset[0] /\ ~ (Stack <= 0) /\ 0 \in Nat
  BY <1>2, LayoutFacts, OffsetSteps, RegionNumbers
<1> QED
  BY <1>1, <1>2, <1>3, NextChunkKeeps

\* read_exact reads a part and calls itself, or gives up.
LEMMA ReadLessKeeps ==
  ASSUME Inv, NEW n \in 0 .. Left, ReadLess(n)
  PROVE  Inv'
<1>1. pc \in {"r_header", "r_data", "r_context"} /\ UNCHANGED image /\ n < Left /\ Again(n)
  BY DEF ReadLess, Reading
<1>2. CASE Stops("dead")
  BY <1>1, <1>2, StopsAlone
<1>3. CASE /\ retry' = RetryAfter(n) /\ done' = done + n /\ at' = at + n
           /\ UNCHANGED <<memory, pc, armed, fd, region, off>>
  <2>1. image' \in [there : BOOLEAN, units : Seq(UnitSet)] /\ UnitsInPlace' /\ Units' = Units
        /\ Len(Units) \in Nat
    BY <1>1, ImageSame
  <2>2. n \in Nat /\ at \in Nat /\ done \in Nat /\ done <= at /\ Left \in Nat /\ retry \in Nat
    <3>1. Left \in Nat /\ at \in Nat /\ done \in Nat /\ done <= at
      BY <1>1, LeftFacts
    <3> QED
      BY <3>1 DEF Inv, Types
  <2>3. at' \in Nat /\ done' \in 0 .. at' /\ retry' \in Nat /\ at' - done' = at - done
    BY <1>3, <2>2 DEF RetryAfter
  <2>4. Types'
    BY <1>3, <2>1, <2>3 DEF Inv, Types
  <2>5. WriterInPlace' /\ WriterMemory' /\ Restored'
    BY <1>1, <1>3 DEF Inv, WriterInPlace, WriterMemory, Restored, Program
  <2>6. CASE pc = "r_header"
    <3>1. at' = at /\ done' = done
      BY <1>1, <1>3, <2>2, <2>6, LeftFacts
    <3>2. ReaderInPlace'
      BY <1>3, <2>1, <2>6, <3>1 DEF Inv, ReaderInPlace, StackRead
    <3> QED
      BY <2>1, <2>4, <2>5, <3>2 DEF Inv
  <2>7. CASE pc = "r_data"
    <3>1. region \in Saved /\ Left = Layout[region].size - done
      BY <2>7, LeftFacts
    <3>2. Layout[region].size \in Nat /\ Offset[region - 1] \in Nat
      BY <3>1, OffsetOrder
    <3>3. PICK o \in Nat, s \in Nat, d \in Nat : o = Offset[region - 1]
            /\ s = Layout[region].size /\ d = done
      BY <2>2, <3>2
    <3>4. n < s - d /\ done' = d + n /\ at' = at + n
      BY <1>1, <1>3, <3>1, <3>3
    <3>5. done' < s
      BY <2>2, <3>3, <3>4
    <3>6. at = o + 1 + d => at' = o + 1 + done'
      BY <2>2, <3>3, <3>4
    <3>7. ReaderInPlace'
      BY <1>3, <2>1, <2>7, <3>1, <3>3, <3>5, <3>6 DEF Inv, ReaderInPlace, StackRead
    <3> QED
      BY <2>1, <2>4, <2>5, <3>7 DEF Inv
  <2>8. CASE pc = "r_context"
    <3>1. done' < ContextSize
      <4>1. Left = ContextSize - done
        BY <2>8, LeftFacts
      <4> QED
        BY <1>1, <1>3, <2>2, <4>1, LayoutFacts
    <3>2. ReaderInPlace'
      BY <1>3, <2>1, <2>3, <2>8, <3>1 DEF Inv, ReaderInPlace, StackRead
    <3> QED
      BY <2>1, <2>4, <2>5, <3>2 DEF Inv
  <2> QED
    BY <1>1, <2>6, <2>7, <2>8
<1> QED
  BY <1>1, <1>2, <1>3 DEF Again

\* A header is read: its data comes next.
LEMMA ReadHeaderKeeps ==
  ASSUME Inv, ReadHeader
  PROVE  Inv'
<1>1. pc = "r_header" /\ UNCHANGED image /\ Readable
  BY DEF ReadHeader, Reading
<1>2. image' \in [there : BOOLEAN, units : Seq(UnitSet)] /\ UnitsInPlace' /\ Units' = Units
      /\ Len(Units) \in Nat
  BY <1>1, ImageSame
<1>3. CASE \E how \in {"dead", "wild"} : Stops(how)
  BY <1>1, <1>3, StopsAlone
<1>4. CASE /\ Got[1].what = "header" /\ memory[Got[1].region] = "unmapped"
           /\ Begin("r_data", Got[1].region, Left)
           /\ memory' = [memory EXCEPT ![Got[1].region] = "torn"]
           /\ UNCHANGED <<armed, fd, off>>
  <2>1. Left = 1 /\ done = 0 /\ at \in Nat
    BY <1>1, LeftFacts
  <2>2. BelongsAt(at + 1, Got[1])
    <3>1. BelongsAt((at - done) + 1, Got[1])
      <4>1. 1 \in 1 .. Left + done
        BY <2>1
      <4> QED
        BY <1>1, <4>1, GotFacts
    <3>2. (at - done) + 1 = at + 1
      BY <2>1
    <3> QED
      BY <3>1, <3>2
  <2>3. PICK r \in Saved : at + 1 = Offset[r - 1] + 1 /\ Got[1] = Header(r)
    <3>1. Got[1].what # "data" /\ Got[1].what # "context"
      BY <1>4
    <3> QED
      BY <2>2, <3>1, UnitFields DEF BelongsAt
  <2>4. Got[1].region = r /\ r \in Regions /\ r \in 0 .. N /\ r - 1 \in 0 .. N
    BY <2>3, LayoutFacts, UnitFields
  <2>5. at = Offset[r - 1]
    BY <2>1, <2>3, OffsetOrder
  <2>6. /\ pc' = "r_data" /\ region' = r /\ at' = at + 1 /\ done' = 0 /\ retry' = 0
        /\ memory' = [memory EXCEPT ![r] = "torn"] /\ UNCHANGED <<armed, fd, off>>
    BY <1>4, <2>1, <2>4 DEF Begin
  <2>7. memory' \in [Regions -> Vals] /\ \A q \in Regions \ {r} : memory'[q] = memory[q]
    BY <2>4, <2>6 DEF Inv, Types, Vals
  <2>8. Types'
    <3>1. at' \in Nat /\ done' \in 0 .. at' /\ region' \in 0 .. N /\ retry' \in Nat
      BY <2>1, <2>4, <2>6
    <3> QED
      BY <1>2, <2>6, <2>7, <3>1 DEF Inv, Types
  <2>9. WriterInPlace' /\ WriterMemory' /\ Restored'
    BY <1>1, <2>6 DEF Inv, WriterInPlace, WriterMemory, Restored, Program
  <2>10. at' = Offset[r - 1] + 1 + done' /\ done' < Layout[r].size
    BY <2>5, <2>6, OffsetOrder
  <2>11. ~ off => StackRead(r - 1)'
    <3> SUFFICES ASSUME ~ off, Stack <= r - 1 PROVE memory'[Stack] = "restart"
      BY DEF StackRead
    <3>1. PICK q \in 0 .. N : at = Offset[q] /\ StackRead(q)
      BY <1>1 DEF Inv, ReaderInPlace
    <3>2. StackRead(r - 1)
      BY <2>4, <2>5, <3>1, StackReadMoves
    <3>3. Stack # r /\ Stack \in Regions
      BY <2>4, LayoutFacts
    <3> QED
      BY <2>7, <3>2, <3>3 DEF StackRead
  <2>12. ReaderInPlace'
    BY <2>3, <2>6, <2>10, <2>11 DEF ReaderInPlace
  <2> QED
    BY <1>2, <2>8, <2>9, <2>12 DEF Inv
<1> QED
  BY <1>3, <1>4 DEF ReadHeader

\* The stack of a region that was written is read back as it was.
LEMMA FilledFacts ==
  ASSUME Inv, pc = "r_data", Readable
  PROVE  /\ Filled \in Vals
         /\ ~ off /\ region = Stack => Filled = "restart"
<1>1. region \in Saved /\ Left + done = Layout[region].size /\ done \in Nat
        /\ Layout[region].size \in Nat \ {0}
  <2>1. region \in Saved /\ Left = Layout[region].size - done /\ done \in Nat
    BY LeftFacts
  <2>2. Layout[region].size \in Nat \ {0}
    BY <2>1, OffsetOrder
  <2> QED
    BY <2>1, <2>2
<1>2. /\ Got \in Seq(UnitSet) /\ Len(Got) = Layout[region].size
         /\ DOMAIN Got = 1 .. Layout[region].size
      /\ \A i \in 1 .. Layout[region].size : BelongsAt((at - done) + i, Got[i])
  BY <1>1, GotFacts
<1>3. 1 \in 1 .. Layout[region].size
  BY <1>1
<1>4. Filled \in Vals
  <2>1. Got[1] \in UnitSet
    BY <1>2, <1>3
  <2>2. Got[1].val \in Vals /\ "torn" \in Vals
    BY <2>1 DEF UnitSet, Vals
  <2> QED
    BY <2>2 DEF Filled
<1>5. ASSUME ~ off, region = Stack PROVE Filled = "restart"
  <2>1. at = Offset[region - 1] + 1 + done /\ Offset[region - 1] \in Nat
    BY <1>1, <1>5, OffsetOrder DEF Inv, ReaderInPlace
  <2>2. at - done = Offset[region - 1] + 1
    BY <1>1, <2>1
  <2>3. ASSUME NEW i \in 1 .. Layout[region].size
        PROVE  Got[i] = Unit("data", region, i, "restart")
    <3>1. BelongsAt(Offset[region - 1] + 1 + i, Got[i])
      BY <1>2, <2>2
    <3>2. PICK v \in Pages(region) : Got[i] = Unit("data", region, i, v)
      BY <1>1, <3>1, DataBelongs
    <3> QED
      BY <1>5, <3>2 DEF Pages
  <2>4. Got[1].val = "restart"
    BY <1>3, <2>3, UnitFields
  <2> QED
    BY <1>2, <2>3, <2>4 DEF Filled
<1> QED
  BY <1>4, <1>5

\* The data of a region is read: a header or the registers come next.
LEMMA ReadDataKeeps ==
  ASSUME Inv, ReadData
  PROVE  Inv'
<1>1. /\ pc = "r_data" /\ UNCHANGED image /\ Readable
         /\ memory' = [memory EXCEPT ![region] = Filled]
      /\ UNCHANGED <<armed, fd, off>> /\ NextChunk(Left)
  BY DEF ReadData, Reading
<1>2. /\ region \in Saved /\ region \in Regions /\ region \in 0 .. N /\ Left \in Nat
         /\ at \in Nat
      /\ Left = Layout[region].size - done /\ done \in Nat
  BY <1>1, LeftFacts, LayoutFacts, RegionNumbers
<1>3. ~ armed /\ fd' \in BOOLEAN /\ off' \in BOOLEAN
  BY <1>1 DEF Inv, Restored, Types, Program
<1>4. /\ memory' \in [Regions -> Vals] /\ memory'[region] = Filled
      /\ \A q \in Regions \ {region} : memory'[q] = memory[q]
  <2>1. memory \in [Regions -> Vals] /\ Filled \in Vals
    BY <1>1, FilledFacts DEF Inv, Types
  <2> QED
    BY <1>1, <1>2, <2>1
<1>5. ASSUME ~ off'
      PROVE  at + Left = Offset[region] /\ (Stack <= region => memory'[Stack] = "restart")
  <2>1. at = Offset[region - 1] + 1 + done /\ StackRead(region - 1)
    BY <1>1, <1>5 DEF Inv, ReaderInPlace
  <2>2. Offset[region] = Offset[region - 1] + 1 + Layout[region].size
        /\ Offset[region - 1] \in Nat /\ Layout[region].size \in Nat /\ region \in 1 .. N
    BY <1>2, OffsetOrder
  <2>3. at + Left = Offset[region]
    BY <1>2, <2>1, <2>2
  <2>4. ASSUME Stack <= region PROVE memory'[Stack] = "restart"
    <3>1. Stack \in Regions /\ Stack \in Nat
      <4>1. Stack \in 1 .. N /\ Regions = 1 .. N
        BY LayoutFacts
      <4> QED
        BY <4>1
    <3>2. CASE Stack = region
      BY <1>1, <1>4, <1>5, <3>2, FilledFacts
    <3>3. CASE Stack # region
      <4>1. Stack <= region - 1
        BY <2>2, <2>4, <3>1, <3>3
      <4> QED
        BY <1>4, <2>1, <3>1, <3>3, <4>1 DEF StackRead
    <3> QED
      BY <3>2, <3>3
  <2> QED
    BY <2>3, <2>4
<1> QED
  BY <1>1, <1>2, <1>3, <1>4, <1>5, NextChunkKeeps

\* The registers are found behind the last region only: the stack has been read.
LEMMA ContextFound ==
  ASSUME Inv, pc = "r_context", Readable, Got = Context
  PROVE  at - done = Offset[N] /\ memory[Stack] = "restart"
<1>1. Left + done = ContextSize /\ ContextSize \in Nat \ {0} /\ Offset[N] \in Nat
      /\ at - done \in Nat
  <2>1. Left = ContextSize - done /\ done \in Nat /\ at \in Nat /\ done <= at
    BY LeftFacts
  <2> QED
    BY <2>1, LayoutFacts, BeforeRegisters, OffsetSteps, RegionNumbers
<1>2. 1 \in 1 .. ContextSize /\ BelongsAt((at - done) + 1, Context[1])
  BY <1>1, GotFacts
<1>3. Context[1].what = "context" /\ Context[1].index = 1
  BY <1>2, UnitFields
<1>4. PICK i \in 1 .. ContextSize : (at - done) + 1 = Offset[N] + i /\ Context[1] = Context[i]
  <2>1. Context[1].what # "header" /\ Context[1].what # "data"
    BY <1>3
  <2> QED
    BY <1>2, <2>1, UnitFields DEF BelongsAt
<1>5. i = 1
  BY <1>3, <1>4, UnitFields
<1>6. at - done = Offset[N]
  BY <1>1, <1>4, <1>5
<1>7. PICK q \in 0 .. N : at - done = Offset[q] /\ StackRead(q)
  BY DEF Inv, ReaderInPlace
<1>8. N \in 0 .. N /\ Stack <= N
  BY LayoutFacts
<1>9. StackRead(N)
  BY <1>6, <1>7, <1>8, StackReadMoves
<1> QED
  BY <1>6, <1>8, <1>9 DEF StackRead

\* The registers are read: the stack has been, and its `restart' is set.
LEMMA ReadContextKeeps ==
  ASSUME Inv, ReadContext
  PROVE  Inv'
<1>1. pc = "r_context" /\ UNCHANGED image /\ Readable
  BY DEF ReadContext, Reading
<1>2. CASE Stops("wild")
  BY <1>1, <1>2, StopsAlone
<1>3. CASE /\ Got = Context /\ Begin("test", 0, Left) /\ fd' = FALSE
           /\ UNCHANGED <<memory, armed, off>>
  <2>1. image' \in [there : BOOLEAN, units : Seq(UnitSet)] /\ UnitsInPlace' /\ Units' = Units
        /\ Len(Units) \in Nat
    BY <1>1, ImageSame
  <2>2. /\ pc' = "test" /\ region' = 0 /\ at' = at + Left /\ done' = 0 /\ retry' = 0
           /\ fd' = FALSE
        /\ UNCHANGED <<memory, armed, off>>
    BY <1>3 DEF Begin
  <2>3. ~ armed /\ memory[Stack] = "restart" /\ ~ off
    BY <1>1, <1>3, ContextFound DEF Inv, Restored, Program, ReaderInPlace
  <2>4. at' \in Nat /\ done' \in 0 .. at' /\ region' \in 0 .. N /\ retry' \in Nat
    <3>1. at \in Nat /\ Left \in Nat
      BY <1>1, LeftFacts
    <3> QED
      BY <2>2, <3>1, RegionNumbers
  <2>5. Types'
    BY <2>1, <2>2, <2>4 DEF Inv, Types
  <2>6. WriterInPlace' /\ WriterMemory' /\ Restored' /\ ReaderInPlace'
    BY <2>2, <2>3 DEF WriterInPlace, WriterMemory, Restored, Program, ReaderInPlace
  <2> QED
    BY <2>1, <2>5, <2>6 DEF Inv
<1> QED
  BY <1>2, <1>3 DEF ReadContext

\* A read fails, and read_already may no longer be the offset.
LEMMA ReadFailsKeeps ==
  ASSUME Inv, ReadFails
  PROVE  Inv'
<1>1. pc \in {"r_header", "r_data", "r_context"} /\ UNCHANGED image
  BY DEF ReadFails, Reading
<1>2. CASE \E how \in {"dead", "wild"} : Stops(how)
  BY <1>1, <1>2, StopsAlone
<1>3. CASE pc = "r_data" /\ off' = TRUE /\ NextChunk(0) /\ UNCHANGED <<memory, armed, fd>>
  <2>1. ~ armed /\ fd' \in BOOLEAN /\ memory' \in [Regions -> Vals]
    BY <1>3 DEF Inv, Restored, Program, Types
  <2>2. 0 \in Nat /\ off' \in BOOLEAN
    BY <1>3
  <2> QED
    BY <1>1, <1>3, <2>1, <2>2, NextChunkKeeps
<1> QED
  BY <1>2, <1>3 DEF ReadFails

\* Every step keeps the invariant.
LEMMA StepInv ==
  ASSUME Inv, [Next]_vars
  PROVE  Inv'
<1>1. CASE UNCHANGED vars
  BY <1>1
     DEF vars, place, Inv, Types, UnitsInPlace, WriterInPlace, WriterMemory, Restored,
          ReaderInPlace, StackRead, Program, Units
<1>2. CASE Kill
  <2>1. Stops("dead") /\ UNCHANGED image
    BY <1>2 DEF Kill
  <2> QED
    BY <2>1, StopsAlone
<1>3. CASE Handler
  BY <1>3, ReadMapsKeeps, GetContextKeeps, TestRestartKeeps, WriteKeeps DEF Handler
<1>4. CASE Restore
  BY <1>4, ReadHeaderKeeps, ReadDataKeeps, ReadContextKeeps, ReadFailsKeeps,
     ReadLessKeeps DEF Restore
<1>5. CASE \E r \in Regions, v \in Values : Work(r, v)
  BY <1>5, WorkKeeps
<1>6. CASE SigHandler
  BY <1>6, SigHandlerKeeps
<1>7. CASE Restart
  BY <1>7, RestartKeeps
<1>8. CASE RemoveImage
  BY <1>8, RemoveImageKeeps
<1> QED
  BY <1>1, <1>2, <1>3, <1>4, <1>5, <1>6, <1>7, <1>8 DEF Next

\* The invariant holds in every state.
LEMMA Invariant == Spec => []Inv
<1>1. Init => Inv
  BY InitInv
<1>2. Inv /\ [Next]_vars => Inv'
  BY StepInv
<1> QED
  BY <1>1, <1>2, PTL DEF Spec

\* A process that myrestart has made never gets from getcontext into the code
\* of sig_handler that writes the image: the stack is among the regions read before
\* the registers are found, and it was saved with `restart' set (ckpt.c:48, 50).
THEOREM RestoredDoesNotWrite == Spec => []RestoredNeverWrites
<1>1. Inv => RestoredNeverWrites
  BY DEF Inv, Restored, RestoredNeverWrites
<1> QED
  BY <1>1, Invariant, PTL

\* A complete image has the length of every image.
LEMMA WholeFacts ==
  ASSUME Whole
  PROVE  Len(Units) = Offset[N] + ContextSize
<1>1. PICK m \in Memories : Units = ImageOf(m)
  BY DEF Whole, Images
<1> QED
  BY <1>1, ImageFacts DEF Lies

\* restore_memory never takes data for a header nor one region's data for
\* another's, however short reads and writes were and wherever the writer was
\* killed: as long as read_already is the offset, the reader is at a place where
\* the header, data or registers it looks for belong, and nothing else does.
THEOREM ReaderStaysInStep == Spec => []ReaderInStep
<1>1. ASSUME Inv PROVE ReaderInStep
  <2>0. /\ Offset[N] \in Nat /\ ContextSize \in Nat \ {0} /\ Len(Units) \in Nat /\ at \in Nat
        /\ done \in Nat /\ done <= at
    <3>1. Len(Units) \in Nat
      BY <1>1 DEF Inv, Types, Units
    <3> QED
      BY <1>1, <3>1, LeftFacts, LayoutFacts, BeforeRegisters, OffsetSteps, RegionNumbers
  <2>1. ASSUME ~ off, at < Len(Units), pc = "r_header"
        PROVE  Units[at + 1].what \in {"header"} \cup (IF Whole THEN {} ELSE {"context"})
    <3>1. BelongsAt(at + 1, Units[at + 1])
      BY <1>1, <2>0, <2>1 DEF Inv, UnitsInPlace
    <3>2. PICK q \in 0 .. N : at = Offset[q]
      BY <1>1, <2>1 DEF Inv, ReaderInPlace
    <3>3. CASE \E k \in Saved : q < k
      <4>1. NextSaved(q) \in Saved /\ at = Offset[NextSaved(q) - 1]
        BY <3>2, <3>3, NextSavedFacts
      <4>2. Units[at + 1] = Header(NextSaved(q))
        BY <3>1, <4>1, HeaderBelongs
      <4> QED
        BY <4>2, UnitFields
    <3>4. CASE \A k \in Saved : ~ (q < k)
      <4>1. N \in Nat /\ N \in 0 .. N /\ q <= N /\ \A k \in q + 1 .. N : k \notin Saved
        BY <3>4, LayoutFacts
      <4>2. at = Offset[N]
        BY <3>2, <4>1, OffsetSkips
      <4>3. 1 \in 1 .. ContextSize
        BY <2>0
      <4>4. Units[at + 1].what = "context"
        <5>1. BelongsAt(Offset[N] + 1, Units[at + 1])
          BY <3>1, <4>2
        <5>2. Units[at + 1] = Context[1]
          BY <4>3, <5>1, ContextBelongs
        <5> QED
          BY <4>3, <5>2, UnitFields
      <4>5. ~ Whole
        <5> SUFFICES ASSUME Whole PROVE FALSE
          OBVIOUS
        <5>1. Len(Units) - at = ContextSize
          BY <2>0, <4>2, WholeFacts
        <5> QED
          BY <1>1, <2>1, <5>1 DEF Inv, ReaderInPlace
      <4> QED
        BY <4>4, <4>5
    <3> QED
      BY <3>3, <3>4
  <2>2. ASSUME ~ off, at < Len(Units), pc = "r_data"
        PROVE  Units[at + 1].what = "data" /\ Units[at + 1].region = region
    <3>1. BelongsAt(at + 1, Units[at + 1])
      BY <1>1, <2>0, <2>2 DEF Inv, UnitsInPlace
    <3>2. region \in Saved /\ at = Offset[region - 1] + 1 + done /\ done < Layout[region].size
      BY <1>1, <2>2 DEF Inv, ReaderInPlace
    <3>3. Offset[region - 1] \in Nat /\ Layout[region].size \in Nat
      BY <3>2, OffsetOrder
    <3>4. done + 1 \in 1 .. Layout[region].size /\ at + 1 = Offset[region - 1] + 1 + (done + 1)
      BY <2>0, <3>2, <3>3, SMTT(30)
    <3>5. \E v \in Pages(region) : Units[at + 1] = Unit("data", region, done + 1, v)
      BY <3>1, <3>2, <3>4, DataBelongs
    <3> QED
      BY <3>5, UnitFields
  <2>3. ASSUME at < Len(Units), pc = "r_context", Whole
        PROVE  Units[at + 1].what = "context"
    <3>1. BelongsAt(at + 1, Units[at + 1])
      BY <1>1, <2>0, <2>3 DEF Inv, UnitsInPlace
    <3>2. Len(Units) - (at - done) = ContextSize /\ done < ContextSize
      BY <1>1, <2>3 DEF Inv, ReaderInPlace
    <3>3. done + 1 \in 1 .. ContextSize /\ at + 1 = Offset[N] + (done + 1)
      BY <2>0, <2>3, <3>2, WholeFacts
    <3>4. BelongsAt(Offset[N] + (done + 1), Units[at + 1])
      BY <3>1, <3>3
    <3>5. Units[at + 1] = Context[done + 1]
      BY <3>3, <3>4, ContextBelongs
    <3> QED
      BY <3>3, <3>5, UnitFields
  <2> QED
    BY <2>1, <2>2, <2>3 DEF ReaderInStep
<1>2. Inv => ReaderInStep
  BY <1>1
<1> QED
  BY <1>2, Invariant, PTL

------------------------------------------------------------------------------
(* Without root's rights, an image is of one memory.                       *)

\* The memory of the program, and an image of it that may not be complete.
Mem == [r \in Saved \ {Stack} |-> memory[r]]
Begins(u, m) == Len(u) <= Len(ImageOf(m)) /\ \A p \in 1 .. Len(u) : u[p] = ImageOf(m)[p]

\* The handler appends: open() made the file.
ImageGrows ==
  /\ fd /\ Program => at = Len(Units) /\ image.there /\ Begins(Units, Mem)
  /\ Units # <<>> => image.there
  /\ pc = "run" \/ (pc = "test" /\ ~ armed) => ~ fd
OneMemory == \E m \in Memories : Begins(Units, m)

\* The regions up to q hold what the image has of them.
MemRead(q) == \A r \in Saved \ {Stack} : r <= q => memory[r] = Units[Offset[r - 1] + 2].val
ReadSoFar ==
  /\ pc = "r_header" /\ ~ off => \E q \in 0 .. N : at = Offset[q] /\ MemRead(q)
  /\ pc = "r_data" /\ ~ off => MemRead(region - 1)
  /\ pc = "r_context" => \E q \in 0 .. N : at - done = Offset[q] /\ MemRead(q)
Kept == ImageGrows /\ OneMemory /\ (Program => Mem \in Memories) /\ ReadSoFar

\* What belongs to a place of an image and is of memory m is what its image has there.
LEMMA BelongsToImage ==
  ASSUME NEW m \in Memories, NEW p \in Nat, NEW u, BelongsAt(p, u),
         u.what = "data" => u.val = PageOf(m, u.region)
  PROVE  p \in 1 .. Len(ImageOf(m)) /\ ImageOf(m)[p] = u
<1>0. Lies(ImageOf(m), m) /\ Offset[N] \in Nat /\ ContextSize \in Nat
  BY ImageFacts, LayoutFacts, BeforeRegisters
<1>1. Len(ImageOf(m)) = Offset[N] + ContextSize
  BY <1>0 DEF Lies
<1>2. ASSUME NEW r \in Saved, p = Offset[r - 1] + 1, u = Header(r)
      PROVE  p \in 1 .. Len(ImageOf(m)) /\ ImageOf(m)[p] = u
  <2>1. Offset[r - 1] + 1 + 0 <= Offset[N] /\ Offset[r - 1] \in Nat
    <3>1. 0 \in 0 .. Layout[r].size
      BY OffsetOrder
    <3> QED
      BY <3>1, OffsetOrder, BeforeRegisters
  <2>2. p \in 1 .. Len(ImageOf(m))
    BY <1>0, <1>1, <1>2, <2>1
  <2> QED
    BY <1>0, <1>2, <2>2 DEF Lies
<1>3. ASSUME NEW r \in Saved, NEW i \in 1 .. Layout[r].size, NEW v,
             p = Offset[r - 1] + 1 + i, u = Unit("data", r, i, v)
      PROVE  p \in 1 .. Len(ImageOf(m)) /\ ImageOf(m)[p] = u
  <2>1. Offset[r - 1] + 1 + i <= Offset[N] /\ Offset[r - 1] \in Nat
    <3>1. i \in 0 .. Layout[r].size
      BY OffsetOrder
    <3> QED
      BY <3>1, OffsetOrder, BeforeRegisters
  <2>2. p \in 1 .. Len(ImageOf(m))
    BY <1>0, <1>1, <1>3, <2>1
  <2>3. v = PageOf(m, r)
    BY <1>3, UnitFields
  <2> QED
    BY <1>0, <1>3, <2>2, <2>3 DEF Lies
<1>4. ASSUME NEW i \in 1 .. ContextSize, p = Offset[N] + i, u = Context[i]
      PROVE  p \in 1 .. Len(ImageOf(m)) /\ ImageOf(m)[p] = u
  <2>1. p \in 1 .. Len(ImageOf(m))
    BY <1>0, <1>1, <1>4
  <2> QED
    BY <1>0, <1>4, <2>1 DEF Lies
<1> QED
  BY <1>2, <1>3, <1>4 DEF BelongsAt

\* An empty image begins the image of any memory.
LEMMA BeginsNone ==
  ASSUME NEW m \in Memories
  PROVE  Begins(<<>>, m)
<1>1. Len(ImageOf(m)) \in Nat
  BY ImageFacts DEF Lies
<1> QED
  BY <1>1 DEF Begins

\* A step of the program that leaves the image and its memory alone.
LEMMA KeptSame ==
  ASSUME Kept, Program, Program', Units' = Units, image'.there = image.there, Mem' = Mem,
         fd' => fd /\ at' = at,
         pc' = "run" \/ (pc' = "test" /\ ~ armed') => ~ fd'
  PROVE  Kept'
<1>1. ImageGrows'
  BY DEF Kept, ImageGrows
<1>2. OneMemory'
  BY DEF Kept, OneMemory
<1>3. ReadSoFar'
  BY DEF ReadSoFar, Program
<1> QED
  BY <1>1, <1>2, <1>3 DEF Kept

\* Where the process ends.
LEMMA KeptStops ==
  ASSUME NEW how \in {"dead", "wild"}, Stops(how), OneMemory', Units' # <<>> => image'.there
  PROVE  Kept'
<1>1. pc' \in {"dead", "wild"} /\ fd' = FALSE
  BY DEF Stops
<1> QED
  BY <1>1 DEF Kept, ImageGrows, ReadSoFar, Program

\* Where the process ends and leaves the image alone.
LEMMA KeptStopsAlone ==
  ASSUME Kept, NEW how \in {"dead", "wild"}, Stops(how), UNCHANGED image
  PROVE  Kept'
<1>1. OneMemory' /\ (Units' # <<>> => image'.there)
  BY DEF Kept, OneMemory, ImageGrows, Units
<1> QED
  BY <1>1, KeptStops

\* Kept holds when the program starts.
LEMMA InitKept == Init => Kept
<1> SUFFICES ASSUME Init PROVE Kept
  OBVIOUS
<1>1. image = [there |-> FALSE, units |-> <<>>] /\ pc = "run" /\ fd = FALSE
  BY DEF Init
<1>2. Units = <<>>
  BY <1>1 DEF Units
<1>3. Mem \in Memories
  <2>1. ASSUME NEW r \in Saved \ {Stack} PROVE memory[r] \in Values
    <3>1. Init => Inv
      BY InitInv
    <3>2. armed
      BY DEF Init
    <3> QED
      BY <1>1, <3>1, <3>2 DEF Inv, WriterMemory, Program
  <2> QED
    BY <2>1 DEF Mem, Memories
<1>4. OneMemory
  BY <1>2, <1>3, BeginsNone DEF OneMemory
<1> QED
  BY <1>1, <1>2, <1>3, <1>4 DEF Kept, ImageGrows, ReadSoFar

\* The program writes to its memory: no handler is running.
LEMMA WorkKept ==
  ASSUME Inv, Kept, NEW r \in Regions, NEW v \in Values, Work(r, v)
  PROVE  Kept' /\ Units' = Units /\ pc = "run" /\ pc' = "run"
<1>1. /\ pc = "run" /\ r \in Saved \ {Stack} /\ memory' = [memory EXCEPT ![r] = v]
      /\ UNCHANGED <<image, pc, armed, fd>>
  BY DEF Work
<1>2. ~ fd /\ Mem \in Memories
  BY <1>1 DEF Kept, ImageGrows, Program
<1>3. Mem' \in Memories
  <2>1. ASSUME NEW q \in Saved \ {Stack} PROVE memory'[q] \in Values
    <3>1. memory[q] \in Values
      BY <1>2 DEF Mem, Memories
    <3>2. memory'[q] = IF q = r THEN v ELSE memory[q]
      BY <1>1 DEF Inv, Types, Saved
    <3> QED
      BY <3>1, <3>2
  <2> QED
    BY <2>1 DEF Mem, Memories
<1> QED
  BY <1>1, <1>2, <1>3 DEF Kept, ImageGrows, OneMemory, ReadSoFar, Units

\* The memory of the program is what it has besides `restart'.
LEMMA MemOtherThanStack ==
  ASSUME NEW v, memory \in [Regions -> Vals], memory' = [memory EXCEPT ![Stack] = v]
  PROVE  Mem' = Mem
<1>1. \A r \in Saved \ {Stack} : memory'[r] = memory[r]
  BY DEF Saved
<1> QED
  BY <1>1 DEF Mem

\* The handler gets a descriptor only of a file it has just made.
LEMMA SigHandlerKept ==
  ASSUME Inv, Kept, ~ Root, SigHandler
  PROVE  Kept' /\ Units' = Units /\ Mem' = Mem /\ pc = "run" /\ pc' = "maps"
         /\ (Units # <<>> => image' = image)
<1>1. /\ pc = "run" /\ armed /\ pc' = "maps" /\ memory' = [memory EXCEPT ![Stack] = "restart"]
      /\ fd' \in {FALSE, Opens} /\ image' = [image EXCEPT !.there = @ \/ fd'] /\ at' = at
  BY DEF SigHandler, place, FlagSaved
<1>2. memory \in [Regions -> Vals] /\ image \in [there : BOOLEAN, units : Seq(UnitSet)]
        /\ at = 0
      /\ Units \in Seq(UnitSet)
  BY <1>1 DEF Inv, Types, WriterInPlace, Units
<1>3. Mem' = Mem /\ Mem \in Memories
  BY <1>1, <1>2, MemOtherThanStack DEF Kept, Program
<1>4. Units' = Units
  BY <1>1, <1>2 DEF Units
<1>5. ASSUME fd' PROVE Units = <<>> /\ image'.there
  <2>1. ~ image.there
    BY <1>1, <1>5 DEF Opens
  <2> QED
    BY <1>1, <1>2, <1>5, <2>1 DEF Kept, ImageGrows
<1>6. Units # <<>> => image' = image
  <2> SUFFICES ASSUME Units # <<>> PROVE image' = image
    OBVIOUS
  <2>1. image.there /\ ~ fd'
    BY <1>5 DEF Kept, ImageGrows
  <2>2. image.there = TRUE
    BY <1>2, <2>1
  <2>3. (image.there \/ fd') = image.there
    BY <2>2
  <2> QED
    BY <1>1, <1>2, <2>3
<1>7. ImageGrows'
  <2>1. ASSUME fd' PROVE at' = Len(Units') /\ image'.there /\ Begins(Units', Mem')
    <3>1. Units' = <<>>
      BY <1>4, <1>5, <2>1
    <3>2. Begins(<<>>, Mem')
      BY <1>3, BeginsNone
    <3> QED
      BY <1>1, <1>2, <1>5, <2>1, <3>1, <3>2
  <2>2. Units' # <<>> => image'.there
    BY <1>4, <1>6 DEF Kept, ImageGrows
  <2> QED
    BY <1>1, <2>1, <2>2 DEF ImageGrows
<1>8. OneMemory' /\ ReadSoFar'
  BY <1>1, <1>4 DEF Kept, OneMemory, ReadSoFar
<1> QED
  BY <1>1, <1>3, <1>4, <1>6, <1>7, <1>8 DEF Kept

\* my_read of the map goes through or gives up.
LEMMA ReadMapsKept ==
  ASSUME Inv, Kept, ReadMaps
  PROVE  /\ Kept' /\ Units' = Units /\ pc = "maps"
         /\ (pc' \in {"maps", "header"} /\ Mem' = Mem) \/ pc' = "dead"
<1>1. pc = "maps" /\ UNCHANGED image /\ Units' = Units
  BY DEF ReadMaps, Units
<1>2. at \in Nat
  BY DEF Inv, Types
<1>3. CASE Begin("header", NextSaved(0), 0) /\ UNCHANGED <<memory, armed, fd, off>>
  <2>1. pc' = "header" /\ at' = at /\ fd' = fd /\ Mem' = Mem
    BY <1>2, <1>3 DEF Begin, Mem
  <2> QED
    BY <1>1, <2>1, KeptSame DEF Program
<1>4. CASE Stops("dead")
  <2>1. pc' = "dead"
    BY <1>4 DEF Stops
  <2> QED
    BY <1>1, <1>4, <2>1, KeptStopsAlone
<1>5. CASE at' = at + 0 /\ UNCHANGED <<memory, pc, armed, fd, region, off>>
  <2>1. pc' = "maps" /\ at' = at /\ fd' = fd /\ Mem' = Mem
    BY <1>1, <1>2, <1>5 DEF Mem
  <2> QED
    BY <1>1, <2>1, KeptSame DEF Program
<1> QED
  BY <1>3, <1>4, <1>5 DEF ReadMaps, Again

\* The registers are taken.
LEMMA GetContextKept ==
  ASSUME Inv, Kept, GetContext
  PROVE  Kept' /\ Units' = Units /\ Mem' = Mem /\ pc = "reset" /\ pc' = "test"
<1>1. /\ pc = "reset" /\ pc' = "test" /\ memory' = [memory EXCEPT ![Stack] = "clear"]
      /\ UNCHANGED <<image, armed, fd>> /\ at' = at
  BY DEF GetContext, place
<1>2. memory \in [Regions -> Vals] /\ armed
  BY <1>1 DEF Inv, Types, Restored
<1>3. Mem' = Mem /\ Units' = Units
  BY <1>1, <1>2, MemOtherThanStack DEF Units
<1> QED
  BY <1>1, <1>2, <1>3, KeptSame DEF Program

\* The process goes on to write them, or as the program.
LEMMA TestRestartKept ==
  ASSUME Inv, Kept, TestRestart
  PROVE  Kept' /\ Units' = Units /\ Mem' = Mem /\ pc = "test" /\ pc' \in {"run", "context"}
<1>1. pc = "test" /\ UNCHANGED <<memory, image, armed>> /\ Units' = Units /\ Mem' = Mem
  BY DEF TestRestart, Units, Mem
<1>2. CASE Resume
  <2>1. pc' = "run" /\ fd' = FALSE
    BY <1>2 DEF Resume
  <2> QED
    BY <1>1, <2>1, KeptSame DEF Program
<1>3. CASE pc' = "context" /\ UNCHANGED <<fd, place>>
  <2>1. pc' = "context" /\ fd' = fd /\ at' = at
    BY <1>3 DEF place
  <2> QED
    BY <1>1, <2>1, KeptSame DEF Program
<1> QED
  BY <1>2, <1>3 DEF TestRestart

\* The image is removed.
LEMMA RemoveImageKept ==
  ASSUME Inv, Kept, RemoveImage
  PROVE  Kept' /\ Units' = <<>> /\ ~ image'.there /\ UNCHANGED <<pc, memory>>
<1>1. /\ pc \in {"run", "dead"} /\ image' = [there |-> FALSE, units |-> <<>>]
      /\ UNCHANGED <<memory, pc, armed, fd>>
  BY DEF RemoveImage
<1>2. Units' = <<>> /\ ~ image'.there
  BY <1>1 DEF Units
<1>3. OneMemory'
  <2>1. PICK m \in Memories : TRUE
    BY DEF Kept, OneMemory
  <2>2. Begins(<<>>, m)
    BY BeginsNone
  <2> QED
    BY <1>2, <2>2 DEF OneMemory
<1>4. ImageGrows' /\ ReadSoFar'
  BY <1>1, <1>2 DEF Kept, ImageGrows, ReadSoFar, Program
<1>5. Program' => Mem' \in Memories
  BY <1>1 DEF Kept, Program, Mem
<1> QED
  BY <1>1, <1>2, <1>3, <1>4, <1>5 DEF Kept

\* Sequences that agree everywhere.
LEMMA SameSeq ==
  ASSUME NEW S, NEW a \in Seq(S), NEW b \in Seq(S), Len(a) = Len(b),
         \A p \in 1 .. Len(a) : a[p] = b[p]
  PROVE  a = b
OBVIOUS

\* A write of nothing leaves the image as it was.
LEMMA NothingWritten ==
  ASSUME Inv, 0 \in 0 .. Left, Write(0)
  PROVE  image' = image
<1>1. /\ Writes(Units', Units, at, Rest(0)) /\ Units' \in Seq(UnitSet) /\ Units \in Seq(UnitSet)
      /\ image' = [image EXCEPT !.units = Patched(@, Rest(0))]
      /\ image \in [there : BOOLEAN, units : Seq(UnitSet)]
  BY WriteFacts DEF Write, Inv, Types, Units
<1>2. Len(Rest(0)) = 0
  BY RestBelongs DEF RestRight, Write
<1>3. /\ Len(Units) <= Len(Units') /\ Len(Units) \in Nat /\ Len(Units') \in Nat
      /\ \A p \in 1 .. Len(Units') : p \in 1 .. Len(Units) /\ Units'[p] = Units[p]
  <2>1. \A p \in 1 .. Len(Units') : p - at \notin 1 .. Len(Rest(0))
    BY <1>2
  <2> QED
    BY <1>1, <2>1 DEF Writes
<1>4. Len(Units') <= Len(Units)
  <2>1. CASE Len(Units') = 0
    BY <1>3, <2>1
  <2>2. CASE Len(Units') # 0
    <3>1. Len(Units') \in 1 .. Len(Units')
      BY <1>3, <2>2
    <3> QED
      BY <1>3, <3>1
  <2> QED
    BY <2>1, <2>2
<1>5. Units' = Units
  <2>1. Len(Units') = Len(Units)
    BY <1>3, <1>4
  <2> QED
    BY <1>1, <1>3, <2>1, SameSeq
<1> QED
  BY <1>1, <1>5 DEF Units

\* What the handler writes continues the image of its memory, which was not whole.
LEMMA WriteGrows ==
  ASSUME Inv, Kept, NEW n \in 0 .. Left, Write(n), n # 0
  PROVE  /\ fd /\ Len(Units') = at + n /\ Begins(Units', Mem) /\ Mem \in Memories /\ ~ Whole
<1>1. pc \in {"header", "data", "context"} /\ fd /\ n \in Nat \ {0}
  <2>1. pc \in {"header", "data", "context"}
    BY DEF Write
  <2>2. Left \in Nat
    BY <2>1, LeftFacts
  <2> QED
    BY <2>1, <2>2 DEF Write
<1>2. at = Len(Units) /\ at \in Nat /\ Begins(Units, Mem) /\ Mem \in Memories /\ armed
  BY <1>1 DEF Kept, ImageGrows, Program, Inv, Types, Restored
<1>3. Writes(Units', Units, at, Rest(n)) /\ RestRight(n)
  BY <1>1, WriteFacts, RestBelongs
<1>4. Len(Units') = at + n /\ Len(Rest(n)) = n
  BY <1>2, <1>3 DEF Writes, RestRight
<1>5. ASSUME NEW j \in 1 .. n
      PROVE  at + j \in 1 .. Len(ImageOf(Mem)) /\ ImageOf(Mem)[at + j] = Rest(n)[j]
  <2>1. BelongsAt(at + j, Rest(n)[j]) /\ at + j \in Nat
    BY <1>1, <1>2, <1>3 DEF RestRight
  <2>2. ASSUME Rest(n)[j].what = "data" PROVE Rest(n)[j].val = PageOf(Mem, Rest(n)[j].region)
    <3> DEFINE r == Rest(n)[j].region
    <3>1. r \in Saved /\ pc = "data" /\ Rest(n)[j].val = memory[r]
      BY <1>3, <2>2 DEF RestRight
    <3>2. memory[Stack] = "restart"
      BY <3>1 DEF Inv, WriterMemory
    <3>3. r # Stack => Mem[r] = memory[r]
      BY <3>1 DEF Mem
    <3> QED
      BY <3>1, <3>2, <3>3 DEF PageOf
  <2> QED
    BY <1>2, <2>1, <2>2, BelongsToImage
<1>6. Len(ImageOf(Mem)) = Offset[N] + ContextSize /\ Offset[N] \in Nat /\ ContextSize \in Nat
  BY <1>2, ImageFacts, LayoutFacts, BeforeRegisters DEF Lies
<1>7. at + n <= Len(ImageOf(Mem))
  <2>1. n \in 1 .. n
    BY <1>1
  <2> QED
    BY <1>5, <1>6, <2>1
<1>8. ~ Whole
  <2> SUFFICES ASSUME Whole PROVE FALSE
    OBVIOUS
  <2>1. at = Len(ImageOf(Mem))
    BY <1>2, <1>6, WholeFacts
  <2> QED
    BY <1>1, <1>2, <1>6, <1>7, <2>1
<1>9. ASSUME NEW p \in 1 .. Len(Units') PROVE Units'[p] = ImageOf(Mem)[p]
  <2>1. CASE p - at \in 1 .. Len(Rest(n)) /\ Units'[p] = Rest(n)[p - at]
    <3>1. p - at \in 1 .. n /\ at + (p - at) = p
      BY <1>2, <1>4, <2>1
    <3>2. ImageOf(Mem)[at + (p - at)] = Rest(n)[p - at]
      BY <1>5, <3>1
    <3> QED
      BY <2>1, <3>1, <3>2
  <2>2. CASE p \in 1 .. Len(Units) /\ Units'[p] = Units[p]
    BY <1>2, <2>2 DEF Begins
  <2> QED
    BY <1>3, <2>1, <2>2 DEF Writes
<1> QED
  BY <1>1, <1>2, <1>4, <1>7, <1>8, <1>9 DEF Begins

\* Where a call is broken off, more was to come.
LEMMA MoreToCome ==
  ASSUME Inv, pc \in {"header", "data", "context"}, NEW n \in 0 .. Left, n # Left
  PROVE  at + n < Offset[N] + ContextSize
<1>1. at \in Nat /\ done \in Nat /\ Offset[N] \in Nat /\ ContextSize \in Nat \ {0}
        /\ Left \in Nat
      /\ n \in Nat /\ n < Left
  <2>1. at \in Nat /\ done \in Nat /\ Left \in Nat
    BY LeftFacts
  <2>2. Offset[N] \in Nat /\ ContextSize \in Nat \ {0}
    BY BeforeRegisters, LayoutFacts, RegionNumbers
  <2> QED
    BY <2>1, <2>2
<1>2. CASE pc = "header"
  <2>1. region \in Saved /\ at = Offset[region - 1] /\ n = 0
    BY <1>1, <1>2, LeftFacts DEF Inv, WriterInPlace
  <2>2. Offset[region - 1] + 1 + 0 <= Offset[N] /\ Offset[region - 1] \in Nat
    <3>1. 0 \in 0 .. Layout[region].size
      BY <2>1, OffsetOrder
    <3> QED
      BY <2>1, <3>1, OffsetOrder, BeforeRegisters
  <2> QED
    BY <1>1, <2>1, <2>2
<1>3. CASE pc = "data"
  <2>1. region \in Saved /\ at = Offset[region - 1] + 1 + done
          /\ Left = Layout[region].size - done
    BY <1>3, LeftFacts DEF Inv, WriterInPlace
  <2>2. Layout[region].size \in Nat /\ Offset[region - 1] \in Nat
    BY <2>1, OffsetOrder
  <2>3. Offset[region - 1] + 1 + Layout[region].size <= Offset[N]
    <3>1. Layout[region].size \in 0 .. Layout[region].size
      BY <2>2
    <3> QED
      BY <2>1, <3>1, BeforeRegisters
  <2>4. PICK o \in Nat, s \in Nat, e \in Nat :
          o = Offset[region - 1] /\ s = Layout[region].size /\ e = Offset[N]
    BY <1>1, <2>2
  <2>5. at = o + 1 + done /\ n < s - done /\ o + 1 + s <= e
    BY <1>1, <2>1, <2>3, <2>4
  <2>6. at + n < e
    BY <1>1, <2>4, <2>5
  <2> QED
    BY <1>1, <2>4, <2>6
<1>4. CASE pc = "context"
  <2>1. at = Offset[N] + done /\ Left = ContextSize - done
    BY <1>4, LeftFacts DEF Inv, WriterInPlace
  <2> QED
    BY <1>1, <2>1
<1> QED
  BY <1>2, <1>3, <1>4

\* A write, after which the program goes on, or, where more was to come, does not.
LEMMA WriteKept ==
  ASSUME Inv, Kept, NEW n \in 0 .. Left, Write(n)
  PROVE  /\ Kept' /\ Program
         /\ \/ Program' /\ Mem' = Mem
            \/ pc' = "dead" /\ (n # 0 => ~ Whole')
<1>1. pc \in {"header", "data", "context"} /\ n <= Left /\ (fd \/ n = 0)
      /\ at \in Nat /\ n \in Nat /\ Left \in Nat \ {0}
  <2>1. pc \in {"header", "data", "context"} /\ (fd \/ n = 0)
    BY DEF Write
  <2>2. at \in Nat /\ Left \in Nat \ {0}
    BY <2>1, LeftFacts
  <2> QED
    BY <2>1, <2>2
<1>2. image'.there = image.there
  BY WriteFacts
<1>3. CASE n = 0
  <2>1. image' = image /\ Units' = Units
    BY <1>3, NothingWritten DEF Units
  <2>2. Again(n)
    BY <1>1, <1>3 DEF Write
  <2>3. CASE Stops("dead")
    BY <1>1, <1>3, <2>1, <2>3, KeptStopsAlone DEF Stops, Program
  <2>4. CASE at' = at + n /\ UNCHANGED <<memory, pc, armed, fd, region, off>>
    <3>1. at' = at /\ Mem' = Mem /\ fd' = fd /\ pc' = pc
      BY <1>1, <1>3, <2>4 DEF Mem
    <3> QED
      BY <1>1, <2>1, <3>1, KeptSame DEF Program
  <2> QED
    BY <2>2, <2>3, <2>4 DEF Again
<1>4. CASE n # 0
  <2>1. /\ fd /\ Len(Units') = at + n /\ Begins(Units', Mem) /\ Mem \in Memories
    BY <1>4, WriteGrows
  <2>2. image.there /\ OneMemory'
    BY <1>1, <2>1 DEF Kept, ImageGrows, Program, OneMemory
  <2>3. ASSUME pc' \in {"run", "header", "data", "reset", "context"}, Mem' = Mem,
               at' = at + n \/ ~ fd', pc' = "run" => ~ fd'
        PROVE  Kept' /\ Program'
    <3>1. ImageGrows'
      BY <1>2, <2>1, <2>2, <2>3 DEF ImageGrows
    <3>2. Program' /\ ReadSoFar' /\ Mem' \in Memories
      BY <2>1, <2>3 DEF Program, ReadSoFar
    <3> QED
      BY <2>2, <3>1, <3>2 DEF Kept
  <2>4. CASE n = Left
    <3>1. AfterChunk(n) /\ UNCHANGED <<memory, armed, off>>
      BY <2>4 DEF Write
    <3>2. /\ pc' \in {"run", "header", "data", "reset", "context"}
          /\ at' = at + n \/ ~ fd'
          /\ pc' = "run" => ~ fd'
      BY <3>1 DEF AfterChunk, Begin, Resume
    <3>3. Mem' = Mem
      BY <3>1 DEF Mem
    <3> QED
      BY <1>1, <2>3, <3>2, <3>3 DEF Program
  <2>5. CASE n # Left
    <3>1. Again(n)
      BY <2>5 DEF Write
    <3>2. CASE Stops("dead")
      <4>1. Kept'
        BY <1>2, <2>2, <3>2, KeptStops
      <4>2. ~ Whole'
        <5> SUFFICES ASSUME Whole' PROVE FALSE
          OBVIOUS
        <5>1. PICK m \in Memories : Units' = ImageOf(m)
          BY DEF Whole, Images
        <5>2. Len(Units') = Offset[N] + ContextSize
          BY <5>1, ImageFacts DEF Lies
        <5>3. at + n < Offset[N] + ContextSize
          BY <1>1, <2>5, MoreToCome
        <5>4. Offset[N] \in Nat /\ ContextSize \in Nat
          BY BeforeRegisters, LayoutFacts, RegionNumbers
        <5> QED
          BY <1>1, <2>1, <5>2, <5>3, <5>4
      <4>3. pc' = "dead"
        BY <3>2 DEF Stops
      <4> QED
        BY <1>1, <4>1, <4>2, <4>3 DEF Program
    <3>3. CASE at' = at + n /\ UNCHANGED <<memory, pc, armed, fd, region, off>>
      <4>1. Mem' = Mem /\ pc' = pc
        BY <3>3 DEF Mem
      <4> QED
        BY <1>1, <2>3, <3>3, <4>1 DEF Program
    <3> QED
      BY <3>1, <3>2, <3>3 DEF Again
  <2> QED
    BY <2>4, <2>5
<1> QED
  BY <1>3, <1>4

\* The restarter reads no more than the image.
LEMMA KeptReading ==
  ASSUME Kept, UNCHANGED image, ~ Program', ReadSoFar'
  PROVE  Kept'
<1>1. Units' = Units
  BY DEF Units
<1>2. OneMemory' /\ ImageGrows'
  BY <1>1 DEF Kept, OneMemory, ImageGrows, Program
<1> QED
  BY <1>2 DEF Kept

\* The next header or the registers come when a region has been read.
LEMMA NextChunkKept ==
  ASSUME Inv, Kept, UNCHANGED image, NEW n \in Nat, NextChunk(n),
         ~ off' => \E q \in 0 .. N :
           at + n = Offset[q] /\
           \A r \in Saved \ {Stack} : r <= q => memory'[r] = Units[Offset[r - 1] + 2].val
  PROVE  Kept' /\ ~ Program'
<1>1. Units' = Units
  BY DEF Units
<1>2. at' = at + n /\ done' = 0 /\ pc' = (IF LoopEnds(n) THEN "r_context" ELSE "r_header")
  BY DEF NextChunk, Begin
<1>3. ~ off' => \E q \in 0 .. N : at' = Offset[q] /\ MemRead(q)'
  BY <1>1, <1>2 DEF MemRead
<1>4. at' - done' = at' /\ (pc' = "r_context" => ~ off')
  <2>1. at \in Nat
    BY LeftFacts
  <2> QED
    BY <1>2, <2>1 DEF LoopEnds
<1>5. ~ Program' /\ ReadSoFar'
  BY <1>2, <1>3, <1>4 DEF Program, ReadSoFar
<1> QED
  BY <1>5, KeptReading

\* The restarter begins: nothing has been read.
LEMMA RestartKept ==
  ASSUME Inv, Kept, Restart
  PROVE  Kept' /\ Units' = Units /\ ~ Program /\ ~ Program'
<1>1. pc = "dead" /\ NextChunk(0) /\ UNCHANGED <<memory, image, armed>> /\ Units' = Units
  BY DEF Restart, Units
<1>2. 0 \in 0 .. N /\ at + 0 = Offset[0] /\ 0 \in Nat /\ \A r \in Saved : ~ (r <= 0)
  <2>1. at = 0
    BY <1>1 DEF Inv, WriterInPlace
  <2> QED
    BY <2>1, LayoutFacts, OffsetSteps, RegionNumbers
<1>3. Kept' /\ ~ Program'
  BY <1>1, <1>2, NextChunkKept
<1> QED
  BY <1>1, <1>3 DEF Program

\* A part is read.
LEMMA ReadLessKept ==
  ASSUME Inv, Kept, NEW n \in 0 .. Left, ReadLess(n)
  PROVE  Kept' /\ Units' = Units /\ ~ Program /\ ~ Program'
<1>1. /\ pc \in {"r_header", "r_data", "r_context"} /\ UNCHANGED image /\ n < Left /\ Again(n)
      /\ Units' = Units
  BY DEF ReadLess, Reading, Units
<1>2. CASE Stops("dead")
  BY <1>1, <1>2, KeptStopsAlone DEF Stops, Program
<1>3. CASE /\ done' = done + n /\ at' = at + n
           /\ UNCHANGED <<memory, pc, armed, fd, region, off>>
  <2>1. n \in Nat /\ at \in Nat /\ done \in Nat /\ done <= at
    <3>1. Left \in Nat /\ at \in Nat /\ done \in Nat /\ done <= at
      BY <1>1, LeftFacts
    <3> QED
      BY <3>1
  <2>2. at' - done' = at - done
    BY <1>3, <2>1
  <2>3. pc = "r_header" => at' = at
    BY <1>1, <1>3, <2>1, LeftFacts
  <2>4. ReadSoFar' /\ ~ Program'
    BY <1>1, <1>3, <2>2, <2>3 DEF Kept, ReadSoFar, MemRead, Program
  <2> QED
    BY <1>1, <2>4, KeptReading DEF Program
<1> QED
  BY <1>1, <1>2, <1>3 DEF Again

\* A header is read: its region is mapped, those before it stay.
LEMMA ReadHeaderKept ==
  ASSUME Inv, Kept, ReadHeader
  PROVE  Kept' /\ Units' = Units /\ ~ Program /\ ~ Program'
<1>1. pc = "r_header" /\ UNCHANGED image /\ Readable /\ Units' = Units
  BY DEF ReadHeader, Reading, Units
<1>2. CASE \E how \in {"dead", "wild"} : Stops(how)
  BY <1>1, <1>2, KeptStopsAlone DEF Stops, Program
<1>3. CASE /\ Got[1].what = "header"
           /\ Begin("r_data", Got[1].region, Left)
           /\ memory' = [memory EXCEPT ![Got[1].region] = "torn"]
           /\ UNCHANGED <<armed, fd, off>>
  <2>1. Left = 1 /\ done = 0 /\ at \in Nat
    BY <1>1, LeftFacts
  <2>2. BelongsAt(at + 1, Got[1])
    <3>1. BelongsAt((at - done) + 1, Got[1])
      <4>1. 1 \in 1 .. Left + done
        BY <2>1
      <4> QED
        BY <1>1, <4>1, GotFacts
    <3>2. (at - done) + 1 = at + 1
      BY <2>1
    <3> QED
      BY <3>1, <3>2
  <2>3. PICK r \in Saved : at + 1 = Offset[r - 1] + 1 /\ Got[1] = Header(r)
    <3>1. Got[1].what # "data" /\ Got[1].what # "context"
      BY <1>3
    <3> QED
      BY <2>2, <3>1, UnitFields DEF BelongsAt
  <2>4. Got[1].region = r /\ r \in Regions /\ r - 1 \in 0 .. N /\ r \in Nat
    BY <2>3, LayoutFacts, UnitFields
  <2>5. at = Offset[r - 1]
    BY <2>1, <2>3, OffsetOrder
  <2>6. pc' = "r_data" /\ region' = r /\ off' = off /\ memory' = [memory EXCEPT ![r] = "torn"]
    BY <1>3, <2>4 DEF Begin
  <2>7. ASSUME ~ off PROVE MemRead(r - 1)'
    <3>1. PICK q \in 0 .. N : at = Offset[q] /\ MemRead(q)
      BY <1>1, <2>7 DEF Kept, ReadSoFar
    <3> SUFFICES ASSUME NEW k \in Saved \ {Stack}, k <= r - 1
                 PROVE  memory'[k] = Units[Offset[k - 1] + 2].val
      BY <1>1 DEF MemRead
    <3>2. k <= q
      BY <2>4, <2>5, <3>1, SavedBefore
    <3>3. k # r /\ k \in Regions
      BY <2>4, LayoutFacts
    <3>4. memory'[k] = memory[k]
      BY <2>6, <3>3 DEF Inv, Types
    <3> QED
      BY <3>1, <3>2, <3>4 DEF MemRead
  <2>8. ReadSoFar' /\ ~ Program'
    BY <2>6, <2>7 DEF ReadSoFar, Program
  <2> QED
    BY <1>1, <2>8, KeptReading DEF Program
<1> QED
  BY <1>2, <1>3 DEF ReadHeader

\* A region of one memory is read back as it was.
LEMMA FilledKept ==
  ASSUME Inv, Kept, pc = "r_data", Readable, ~ off
  PROVE  Filled = Units[Offset[region - 1] + 2].val
<1>1. region \in Saved /\ Left + done = Layout[region].size /\ done \in Nat
        /\ Layout[region].size \in Nat \ {0}
  <2>1. region \in Saved /\ Left = Layout[region].size - done /\ done \in Nat
    BY LeftFacts
  <2>2. Layout[region].size \in Nat \ {0}
    BY <2>1, OffsetOrder
  <2> QED
    BY <2>1, <2>2
<1>2. at - done = Offset[region - 1] + 1 /\ Offset[region - 1] \in Nat
  <2>1. at = Offset[region - 1] + 1 + done /\ Offset[region - 1] \in Nat
    BY <1>1, OffsetOrder DEF Inv, ReaderInPlace
  <2> QED
    BY <1>1, <2>1
<1>3. /\ DOMAIN Got = 1 .. Layout[region].size
      /\ \A i \in 1 .. Layout[region].size : /\ Offset[region - 1] + 1 + i \in 1 .. Len(Units)
                                             /\ Got[i] = Units[Offset[region - 1] + 1 + i]
  BY <1>1, <1>2, GotFacts
<1>4. PICK m \in Memories : Begins(Units, m)
  BY DEF Kept, OneMemory
<1>5. ASSUME NEW i \in 1 .. Layout[region].size
      PROVE  Got[i] = Unit("data", region, i, PageOf(m, region))
  <2>1. Got[i] = ImageOf(m)[Offset[region - 1] + 1 + i]
    BY <1>3, <1>4 DEF Begins
  <2>2. ImageOf(m)[Offset[region - 1] + 1 + i] = Unit("data", region, i, PageOf(m, region))
    BY <1>1, ImageFacts DEF Lies
  <2> QED
    BY <2>1, <2>2
<1>6. 1 \in 1 .. Layout[region].size
  BY <1>1
<1>7. Got[1].val = PageOf(m, region)
  BY <1>5, <1>6, UnitFields
<1>8. Filled = Got[1].val
  BY <1>3, <1>5, <1>7 DEF Filled
<1>9. Got[1] = Units[Offset[region - 1] + 2]
  <2>1. Offset[region - 1] + 1 + 1 = Offset[region - 1] + 2
    BY <1>2
  <2> QED
    BY <1>3, <1>6, <2>1
<1> QED
  BY <1>8, <1>9

\* A region is read, as it was saved.
LEMMA ReadDataKept ==
  ASSUME Inv, Kept, ReadData
  PROVE  Kept' /\ Units' = Units /\ ~ Program /\ ~ Program'
<1>1. /\ pc = "r_data" /\ UNCHANGED image /\ Readable
         /\ memory' = [memory EXCEPT ![region] = Filled]
      /\ off' = off /\ NextChunk(Left) /\ Units' = Units
  BY DEF ReadData, Reading, Units
<1>2. /\ region \in Saved /\ region \in 0 .. N /\ Left \in Nat /\ at \in Nat
      /\ Left = Layout[region].size - done /\ done \in Nat
  BY <1>1, LeftFacts, RegionNumbers
<1>3. ASSUME ~ off
      PROVE  /\ at + Left = Offset[region]
             /\ \A r \in Saved \ {Stack} :
                   r <= region => memory'[r] = Units[Offset[r - 1] + 2].val
  <2>1. at = Offset[region - 1] + 1 + done /\ MemRead(region - 1)
    BY <1>1, <1>3 DEF Inv, ReaderInPlace, Kept, ReadSoFar
  <2>2. Offset[region] = Offset[region - 1] + 1 + Layout[region].size
        /\ Offset[region - 1] \in Nat /\ Layout[region].size \in Nat /\ region \in 1 .. N
    BY <1>2, OffsetOrder
  <2>3. at + Left = Offset[region]
    BY <1>2, <2>1, <2>2
  <2>4. ASSUME NEW r \in Saved \ {Stack}, r <= region
        PROVE  memory'[r] = Units[Offset[r - 1] + 2].val
    <3>1. r \in Regions /\ r \in Nat
      <4>1. r \in 1 .. N /\ Regions = 1 .. N
        BY LayoutFacts
      <4> QED
        BY <4>1
    <3>2. memory'[r] = IF r = region THEN Filled ELSE memory[r]
      BY <1>1, <3>1 DEF Inv, Types
    <3>3. CASE r = region
      BY <1>1, <1>3, <3>2, <3>3, FilledKept
    <3>4. CASE r # region
      <4>1. r <= region - 1
        BY <2>2, <2>4, <3>1, <3>4
      <4> QED
        BY <2>1, <3>2, <3>4, <4>1 DEF MemRead
    <3> QED
      BY <3>3, <3>4
  <2> QED
    BY <2>3, <2>4
<1>4. Kept' /\ ~ Program'
  BY <1>1, <1>2, <1>3, NextChunkKept
<1> QED
  BY <1>1, <1>4 DEF Program

\* Where the registers are read, the image is whole, and its memory is mapped.
LEMMA AllRead ==
  ASSUME Inv, Kept, pc = "r_context", Readable, Got = Context
  PROVE  Mem \in Memories /\ Units = ImageOf(Mem)
<1>1. at - done = Offset[N]
  BY ContextFound
<1>2. Len(Units) = Offset[N] + ContextSize /\ Units \in Seq(UnitSet) /\ N \in 0 .. N
  <2>1. Len(Units) - (at - done) = ContextSize /\ Len(Units) \in Nat /\ Units \in Seq(UnitSet)
    BY DEF Inv, ReaderInPlace, Types, Units
  <2>2. Offset[N] \in Nat /\ ContextSize \in Nat /\ N \in 0 .. N
    BY LayoutFacts, BeforeRegisters
  <2> QED
    BY <1>1, <2>1, <2>2
<1>3. PICK m \in Memories : Begins(Units, m)
  BY DEF Kept, OneMemory
<1>4. Lies(ImageOf(m), m)
  BY ImageFacts
<1>5. PICK q \in 0 .. N : at - done = Offset[q] /\ MemRead(q)
  BY DEF Kept, ReadSoFar
<1>6. ASSUME NEW r \in Saved \ {Stack} PROVE memory[r] = m[r]
  <2>1. r <= N /\ 1 \in 1 .. Layout[r].size /\ Offset[r - 1] \in Nat
    BY LayoutFacts, OffsetOrder
  <2>2. r <= q
    BY <1>1, <1>2, <1>5, <2>1, SavedBefore
  <2>3. memory[r] = Units[Offset[r - 1] + 2].val
    BY <1>5, <2>2 DEF MemRead
  <2>4. Offset[r - 1] + 1 + 1 <= Offset[N] /\ Offset[N] \in Nat /\ ContextSize \in Nat
    <3>1. 1 \in 0 .. Layout[r].size
      BY OffsetOrder
    <3> QED
      BY <3>1, BeforeRegisters, LayoutFacts
  <2>5. Offset[r - 1] + 2 = Offset[r - 1] + 1 + 1 /\ Offset[r - 1] + 2 \in 1 .. Len(Units)
    BY <1>2, <2>1, <2>4
  <2>6. Units[Offset[r - 1] + 2] = ImageOf(m)[Offset[r - 1] + 1 + 1]
    BY <1>3, <2>5 DEF Begins
  <2>7. ImageOf(m)[Offset[r - 1] + 1 + 1] = Unit("data", r, 1, PageOf(m, r))
    BY <1>4, <2>1 DEF Lies
  <2>8. Units[Offset[r - 1] + 2].val = PageOf(m, r)
    BY <2>6, <2>7, UnitFields
  <2> QED
    BY <2>3, <2>8 DEF PageOf
<1>7. Mem = m
  BY <1>6 DEF Mem, Memories
<1>8. Units = ImageOf(m)
  <2>1. ImageOf(m) \in Seq(UnitSet) /\ Len(ImageOf(m)) = Len(Units)
    BY <1>2, <1>4 DEF Lies
  <2>2. \A p \in 1 .. Len(Units) : Units[p] = ImageOf(m)[p]
    BY <1>3 DEF Begins
  <2> QED
    BY <1>2, <2>1, <2>2, SameSeq
<1> QED
  BY <1>7, <1>8

\* A process that gets to the registers has all of the image's memory.
LEMMA ReadContextKept ==
  ASSUME Inv, Kept, ReadContext
  PROVE  /\ Kept' /\ Units' = Units /\ ~ Program
         /\ ~ Program' \/ (Mem' \in Memories /\ Units' = ImageOf(Mem'))
<1>1. pc = "r_context" /\ UNCHANGED image /\ Readable /\ Units' = Units /\ ~ armed
  BY DEF ReadContext, Reading, Units, Inv, Restored, Program
<1>2. CASE Stops("wild")
  BY <1>1, <1>2, KeptStopsAlone DEF Stops, Program
<1>3. CASE Got = Context /\ Begin("test", 0, Left) /\ fd' = FALSE
        /\ UNCHANGED <<memory, armed, off>>
  <2>1. pc' = "test" /\ fd' = FALSE /\ Mem' = Mem /\ ~ armed'
    BY <1>1, <1>3 DEF Begin, Mem
  <2>2. Mem \in Memories /\ Units = ImageOf(Mem)
    BY <1>1, <1>3, AllRead
  <2>3. OneMemory' /\ ImageGrows' /\ ReadSoFar'
    BY <1>1, <2>1 DEF Kept, OneMemory, ImageGrows, ReadSoFar
  <2> QED
    BY <1>1, <2>1, <2>2, <2>3 DEF Kept, Program
<1> QED
  BY <1>2, <1>3 DEF ReadContext

\* A read fails.
LEMMA ReadFailsKept ==
  ASSUME Inv, Kept, ReadFails
  PROVE  Kept' /\ Units' = Units /\ ~ Program /\ ~ Program'
<1>1. pc \in {"r_header", "r_data", "r_context"} /\ UNCHANGED image /\ Units' = Units
  BY DEF ReadFails, Reading, Units
<1>2. CASE \E how \in {"dead", "wild"} : Stops(how)
  BY <1>1, <1>2, KeptStopsAlone DEF Stops, Program
<1>3. CASE off' = TRUE /\ NextChunk(0)
  <2>1. 0 \in Nat /\ off'
    BY <1>3
  <2> QED
    BY <1>1, <1>3, <2>1, NextChunkKept DEF Program
<1> QED
  BY <1>2, <1>3 DEF ReadFails

------------------------------------------------------------------------------
(* Without root's rights: every step is one of the promise.                *)

\* What a step may do to the image and to the memory of the program.
Stays == Program /\ Program' /\ Mem' = Mem
PromisedStep ==
  \/ /\ Units' = Units
     /\ \/ Stays
        \/ Program /\ Program' /\ Mem' \in Memories
        \/ ~ Program'
        \/ ~ Program /\ Mem' \in Memories /\ Units = ImageOf(Mem')
  \/ Units' = <<>> /\ ~ image'.there /\ UNCHANGED <<pc, memory>>
  \/ /\ ~ Whole
     /\ \/ Stays /\ Begins(Units', Mem) /\ Mem \in Memories /\ Units' \in Seq(UnitSet)
        \/ ~ Program' /\ ~ Whole'
\* What a step may do to a whole image.
WholeStays == Whole /\ image'.there => image' = image

\* A complete image has the registers at least.
LEMMA WholeNotEmpty == Whole => Units # <<>>
<1> SUFFICES ASSUME Whole, Units = <<>> PROVE FALSE
  OBVIOUS
<1>1. Offset[N] \in Nat /\ ContextSize \in Nat \ {0}
  BY LayoutFacts, OffsetSteps, RegionNumbers
<1> QED
  BY <1>1, WholeFacts

\* The same after a step.
LEMMA WholeNotEmptyNext == Whole' => Units' # <<>>
<1> SUFFICES ASSUME Whole', Units' = <<>> PROVE FALSE
  OBVIOUS
<1>1. PICK m \in Memories : Units' = ImageOf(m)
  BY DEF Whole, Images
<1>2. Len(Units') = Offset[N] + ContextSize /\ Offset[N] \in Nat /\ ContextSize \in Nat \ {0}
  BY <1>1, ImageFacts, LayoutFacts, OffsetSteps, RegionNumbers DEF Lies
<1> QED
  BY <1>2

\* Every step keeps Kept, is one the promise allows, and keeps a whole image.
LEMMA StepKept ==
  ASSUME ~ Root, Inv, Kept, [Next]_vars
  PROVE  Kept' /\ PromisedStep /\ WholeStays
<1>1. CASE UNCHANGED vars
  <2>1. UNCHANGED <<memory, image, pc, armed, fd, region, at, done, off>>
    BY <1>1 DEF vars, place
  <2>2. Kept'
    BY <2>1 DEF Kept, ImageGrows, OneMemory, ReadSoFar, MemRead, Mem, Program, Units
  <2>3. Units' = Units /\ (Stays \/ ~ Program') /\ WholeStays
    BY <2>1 DEF Stays, Mem, Program, Units, WholeStays
  <2> QED
    BY <2>2, <2>3 DEF PromisedStep
<1>2. CASE Kill
  <2>1. Stops("dead") /\ UNCHANGED image
    BY <1>2 DEF Kill
  <2>2. Units' = Units /\ ~ Program' /\ WholeStays
    BY <2>1 DEF Stops, Units, Program, WholeStays
  <2> QED
    BY <2>1, <2>2, KeptStopsAlone DEF PromisedStep
<1>3. CASE ReadMaps
  <2>1. Program /\ ((Program' /\ Mem' = Mem) \/ ~ Program')
    BY <1>3, ReadMapsKept DEF Program
  <2> QED
    BY <1>3, <2>1, ReadMapsKept DEF PromisedStep, Stays, ReadMaps, WholeStays
<1>4. CASE GetContext
  <2>1. Program /\ Program'
    BY <1>4, GetContextKept DEF Program
  <2> QED
    BY <1>4, <2>1, GetContextKept DEF PromisedStep, Stays, GetContext, WholeStays
<1>5. CASE TestRestart
  <2>1. Program /\ Program'
    BY <1>5, TestRestartKept DEF Program
  <2> QED
    BY <1>5, <2>1, TestRestartKept DEF PromisedStep, Stays, TestRestart, WholeStays
<1>6. ASSUME NEW n \in 0 .. Left, Write(n)
      PROVE  Kept' /\ PromisedStep /\ WholeStays
  <2>1. Kept' /\ Program /\ (Stays \/ (pc' = "dead" /\ (n # 0 => ~ Whole')))
    BY <1>6, WriteKept DEF Stays
  <2>2. CASE n = 0
    <3>1. image' = image
      BY <1>6, <2>2, NothingWritten
    <3> QED
      BY <2>1, <3>1 DEF PromisedStep, Units, Program, WholeStays
  <2>3. CASE n # 0
    <3>1. Begins(Units', Mem) /\ Mem \in Memories /\ ~ Whole
      BY <1>6, <2>3, WriteGrows
    <3>2. Units' \in Seq(UnitSet)
      BY <1>6, WriteFacts
    <3> QED
      BY <2>1, <2>3, <3>1, <3>2 DEF PromisedStep, Program, WholeStays
  <2> QED
    BY <2>2, <2>3
<1>7. ASSUME NEW r \in Regions, NEW v \in Values, Work(r, v)
      PROVE  Kept' /\ PromisedStep /\ WholeStays
  <2>1. Kept' /\ Units' = Units /\ Program /\ Program'
    BY <1>7, WorkKept DEF Program
  <2>2. Mem' \in Memories
    BY <2>1 DEF Kept
  <2>3. WholeStays
    BY <1>7 DEF Work, WholeStays
  <2> QED
    BY <2>1, <2>2, <2>3 DEF PromisedStep
<1>8. CASE SigHandler
  <2>1. Kept' /\ Units' = Units /\ Stays /\ (Units # <<>> => image' = image)
    BY <1>8, SigHandlerKept DEF Program, Stays
  <2> QED
    BY <2>1, WholeNotEmpty DEF PromisedStep, WholeStays
<1>9. CASE Restart
  <2>1. WholeStays
    BY <1>9 DEF Restart, WholeStays
  <2> QED
    BY <1>9, <2>1, RestartKept DEF PromisedStep
<1>10. CASE ReadHeader \/ ReadData \/ ReadFails \/ \E n \in 0 .. Left : ReadLess(n)
  <2>1. WholeStays
    BY <1>10 DEF ReadHeader, ReadData, ReadFails, ReadLess, Reading, WholeStays
  <2> QED
    BY <1>10, <2>1, ReadHeaderKept, ReadDataKept, ReadFailsKept, ReadLessKept DEF PromisedStep
<1>11. CASE ReadContext
  <2>1. WholeStays
    BY <1>11 DEF ReadContext, Reading, WholeStays
  <2> QED
    BY <1>11, <2>1, ReadContextKept DEF PromisedStep
<1>12. CASE RemoveImage
  BY <1>12, RemoveImageKept DEF PromisedStep, WholeStays
<1> QED
  BY <1>1, <1>2, <1>3, <1>4, <1>5, <1>6, <1>7, <1>8, <1>9, <1>10, <1>11, <1>12
     DEF Next, Handler, Restore

\* A later checkpoint does not damage an image that is complete, unless the
\* process is root's: open() of ckpt.c:43 fails where the file is there, the
\* handler writes to no descriptor, and of the steps that change the image only
\* the removal of the file is left.
THEOREM CompleteImageStays ==
  ASSUME ~ Root
  PROVE  Spec => ImageKept
<1> DEFINE A == Whole /\ image'.there
           B == image' = image
<1>1. Init => Kept
  BY InitKept
<1>2. Inv /\ Kept /\ [Next]_vars => Kept'
  BY StepKept
<1>3. Inv /\ Kept /\ [Next]_vars => (A => B)
  BY StepKept DEF WholeStays
<1>4. ImageKept <=> [][A => B]_vars
  BY DEF ImageKept
<1> HIDE DEF A, B
<1>5. Spec => [][A => B]_vars
  BY <1>1, <1>2, <1>3, Invariant, PTL DEF Spec
<1> QED
  BY <1>4, <1>5

\* Two memories have two images.
LEMMA OneImage ==
  ASSUME NEW a \in Memories, NEW b \in Memories, ImageOf(a) = ImageOf(b)
  PROVE  a = b
<1>1. Lies(ImageOf(a), a) /\ Lies(ImageOf(a), b)
  BY ImageFacts
<1>2. ASSUME NEW r \in Saved \ {Stack} PROVE a[r] = b[r]
  <2>1. 1 \in 1 .. Layout[r].size
    BY OffsetOrder
  <2>2. Unit("data", r, 1, PageOf(a, r)) = Unit("data", r, 1, PageOf(b, r))
    BY <1>1, <2>1 DEF Lies
  <2>3. PageOf(a, r) = PageOf(b, r)
    BY <2>2, UnitFields
  <2> QED
    BY <2>3 DEF PageOf
<1> QED
  BY <1>2 DEF Memories

\* The memory the image stands for, as the promise has it.
Img == IF Whole THEN CHOOSE m \in Memories : ImageOf(m) = Units ELSE NoImage
Of == IF Program THEN Mem ELSE Nobody

\* The memory a complete image stands for.
LEMMA ImgIs ==
  ASSUME NEW m \in Memories, Units = ImageOf(m)
  PROVE  Img = m
<1>1. Whole
  BY DEF Whole, Images
<1>2. \E k \in Memories : ImageOf(k) = Units
  OBVIOUS
<1> QED
  BY <1>1, <1>2, OneImage DEF Img

\* The same after a step.
LEMMA ImgNext ==
  ASSUME NEW m \in Memories, Units' = ImageOf(m)
  PROVE  Img' = m
<1>1. Whole'
  BY DEF Whole, Images
<1>2. \E k \in Memories : ImageOf(k) = Units'
  OBVIOUS
<1> QED
  BY <1>1, <1>2, OneImage DEF Img

\* hw2 implements the promise where the process is not root's: who runs the
\* program after a restart has the memory of a checkpoint that was completed,
\* all of it.  The registers are found last, so a part of an image makes no
\* program, and an image is of one memory from its first unit on.
THEOREM ImplementsPromise ==
  ASSUME ~ Root
  PROVE  Spec => KeepsPromise
<1>1. Init => Promise!Init
  <2> SUFFICES ASSUME Init PROVE Promise!Init
    OBVIOUS
  <2>1. Kept /\ Units = <<>> /\ Program
    BY InitKept DEF Init, Units, Program
  <2>2. Mem \in Memories
    BY <2>1 DEF Kept
  <2>3. ~ Whole
    BY <2>1, WholeNotEmpty
  <2> QED
    BY <2>1, <2>2, <2>3 DEF Promise!Init, Mem
<1>2. Inv /\ Kept /\ [Next]_vars => Kept'
  BY StepKept
<1>3. Inv /\ Kept /\ [Next]_vars =>
        [Promise!Next]_<<IF Program THEN [r \in Saved \ {Stack} |-> memory[r]] ELSE Nobody,
                         IF Whole THEN CHOOSE m \in Memories : ImageOf(m) = Units ELSE NoImage>>
  <2> SUFFICES ASSUME Inv, Kept, [Next]_vars
               PROVE  [Promise!Next]_<<Of, Img>>
    BY DEF Of, Img, Mem
  <2>1. PromisedStep
    BY StepKept
  <2>2. Nobody \notin Memories /\ NoImage \notin Memories /\ (Program => Mem \in Memories)
    BY NoMemoryAssumption DEF Kept
  <2>3. CASE Units' = Units /\ Stays
    BY <2>3 DEF Of, Img, Stays, Whole
  <2>4. CASE Units' = Units /\ Program /\ Program' /\ Mem' \in Memories
    <3>1. Img' = Img /\ Of = Mem /\ Of' = Mem'
      BY <2>4 DEF Of, Img, Whole
    <3>2. Of # Nobody /\ Of' \in Memories
      BY <2>2, <2>4, <3>1
    <3>3. Promise!Work
      BY <3>1, <3>2 DEF Promise!Work, Of, Img, Mem
    <3> QED
      BY <3>3 DEF Promise!Next
  <2>5. CASE Units' = Units /\ ~ Program'
    <3>1. Img' = Img /\ Of' = Nobody
      BY <2>5 DEF Of, Img, Whole
    <3>2. Promise!Die
      BY <3>1 DEF Promise!Die, Of, Img, Mem
    <3> QED
      BY <3>2 DEF Promise!Next
  <2>6. CASE Units' = Units /\ ~ Program /\ Program' /\ Mem' \in Memories
          /\ Units = ImageOf(Mem')
    <3>1. Img' = Img /\ Of = Nobody /\ Of' = Mem'
      BY <2>6 DEF Of, Img, Whole
    <3>2. Img = Mem'
      BY <2>6, ImgIs
    <3>3. Img # NoImage
      BY <2>2, <2>6, <3>2
    <3>4. Promise!Restore
      BY <3>1, <3>2, <3>3 DEF Promise!Restore, Of, Img, Mem
    <3> QED
      BY <3>4 DEF Promise!Next
  <2>7. CASE Units' = <<>> /\ UNCHANGED <<pc, memory>>
    <3>1. ~ Whole'
      <4>1. Whole' => Units' # <<>>
        BY WholeNotEmptyNext
      <4> QED
        BY <2>7, <4>1
    <3>2. Img' = NoImage /\ Of' = Of
      BY <2>7, <3>1 DEF Of, Img, Mem, Program
    <3>3. Promise!Discard
      BY <3>2 DEF Promise!Discard, Of, Img, Mem
    <3> QED
      BY <3>3 DEF Promise!Next
  <2>8. CASE ~ Whole /\ Stays /\ Begins(Units', Mem) /\ Mem \in Memories
          /\ Units' \in Seq(UnitSet)
    <3>1. Of' = Of /\ Of = Mem /\ Of # Nobody
      BY <2>2, <2>8 DEF Of, Stays
    <3>2. CASE Whole'
      <4>1. PICK m \in Memories : Units' = ImageOf(m)
        BY <3>2 DEF Whole, Images
      <4>2. Len(Units') = Len(ImageOf(Mem)) /\ ImageOf(Mem) \in Seq(UnitSet)
        BY <2>8, <4>1, ImageFacts DEF Lies
      <4>3. Units' = ImageOf(Mem)
        BY <2>8, <4>2, SameSeq DEF Begins
      <4>4. Img' = Mem
        BY <2>8, <4>3, ImgNext
      <4>5. Promise!Save
        BY <3>1, <4>4 DEF Promise!Save, Of, Img, Mem
      <4> QED
        BY <4>5 DEF Promise!Next
    <3>3. CASE ~ Whole'
      BY <2>8, <3>1, <3>3 DEF Img
    <3> QED
      BY <3>2, <3>3
  <2>9. CASE ~ Whole /\ ~ Program' /\ ~ Whole'
    <3>1. Img' = Img /\ Of' = Nobody
      BY <2>9 DEF Of, Img
    <3>2. Promise!Die
      BY <3>1 DEF Promise!Die, Of, Img, Mem
    <3> QED
      BY <3>2 DEF Promise!Next
  <2> QED
    BY <2>1, <2>3, <2>4, <2>5, <2>6, <2>7, <2>8, <2>9 DEF PromisedStep
<1> QED
  BY <1>1, <1>2, <1>3, InitKept, Invariant, PTL
     DEF Spec, KeepsPromise, Promise!Spec, Promise!vars

------------------------------------------------------------------------------
(* A checkpoint or a restart runs out of steps.                            *)

InCall == pc \notin {"run", "dead", "wild"}

\* The regions that a header can still be read for.
ToMap == {r \in Regions : memory[r] = "unmapped"}

\* An upper bound of the chunks, and steps without one, that are to come.
Ahead ==
  CASE pc = "maps"      -> (2 * N) + 4
    [] pc = "header"    -> (2 * (N - region)) + 5
    [] pc = "data"      -> (2 * (N - region)) + 4
    [] pc = "reset"     -> 3
    [] pc = "test"      -> 2
    [] pc = "context"   -> 1
    [] pc = "r_header"  -> (2 * Cardinality(ToMap)) + 4
    [] pc = "r_data"    -> (2 * Cardinality(ToMap)) + 5
    [] pc = "r_context" -> 3
    [] OTHER            -> 0

\* Each may take the first call and three more.
StepsLeft == (5 * Ahead) + (4 - retry)
Retries == retry \in 0 .. 3

\* A step takes one off: it ends a chunk, or tries again.
Progress == Ahead' < Ahead \/ (Ahead' = Ahead /\ retry' = retry + 1)

\* There are finitely many regions.
LEMMA ToMapFinite ==
  ASSUME NEW S \in SUBSET Regions
  PROVE  IsFiniteSet(S) /\ Cardinality(S) \in Nat
<1>1. Regions = 1 .. N /\ 1 \in Int /\ N \in Int
  BY LayoutFacts
<1>2. IsFiniteSet(Regions)
  BY ONLY <1>1, FS_Interval
<1>3. IsFiniteSet(S)
  BY <1>2, FS_Subset
<1> QED
  BY <1>3, FS_CardinalityType

\* The bound is a number, and 0 where no call is under way.
LEMMA AheadFacts ==
  ASSUME Inv
  PROVE  Ahead \in Nat /\ (InCall => Ahead >= 1) /\ (~ InCall => Ahead = 0)
<1>1. Cardinality(ToMap) \in Nat
  BY ToMapFinite DEF ToMap
<1>2. PICK u \in Nat : u = Cardinality(ToMap)
  BY <1>1
<1>3. pc \in {"header", "data"} => region \in 1 .. N
  BY LayoutFacts DEF Inv, WriterInPlace
<1>4. N \in Nat
  BY LayoutFacts
<1>5. pc \in {"run", "maps", "header", "data", "reset", "test", "context",
             "r_header", "r_data", "r_context", "dead", "wild"}
  BY DEF Inv, Types
<1>6. CASE pc \in {"header", "data"}
  <2>1. N - region \in Nat
    BY <1>3, <1>4, <1>6
  <2> QED
    BY <1>6, <2>1 DEF Ahead, InCall
<1>7. CASE pc \in {"r_header", "r_data"}
  BY <1>2, <1>7 DEF Ahead, InCall
<1>8. CASE pc \in {"maps", "reset", "test", "context", "r_context"}
  BY <1>4, <1>8 DEF Ahead, InCall
<1>9. CASE pc \in {"run", "dead", "wild"}
  BY <1>9 DEF Ahead, InCall
<1> QED
  BY <1>5, <1>6, <1>7, <1>8, <1>9

\* What takes one off the chunks or adds a retry leaves fewer steps.
LEMMA FewerSteps ==
  ASSUME Ahead \in Nat, Ahead' \in Nat, Retries, Retries', Progress
  PROVE  StepsLeft' < StepsLeft
<1>1. PICK m, n, p, q : m = Ahead /\ n = Ahead' /\ p = retry /\ q = retry'
  OBVIOUS
<1>2. m \in Nat /\ n \in Nat /\ p \in 0 .. 3 /\ q \in 0 .. 3
  BY <1>1 DEF Retries
<1>3. n < m \/ (n = m /\ q = p + 1)
  BY <1>1 DEF Progress
<1>4. (5 * n) + (4 - q) < (5 * m) + (4 - p)
  BY ONLY <1>2, <1>3
<1> QED
  BY <1>1, <1>4 DEF StepsLeft

\* The process ends.
LEMMA StopsProgress ==
  ASSUME Inv, InCall, NEW how \in {"dead", "wild"}, Stops(how)
  PROVE  Progress /\ Retries'
<1>1. Ahead' = 0
  BY DEF Stops, Ahead
<1>2. Ahead \in Nat /\ Ahead >= 1
  BY AheadFacts
<1>3. Retries'
  BY DEF Stops, Retries
<1> QED
  BY <1>1, <1>2, <1>3 DEF Progress

\* A call tries again, or gives up.
LEMMA AgainProgress ==
  ASSUME Inv, Retries, InCall, NEW n, Again(n)
  PROVE  Progress /\ Retries'
<1>1. CASE Stops("dead")
  BY <1>1, StopsProgress
<1>2. CASE ~ Stops("dead")
  <2>1. retry + 1 <= 3 /\ retry' = retry + 1 /\ UNCHANGED <<memory, pc, region>>
    BY <1>2 DEF Again, RetryAfter, Retries
  <2>2. Ahead' = Ahead
    BY <2>1 DEF Ahead, ToMap
  <2> QED
    BY <2>1, <2>2 DEF Progress, Retries
<1> QED
  BY <1>1, <1>2

\* The steps of the handler.
LEMMA HandlerProgress ==
  ASSUME Inv, Retries, Handler
  PROVE  Progress /\ Retries' /\ InCall
<1>0. N \in Nat /\ Saved \subseteq 1 .. N /\ 0 \in 0 .. N
  BY LayoutFacts, RegionNumbers
<1>1. CASE ReadMaps
  <2>1. pc = "maps"
    BY <1>1 DEF ReadMaps
  <2>2. CASE Begin("header", NextSaved(0), 0)
    <3>1. PICK r : r = NextSaved(0)
      OBVIOUS
    <3>2. r \in 1 .. N
      <4>1. PICK k \in Saved : TRUE
        BY LayoutFacts
      <4>2. NextSaved(0) \in Saved
        <5>1. 0 < k
          BY ONLY <1>0, <4>1
        <5>2. \E j \in Saved : 0 < j
          BY ONLY <4>1, <5>1
        <5> QED
          BY ONLY <1>0, <5>2, NextSavedFacts
      <4> QED
        BY <1>0, <3>1, <4>2
    <3>3. Ahead' = (2 * (N - r)) + 5 /\ Ahead = (2 * N) + 4 /\ retry' = 0
      BY <2>1, <2>2, <3>1 DEF Begin, Ahead
    <3> QED
      BY <1>0, <2>1, <3>2, <3>3 DEF Progress, Retries, InCall
  <2>3. CASE Again(0)
    BY <2>1, <2>3, AgainProgress DEF InCall
  <2> QED
    BY <1>1, <2>2, <2>3 DEF ReadMaps
<1>2. CASE GetContext
  BY <1>2 DEF GetContext, Progress, Ahead, Retries, InCall, place
<1>3. CASE TestRestart
  <2>1. pc = "test" /\ pc' \in {"run", "context"} /\ retry' \in {0, retry}
    BY <1>3 DEF TestRestart, Resume, place
  <2> QED
    BY <2>1 DEF Progress, Ahead, Retries, InCall
<1>4. ASSUME NEW n \in 0 .. Left, Write(n)
      PROVE  Progress /\ Retries' /\ InCall
  <2>1. pc \in {"header", "data", "context"} /\ InCall
    BY <1>4 DEF Write, InCall
  <2>2. CASE n # Left
    BY <1>4, <2>1, <2>2, AgainProgress DEF Write
  <2>3. CASE n = Left
    <3>1. AfterChunk(n)
      BY <1>4, <2>3 DEF Write
    <3>2. CASE pc = "header" /\ Begin("data", region, n)
      <4>1. region \in 1 .. N
        BY <1>0, <3>2 DEF Inv, WriterInPlace
      <4>2. Ahead' = (2 * (N - region)) + 4 /\ Ahead = (2 * (N - region)) + 5 /\ retry' = 0
        BY <3>2 DEF Begin, Ahead
      <4> QED
        BY <1>0, <2>1, <4>1, <4>2 DEF Progress, Retries
    <3>3. CASE pc = "data" /\ ~ LastSaved(region) /\ Begin("header", NextSaved(region), n)
      <4>1. region \in Saved /\ region \in 0 .. N /\ region \in 1 .. N
        BY <1>0, <3>3, RegionNumbers DEF Inv, WriterInPlace
      <4>2. PICK r : r = NextSaved(region)
        OBVIOUS
      <4>3. \E k \in Saved : region < k
        BY <1>0, <3>3, <4>1 DEF LastSaved
      <4>4. r \in Saved /\ r > region
        BY <4>1, <4>2, <4>3, NextSavedFacts
      <4>5. Ahead' = (2 * (N - r)) + 5 /\ Ahead = (2 * (N - region)) + 4 /\ retry' = 0
        BY <3>3, <4>2 DEF Begin, Ahead
      <4>6. r \in 1 .. N
        BY <1>0, <4>4
      <4> QED
        BY <1>0, <2>1, <4>1, <4>4, <4>5, <4>6 DEF Progress, Retries
    <3>4. CASE pc = "data" /\ Begin("reset", 0, n)
      <4>1. region \in 1 .. N
        BY <1>0, <3>4 DEF Inv, WriterInPlace
      <4>2. Ahead' = 3 /\ Ahead = (2 * (N - region)) + 4 /\ retry' = 0
        BY <3>4 DEF Begin, Ahead
      <4> QED
        BY <1>0, <2>1, <4>1, <4>2 DEF Progress, Retries
    <3>5. CASE pc = "context" /\ Resume
      BY <2>1, <3>5 DEF Resume, Progress, Ahead, Retries
    <3> QED
      BY <3>1, <3>2, <3>3, <3>4, <3>5 DEF AfterChunk
  <2> QED
    BY <2>2, <2>3
<1> QED
  BY <1>1, <1>2, <1>3, <1>4 DEF Handler

\* Data that was read is not that there is no page.
LEMMA FilledMapped ==
  ASSUME Inv, pc = "r_data", Readable
  PROVE  Filled # "unmapped"
<1>1. region \in Saved /\ Left + done = Layout[region].size /\ done \in Nat
        /\ Layout[region].size \in Nat \ {0}
  <2>1. region \in Saved /\ Left = Layout[region].size - done /\ done \in Nat
    BY LeftFacts
  <2>2. Layout[region].size \in Nat \ {0}
    BY <2>1, OffsetOrder
  <2> QED
    BY <2>1, <2>2
<1>2. /\ DOMAIN Got = 1 .. Layout[region].size
      /\ \A i \in 1 .. Layout[region].size : BelongsAt((at - done) + i, Got[i])
  BY <1>1, GotFacts
<1>3. 1 \in DOMAIN Got /\ BelongsAt((at - done) + 1, Got[1])
  BY <1>1, <1>2
<1>4. CASE \A i \in DOMAIN Got : Got[i] = Unit("data", region, i, Got[1].val)
  <2>1. Got[1].what = "data"
    BY <1>3, <1>4, UnitFields
  <2>2. PICK r \in Saved : \E i, v : v \in Pages(r) /\ Got[1] = Unit("data", r, i, v)
    BY <1>3, <2>1, UnitFields DEF BelongsAt
  <2>3. PICK i, v : v \in Pages(r) /\ Got[1] = Unit("data", r, i, v)
    BY <2>2
  <2>4. Got[1].val = v
    BY <2>3, UnitFields
  <2>5. v # "unmapped"
    BY <2>3, LayoutAssumption DEF Pages
  <2> QED
    BY <1>4, <2>4, <2>5 DEF Filled
<1>5. CASE ~ \A i \in DOMAIN Got : Got[i] = Unit("data", region, i, Got[1].val)
  BY <1>5 DEF Filled
<1> QED
  BY <1>4, <1>5
\* The steps of the restarter.  A header takes a region that has not been mapped;
\* no other step unmaps one.
LEMMA RestoreProgress ==
  ASSUME Inv, Retries, Restore
  PROVE  Progress /\ Retries'
<1>1. pc \in {"r_header", "r_data", "r_context"} /\ InCall
  BY DEF Restore, ReadHeader, ReadData, ReadContext, ReadFails, ReadLess, Reading, InCall
<1>2. PICK u \in Nat : u = Cardinality(ToMap)
  BY ToMapFinite DEF ToMap
<1>3. PICK v \in Nat : v = Cardinality(ToMap')
  BY ToMapFinite DEF ToMap
<1>4. /\ pc = "r_header" => Ahead = (2 * u) + 4
      /\ pc = "r_data" => Ahead = (2 * u) + 5
      /\ pc = "r_context" => Ahead = 3
  BY <1>2 DEF Ahead
<1>5. /\ pc' = "r_header" => Ahead' = (2 * v) + 4
      /\ pc' = "r_data" => Ahead' = (2 * v) + 5
      /\ pc' = "r_context" => Ahead' = 3
      /\ pc' = "test" => Ahead' = 2
  BY <1>3 DEF Ahead
<1>6. ASSUME pc = "r_data", NEW n, NextChunk(n), ToMap' \subseteq ToMap
      PROVE  Progress /\ Retries'
  <2>1. pc' \in {"r_header", "r_context"} /\ retry' = 0
    BY <1>6 DEF NextChunk, Begin
  <2>2. v <= u
    <3>1. IsFiniteSet(ToMap)
      BY ToMapFinite DEF ToMap
    <3> QED
      BY <1>2, <1>3, <1>6, <3>1, FS_Subset
  <2> QED
    BY <1>4, <1>5, <1>6, <2>1, <2>2 DEF Progress, Retries
<1>7. memory \in [Regions -> Vals] /\ (pc = "r_data" => region \in Regions)
  BY LayoutFacts DEF Inv, Types, ReaderInPlace
<1>8. CASE ReadHeader
  <2>1. CASE \E how \in {"dead", "wild"} : Stops(how)
    BY <1>1, <2>1, StopsProgress
  <2>2. CASE /\ Got[1].what = "header" /\ memory[Got[1].region] = "unmapped"
             /\ Begin("r_data", Got[1].region, Left)
             /\ memory' = [memory EXCEPT ![Got[1].region] = "torn"]
    <3>1. pc = "r_header" /\ pc' = "r_data" /\ retry' = 0
      BY <1>8, <2>2 DEF ReadHeader, Begin
    <3>2. PICK r \in Regions : r = Got[1].region
      <4>1. Left + done = 1 /\ Readable
        BY <1>8, <3>1, LeftFacts DEF ReadHeader
      <4>2. BelongsAt((at - done) + 1, Got[1])
        BY <3>1, <4>1, GotFacts
      <4> QED
        BY <2>2, <4>2, UnitFields, LayoutFacts DEF BelongsAt
    <3>3. r \in ToMap /\ ToMap' = ToMap \ {r}
      BY <1>7, <2>2, <3>2 DEF ToMap
    <3>4. IsFiniteSet(ToMap)
      BY ToMapFinite DEF ToMap
    <3>5. v = u - 1
      BY <1>2, <1>3, <3>3, <3>4, FS_RemoveElement
    <3> QED
      BY <1>4, <1>5, <3>1, <3>5 DEF Progress, Retries
  <2> QED
    BY <1>8, <2>1, <2>2 DEF ReadHeader
<1>9. CASE ReadData
  <2>1. /\ pc = "r_data" /\ Readable /\ NextChunk(Left)
        /\ memory' = [memory EXCEPT ![region] = Filled]
    BY <1>9 DEF ReadData
  <2>2. ToMap' \subseteq ToMap
    BY <1>7, <2>1, FilledMapped DEF ToMap
  <2> QED
    BY <1>6, <2>1, <2>2
<1>10. CASE ReadContext
  <2>1. CASE Stops("wild")
    BY <1>1, <2>1, StopsProgress
  <2>2. CASE Begin("test", 0, Left)
    BY <1>4, <1>5, <1>10, <2>2 DEF ReadContext, Begin, Progress, Retries
  <2> QED
    BY <1>10, <2>1, <2>2 DEF ReadContext
<1>11. CASE ReadFails
  <2>1. CASE \E how \in {"dead", "wild"} : Stops(how)
    BY <1>1, <2>1, StopsProgress
  <2>2. CASE pc = "r_data" /\ NextChunk(0) /\ UNCHANGED memory
    BY <1>6, <2>2 DEF ToMap
  <2> QED
    BY <1>11, <2>1, <2>2 DEF ReadFails
<1>12. CASE \E n \in 0 .. Left : ReadLess(n)
  BY <1>1, <1>12, AgainProgress DEF ReadLess
<1> QED
  BY <1>8, <1>9, <1>10, <1>11, <1>12 DEF Restore

\* At first nothing has been tried, and the steps outside a call try nothing.
LEMMA NextRetries ==
  ASSUME Inv, Retries, [Next]_vars
  PROVE  Retries' /\ (InCall => UNCHANGED vars \/ Progress)
<1>1. CASE UNCHANGED vars
  BY <1>1 DEF Retries, vars, place
<1>2. CASE Handler
  BY <1>2, HandlerProgress
<1>3. CASE Restore
  BY <1>3, RestoreProgress
<1>4. CASE Kill
  <2>1. Stops("dead") /\ pc # "dead"
    BY <1>4 DEF Kill
  <2>2. Retries'
    BY <2>1 DEF Stops, Retries
  <2> QED
    BY <2>1, <2>2, StopsProgress
<1>5. CASE \/ \E r \in Regions, v \in Values : Work(r, v)
           \/ SigHandler \/ RemoveImage
  BY <1>5 DEF Work, SigHandler, RemoveImage, place, Retries, InCall
<1>6. CASE Restart
  BY <1>6 DEF Restart, NextChunk, Begin, Retries, InCall
<1> QED
  BY <1>1, <1>2, <1>3, <1>4, <1>5, <1>6 DEF Next

\* A checkpoint and a restart run out of steps, whatever read and write answer,
\* in whole images and in torn ones: every step of the process lowers a number
\* that is at most ten for each region and 24.  What is left to say for CallsEnd
\* is that the process has a step and is let to take it.
THEOREM CallsRunOut ==
  Spec => [](StepsLeft \in Nat) /\ [][InCall => StepsLeft' < StepsLeft]_vars
<1> DEFINE Bounded == Ahead \in Nat
           Fewer == InCall => StepsLeft' < StepsLeft
<1>1. Init => Retries
  BY DEF Init, Retries
<1>2. Inv /\ Retries /\ [Next]_vars => Retries'
  BY NextRetries
<1>3. Inv => Bounded
  BY AheadFacts
<1>4. Bounded /\ Retries => StepsLeft \in Nat
  <2> SUFFICES ASSUME Bounded, Retries PROVE StepsLeft \in Nat
    OBVIOUS
  <2>1. PICK m, p : m = Ahead /\ p = retry /\ m \in Nat /\ p \in 0 .. 3
    BY DEF Retries
  <2>2. (5 * m) + (4 - p) \in Nat
    BY ONLY <2>1
  <2> QED
    BY <2>1, <2>2 DEF StepsLeft
<1>5. Inv /\ Retries /\ Bounded /\ Bounded' /\ [Next]_vars => [Fewer]_vars
  BY NextRetries, FewerSteps
<1> HIDE DEF Bounded, Fewer
<1>6. Spec => [](StepsLeft \in Nat) /\ [][Fewer]_vars
  BY <1>1, <1>2, <1>3, <1>4, <1>5, Invariant, PTL DEF Spec
<1> QED
  BY <1>6 DEF Fewer
==============================================================================
