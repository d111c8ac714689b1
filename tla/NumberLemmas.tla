---------------------------- MODULE NumberLemmas ----------------------------
(***************************************************************************)
(* Facts about natural numbers that the proofs of several components need: *)
(* quotient and remainder by a number that is not fixed, as blocks, pages  *)
(* and offsets have them, and the least element of a set of numbers, which *)
(* serves where an induction over numbers is needed; and about sums over a *)
(* finite set, as SumFunctionOnSet has them.                               *)
(***************************************************************************)
EXTENDS Integers, FiniteSetTheorems, TLAPS

\* A number is a multiple and a rest, as \div and % have them.
LEMMA Quotient ==
  ASSUME NEW a \in Nat, NEW m \in Nat \ {0}
  PROVE  \E q \in Nat : \E r \in 0 .. m - 1 :
           a = (m * q) + r /\ a \div m = q /\ a % m = r
<1>1. /\ a \div m \in Nat /\ a % m \in 0 .. m - 1
      /\ a = (m * (a \div m)) + (a % m)
  OBVIOUS
<1> QED
  BY <1>1

\* There is one way only to write it so.
LEMMA UniqueQuotient ==
  ASSUME NEW m \in Nat \ {0}, NEW q \in Nat, NEW r \in 0 .. m - 1
  PROVE  ((m * q) + r) % m = r /\ ((m * q) + r) \div m = q
OBVIOUS

\* A number that leaves no rest is a multiple.
LEMMA Factor ==
  ASSUME NEW a \in Nat, NEW m \in Nat \ {0}, a % m = 0
  PROVE  \E q \in Nat : a = m * q
BY Quotient, a % m = 0

\* A multiple leaves no rest.
LEMMA Multiple ==
  ASSUME NEW m \in Nat \ {0}, NEW q \in Nat
  PROVE  (m * q) % m = 0
BY UniqueQuotient

\* n divides what a multiple of n divides.
LEMMA DividesTransitive ==
  ASSUME NEW a \in Nat, NEW m \in Nat \ {0}, NEW n \in Nat \ {0},
         a % m = 0, m % n = 0
  PROVE  a % n = 0
<1>1. PICK q \in Nat : a = m * q
  BY Factor
<1>2. PICK k \in Nat : m = n * k
  BY Factor
<1>3. a = n * (k * q) /\ k * q \in Nat
  BY <1>1, <1>2
<1> QED
  BY <1>3, Multiple

\* The offset in a page has the same rest as the address, for what divides the page.
LEMMA OffsetRest ==
  ASSUME NEW a \in Nat, NEW p \in Nat \ {0}, NEW m \in Nat \ {0}, p % m = 0
  PROVE  (a % p) % m = a % m
<1>1. PICK q \in Nat, r \in 0 .. p - 1 : a = (p * q) + r /\ a % p = r
  BY Quotient
<1>2. PICK k \in Nat : p = m * k
  BY Factor
<1>3. PICK l \in Nat, z \in 0 .. m - 1 : r = (m * l) + z /\ r % m = z
  BY Quotient
<1>4. a = (m * ((k * q) + l)) + z /\ (k * q) + l \in Nat
  <2>1. a = (m * (k * q)) + (m * l) + z /\ k * q \in Nat
    BY <1>1, <1>2, <1>3
  <2> QED
    BY <2>1
<1>5. a % m = z
  BY <1>4, UniqueQuotient
<1> QED
  BY <1>1, <1>3, <1>5

\* The rest of a little more than a multiple.
LEMMA RestBehind ==
  ASSUME NEW a \in Nat, NEW m \in Nat \ {0}, NEW s \in 0 .. m - 1, a % m = 0
  PROVE  (a + s) % m = s
<1>1. PICK q \in Nat : a = m * q
  BY Factor
<1> QED
  BY <1>1, UniqueQuotient

\* The sum of two multiples is a multiple.
LEMMA SumOfMultiples ==
  ASSUME NEW a \in Nat, NEW b \in Nat, NEW m \in Nat \ {0}, a % m = 0, b % m = 0
  PROVE  (a + b) % m = 0
<1>1. PICK q \in Nat : a = m * q
  BY Factor
<1>2. PICK k \in Nat : b = m * k
  BY Factor
<1>3. a + b = m * (q + k) /\ q + k \in Nat
  BY <1>1, <1>2
<1> QED
  BY <1>3, Multiple

\* A multiple of s that is not one of 2 * s is s more than one.
LEMMA OddMultiple ==
  ASSUME NEW a \in Nat, NEW s \in Nat \ {0}, a % s = 0, a % (2 * s) # 0
  PROVE  (a - s) \in Nat /\ (a - s) % (2 * s) = 0
<1> DEFINE d == 2 * s
<1>1. d \in Nat \ {0}
  OBVIOUS
<1>2. PICK q \in Nat, r \in 0 .. d - 1 : a = (d * q) + r /\ a % d = r
  BY <1>1, Quotient
<1>3. PICK k \in Nat : a = s * k
  BY Factor
<1>4. r = s * (k - 2 * q) /\ r # 0
  BY <1>2, <1>3
<1>5. k - 2 * q = 1
  BY <1>2, <1>4
<1>6. a - s = d * q
  BY <1>2, <1>4, <1>5
<1> HIDE DEF d
<1>7. d * q \in Nat /\ (d * q) % d = 0
  BY <1>1, <1>2, Multiple
<1>8. a - s \in Nat /\ (a - s) % d = 0
  BY <1>6, <1>7
<1> QED
  BY <1>8 DEF d

\* A multiple of s in the page ends in the page.
LEMMA EndsInPage ==
  ASSUME NEW a \in Nat, NEW p \in Nat \ {0}, NEW s \in Nat \ {0},
         a % s = 0, p % s = 0
  PROVE  (a % p) + s <= p
<1>1. PICK r \in 0 .. p - 1 : a % p = r
  BY Quotient
<1>2. (a % p) % s = a % s
  BY OffsetRest, p % s = 0
<1>3. PICK k \in Nat : r = s * k
  <2>1. r \in Nat
    OBVIOUS
  <2>2. PICK k \in Nat, z \in 0 .. s - 1 : r = (s * k) + z /\ r % s = z
    BY <2>1, Quotient
  <2>3. z = 0
    BY <1>1, <1>2, <2>2
  <2>4. r = s * k
    BY <2>2, <2>3
  <2> QED
    BY <2>4
<1>4. PICK l \in Nat : p = s * l
  BY Factor
<1>5. k + 1 <= l
  BY <1>1, <1>3, <1>4
<1>6. s * (k + 1) <= s * l
  BY <1>5
<1> QED
  BY <1>1, <1>3, <1>4, <1>6

\* Every set of numbers that is not empty has a least one.
LEMMA LeastNumber ==
  ASSUME NEW T \in SUBSET Nat, T # {}
  PROVE  \E x \in T : \A y \in T : x <= y
<1> DEFINE R == {ss \in Nat \X Nat : ss[1] < ss[2]}
<1>1. IsWellFoundedOn(R, Nat)
  BY NatLessThanWellFounded, Zenon DEF OpToRel
<1>2. \A x, y \in T : <<y, x>> \in R <=> y < x
  OBVIOUS
<1> HIDE DEF R
<1>3. PICK x \in T : \A y \in T : ~ (<<y, x>> \in R)
  BY <1>1, WFMin
<1>4. \A y \in T : ~ (y < x)
  BY <1>2, <1>3
<1>5. \A y \in T : x <= y
  BY <1>4
<1> QED
  BY <1>5

\* A set of numbers that has an upper bound has a greatest element.
LEMMA GreatestNumber ==
  ASSUME NEW T \in SUBSET Nat, T # {}, NEW b \in Nat, \A x \in T : x <= b
  PROVE  \E x \in T : \A y \in T : x >= y
<1> DEFINE Bounds == {n \in Nat : \A x \in T : x <= n}
<1>1. PICK g \in Bounds : \A n \in Bounds : g <= n
  <2>1. Bounds \in SUBSET Nat /\ Bounds # {}
    OBVIOUS
  <2> HIDE DEF Bounds
  <2> QED
    BY <2>1, LeastNumber
<1>2. g \in T
  <2> SUFFICES ASSUME g \notin T PROVE FALSE
    OBVIOUS
  <2>1. \A x \in T : x <= g - 1 /\ g - 1 \in Nat
    OBVIOUS
  <2>2. g - 1 \in Bounds
    BY <2>1
  <2> QED
    BY <1>1, <2>2
<1> QED
  BY <1>2

\* Finitely many numbers have an upper bound.
LEMMA FunctionBounded ==
  ASSUME NEW n \in Nat, NEW f \in [1 .. n -> Nat]
  PROVE  \E b \in Nat : \A j \in 1 .. n : f[j] <= b
<1> DEFINE Bounded(l) == \E b \in Nat : \A j \in 1 .. l : f[j] <= b
           Unbounded == {l \in 0 .. n : ~ Bounded(l)}
<1>1. Bounded(0)
  OBVIOUS
<1>2. ASSUME NEW l \in 1 .. n, Bounded(l - 1) PROVE Bounded(l)
  <2>1. PICK b \in Nat : \A j \in 1 .. l - 1 : f[j] <= b
    BY <1>2
  <2>2. PICK x \in Nat : x = f[l]
    OBVIOUS
  <2>3. PICK a \in Nat : a >= b /\ a >= x
    <3>1. b + x \in Nat /\ b + x >= b /\ b + x >= x
      OBVIOUS
    <3> QED
      BY <3>1
  <2>4. \A j \in 1 .. l : f[j] <= a
    <3> TAKE j \in 1 .. l
    <3>1. CASE j = l
      BY <2>2, <2>3, <3>1
    <3>2. CASE j \in 1 .. l - 1
      <4>1. PICK y \in Nat : y = f[j]
        OBVIOUS
      <4> QED
        BY <2>1, <2>3, <3>2, <4>1
    <3> QED
      BY <3>1, <3>2
  <2> QED
    BY <2>4
<1> HIDE DEF Bounded
<1>3. CASE Unbounded = {}
  <2>1. Bounded(n)
    BY <1>3
  <2> QED
    BY <2>1 DEF Bounded
<1>4. CASE Unbounded # {}
  <2>1. PICK l \in Unbounded : \A k \in Unbounded : l <= k
    <3>1. Unbounded \in SUBSET Nat
      OBVIOUS
    <3> HIDE DEF Unbounded
    <3> QED
      BY <1>4, <3>1, LeastNumber
  <2>2. l \in 1 .. n
    BY <1>1
  <2>3. Bounded(l - 1)
    BY <2>1, <2>2
  <2> QED
    BY <1>2, <2>2, <2>3
<1> QED
  BY <1>3, <1>4

\* What holds of m, and of each number with the one before it, holds up to n.
LEMMA UpTo ==
  ASSUME NEW m \in Nat, NEW n \in Nat, NEW T, m \in T,
         \A l \in m + 1 .. n : l - 1 \in T => l \in T
  PROVE  m .. n \subseteq T
<1> DEFINE Left == {l \in m .. n : l \notin T}
<1> SUFFICES ASSUME Left # {} PROVE FALSE
  OBVIOUS
<1>1. PICK l \in Left : \A k \in Left : l <= k
  <2>1. Left \in SUBSET Nat
    OBVIOUS
  <2> HIDE DEF Left
  <2> QED
    BY <2>1, LeastNumber
<1>2. l \in m + 1 .. n /\ l \notin T
  BY <1>1
<1>3. l - 1 \in T
  BY <1>1, <1>2
<1> QED
  BY <1>2, <1>3

------------------------------------------------------------------------------
(* Sums. *)

\* What holds of each finite set of which it holds for the smaller ones holds of
\* all of them.
LEMMA EverySubset ==
  ASSUME NEW S, IsFiniteSet(S), NEW T,
         \A U \in SUBSET S : (\A x \in U : U \ {x} \in T) => U \in T
  PROVE  SUBSET S \subseteq T
<1> DEFINE Left == {Cardinality(U) : U \in (SUBSET S) \ T}
<1> SUFFICES ASSUME (SUBSET S) \ T # {} PROVE FALSE
  OBVIOUS
<1>1. \A U \in SUBSET S : IsFiniteSet(U) /\ Cardinality(U) \in Nat
  BY FS_Subset, FS_CardinalityType
<1>2. PICK n \in Left : \A k \in Left : n <= k
  <2>1. Left \in SUBSET Nat /\ Left # {}
    BY <1>1
  <2> HIDE DEF Left
  <2> QED
    BY <2>1, LeastNumber
<1>3. PICK U \in (SUBSET S) \ T : Cardinality(U) = n
  BY <1>2
<1>4. ASSUME NEW x \in U PROVE U \ {x} \in T
  <2>1. Cardinality(U \ {x}) = n - 1 /\ n \in Nat
    BY <1>1, <1>3, FS_RemoveElement
  <2>2. U \ {x} \in SUBSET S
    BY <1>3
  <2> QED
    BY <1>2, <2>1, <2>2
<1> QED
  BY <1>3, <1>4

\* g holds the sum of f over each part of S.
SumsOver(g, f, S) ==
  /\ g \in [SUBSET S -> Int]
  /\ g[{}] = 0
  /\ \A U \in SUBSET S : \A x \in U : g[U] = f[x] + g[U \ {x}]

\* The sums over the parts of T depend on nothing else.
LEMMA SumsUnique ==
  ASSUME NEW S, NEW T \in SUBSET S, IsFiniteSet(T), NEW f, NEW e, NEW g, NEW h,
         SumsOver(g, f, S), SumsOver(h, e, T), \A x \in T : f[x] = e[x]
  PROVE  g[T] = h[T]
<1> DEFINE Same == {U \in SUBSET T : g[U] = h[U]}
<1>1. ASSUME NEW U \in SUBSET T, \A x \in U : U \ {x} \in Same PROVE U \in Same
  <2>1. CASE U = {}
    BY <2>1 DEF SumsOver
  <2>2. CASE U # {}
    <3>1. PICK x \in U : TRUE
      BY <2>2
    <3>2. g[U] = f[x] + g[U \ {x}] /\ h[U] = e[x] + h[U \ {x}]
      BY <1>1, <3>1 DEF SumsOver
    <3> QED
      BY <1>1, <3>1, <3>2
  <2> QED
    BY <2>1, <2>2
<1> HIDE DEF Same
<1>2. SUBSET T \subseteq Same
  BY <1>1, EverySubset
<1> QED
  BY <1>2 DEF Same

\* SumFunctionOnSet adds up.  Its definition is a recursive function chosen by
\* CHOOSE, which takes the elements in an order of its own: one such function is
\* built up here, size by size, and the order makes no difference.
AddedUp(g, f, S) ==
  [U \in SUBSET S |-> IF U = {} THEN 0
                      ELSE f[CHOOSE x \in U : TRUE] + g[U \ {CHOOSE x \in U : TRUE}]]

\* There is such a function.
LEMMA SumBody ==
  ASSUME NEW S, IsFiniteSet(S), NEW f, \A x \in S : f[x] \in Int
  PROVE  \E g : g = AddedUp(g, f, S)
<1> DEFINE First(U) == CHOOSE x \in U : TRUE
           Value(g, U) == IF U = {} THEN 0 ELSE f[First(U)] + g[U \ {First(U)}]
           Upto(n) == {U \in SUBSET S : Cardinality(U) <= n}
           Good(g, n) == /\ g = [U \in SUBSET S |-> g[U]]
                         /\ \A U \in Upto(n) : g[U] = Value(g, U)
           Some == {n \in Nat : \E g : Good(g, n)}
<1>0. \A U \in SUBSET S : /\ IsFiniteSet(U) /\ Cardinality(U) \in Nat
                          /\ Cardinality(U) <= Cardinality(S)
                          /\ Cardinality(U) = 0 <=> U = {}
                          /\ \A x \in U : Cardinality(U \ {x}) = Cardinality(U) - 1
  BY FS_Subset, FS_CardinalityType, FS_RemoveElement, FS_EmptySet
<1>1. \A U \in SUBSET S : U # {} => First(U) \in U
  OBVIOUS
<1> HIDE DEF First
<1>2. 0 \in Some
  <2> DEFINE g == [U \in SUBSET S |-> 0]
  <2>1. \A U \in Upto(0) : U = {}
    BY <1>0
  <2>2. Good(g, 0)
    BY <2>1
  <2> QED
    BY <2>2
<1>3. ASSUME NEW n \in Nat, n # 0, n - 1 \in Some PROVE n \in Some
  <2>1. PICK g : Good(g, n - 1)
    BY <1>3
  <2> DEFINE h == [U \in SUBSET S |-> Value(g, U)]
  <2>2. \A U \in Upto(n - 1) : h[U] = g[U]
    BY <2>1
  <2>3. \A U \in Upto(n) : h[U] = Value(h, U)
    <3> TAKE U \in Upto(n)
    <3>1. CASE U = {}
      BY <3>1
    <3>2. CASE U # {}
      <4>1. U \ {First(U)} \in Upto(n - 1)
        BY <1>0, <1>1, <3>2
      <4>2. h[U \ {First(U)}] = g[U \ {First(U)}]
        BY <2>2, <4>1
      <4>3. h[U] = Value(g, U)
        OBVIOUS
      <4> HIDE DEF h
      <4> QED
        BY <3>2, <4>2, <4>3
    <3> QED
      BY <3>1, <3>2
  <2>4. h = [U \in SUBSET S |-> h[U]]
    OBVIOUS
  <2> HIDE DEF h
  <2> QED
    BY <2>3, <2>4
<1>4. PICK N \in Nat : N = Cardinality(S)
  BY <1>0
<1>5. N \in Some
  <2>1. \A l \in 0 + 1 .. N : l \in Nat /\ l # 0
    OBVIOUS
  <2> HIDE DEF Some
  <2>2. 0 .. N \subseteq Some
    BY <1>2, <1>3, <2>1, UpTo
  <2> QED
    BY <2>2
<1>6. PICK g : Good(g, N)
  BY <1>5
<1>7. \A U \in SUBSET S : g[U] = Value(g, U)
  BY <1>0, <1>4, <1>6
<1>8. g = [U \in SUBSET S |-> Value(g, U)]
  BY <1>6, <1>7
<1>9. g = AddedUp(g, f, S)
  BY <1>8, Zenon DEF AddedUp, First
<1> QED
  BY <1>9

\* The one that CHOOSE takes holds the sum over each part of S.
LEMMA SumTable ==
  ASSUME NEW S, IsFiniteSet(S), NEW f, \A x \in S : f[x] \in Int
  PROVE  \E g : SumsOver(g, f, S) /\ SumFunctionOnSet(f, S) = g[S]
<1> DEFINE F == CHOOSE g : g = AddedUp(g, f, S)
<1>1. SumFunctionOnSet(f, S) = F[S]
  BY DEF SumFunctionOnSet, FoldFunctionOnSet, MapThenFoldSet, AddedUp
<1>2. F = AddedUp(F, f, S)
  BY SumBody
<1> HIDE DEF F
<1> DEFINE First(U) == CHOOSE x \in U : TRUE
<1>3. \A U \in SUBSET S : U # {} => First(U) \in U
  OBVIOUS
<1>4. /\ F = [U \in SUBSET S |-> F[U]] /\ F[{}] = 0
      /\ \A U \in SUBSET S : U # {} => F[U] = f[First(U)] + F[U \ {First(U)}]
  BY <1>2 DEF AddedUp
<1> HIDE DEF First
<1> DEFINE Ints == {U \in SUBSET S : F[U] \in Int}
<1>5. ASSUME NEW U \in SUBSET S, \A x \in U : U \ {x} \in Ints PROVE U \in Ints
  <2>1. CASE U = {}
    BY <1>4, <2>1
  <2>2. CASE U # {}
    <3>1. PICK a \in Int, b \in Int : a = f[First(U)] /\ b = F[U \ {First(U)}]
      BY <1>3, <1>5, <2>2
    <3>2. F[U] = a + b
      BY <1>4, <2>2, <3>1
    <3> QED
      BY <3>2
  <2> QED
    BY <2>1, <2>2
<1>6. \A U \in SUBSET S : F[U] \in Int
  <2> HIDE DEF Ints
  <2>1. SUBSET S \subseteq Ints
    BY <1>5, EverySubset
  <2> QED
    BY <2>1 DEF Ints
<1> DEFINE Adds == {U \in SUBSET S : \A x \in U : F[U] = f[x] + F[U \ {x}]}
<1>7. ASSUME NEW U \in SUBSET S, \A x \in U : U \ {x} \in Adds PROVE U \in Adds
  <2> SUFFICES ASSUME NEW x \in U PROVE F[U] = f[x] + F[U \ {x}]
    OBVIOUS
  <2>1. PICK y \in U : F[U] = f[y] + F[U \ {y}]
    BY <1>3, <1>4
  <2>2. CASE x = y
    BY <2>1, <2>2
  <2>3. CASE x # y
    <3>1. F[U \ {y}] = f[x] + F[(U \ {y}) \ {x}] /\ F[U \ {x}] = f[y] + F[(U \ {x}) \ {y}]
      BY <1>7, <2>3
    <3>2. (U \ {y}) \ {x} = (U \ {x}) \ {y}
      OBVIOUS
    <3>3. PICK a \in Int, b \in Int, c \in Int :
            a = f[x] /\ b = f[y] /\ c = F[(U \ {x}) \ {y}]
      BY <1>6
    <3>4. F[U] = b + (a + c) /\ F[U \ {x}] = b + c
      BY <2>1, <3>1, <3>2, <3>3
    <3> QED
      BY <3>3, <3>4
  <2> QED
    BY <2>2, <2>3
<1>8. \A U \in SUBSET S : \A x \in U : F[U] = f[x] + F[U \ {x}]
  <2> HIDE DEF Adds
  <2>1. SUBSET S \subseteq Adds
    BY <1>7, EverySubset
  <2> QED
    BY <2>1 DEF Adds
<1> QED
  BY <1>1, <1>4, <1>6, <1>8 DEF SumsOver

\* The sum over no place is 0.
LEMMA SumEmpty ==
  ASSUME NEW f
  PROVE  SumFunctionOnSet(f, {}) = 0
<1>1. IsFiniteSet({})
  BY FS_EmptySet
<1>2. PICK g : SumsOver(g, f, {}) /\ SumFunctionOnSet(f, {}) = g[{}]
  BY <1>1, SumTable
<1> QED
  BY <1>2 DEF SumsOver

\* Equal terms have an equal sum.
LEMMA SumSame ==
  ASSUME NEW S, IsFiniteSet(S), NEW f, NEW e, \A x \in S : f[x] = e[x] /\ f[x] \in Int
  PROVE  SumFunctionOnSet(f, S) = SumFunctionOnSet(e, S)
<1>1. PICK g : SumsOver(g, f, S) /\ SumFunctionOnSet(f, S) = g[S]
  BY SumTable
<1>2. PICK h : SumsOver(h, e, S) /\ SumFunctionOnSet(e, S) = h[S]
  BY SumTable
<1>3. g[S] = h[S]
  BY <1>1, <1>2, SumsUnique
<1> QED
  BY <1>1, <1>2, <1>3

\* One term can be taken out of a sum.
LEMMA SumStep ==
  ASSUME NEW S, IsFiniteSet(S), NEW f, \A x \in S : f[x] \in Int, NEW x \in S
  PROVE  /\ SumFunctionOnSet(f, S) \in Int /\ SumFunctionOnSet(f, S \ {x}) \in Int
         /\ SumFunctionOnSet(f, S) = f[x] + SumFunctionOnSet(f, S \ {x})
<1> DEFINE T == S \ {x}
<1>1. IsFiniteSet(T) /\ T \in SUBSET S
  BY FS_RemoveElement
<1>2. PICK g : SumsOver(g, f, S) /\ SumFunctionOnSet(f, S) = g[S]
  BY SumTable
<1>3. PICK h : SumsOver(h, f, T) /\ SumFunctionOnSet(f, T) = h[T]
  <2> HIDE DEF T
  <2> QED
    BY <1>1, SumTable
<1>4. g[T] = h[T]
  <2> HIDE DEF T
  <2> QED
    BY <1>1, <1>2, <1>3, SumsUnique
<1>5. g[S] \in Int /\ g[T] \in Int /\ g[S] = f[x] + g[T]
  BY <1>1, <1>2 DEF SumsOver
<1> QED
  BY <1>2, <1>3, <1>4, <1>5

\* The sum of numbers is a number.
LEMMA SumType ==
  ASSUME NEW S, IsFiniteSet(S), NEW f, \A x \in S : f[x] \in Int
  PROVE  SumFunctionOnSet(f, S) \in Int
<1>1. PICK g : SumsOver(g, f, S) /\ SumFunctionOnSet(f, S) = g[S]
  BY SumTable
<1> QED
  BY <1>1 DEF SumsOver

\* Where one term changes, the sum changes by as much.
LEMMA SumChanged ==
  ASSUME NEW S, IsFiniteSet(S), NEW f, NEW e, NEW x \in S,
         \A y \in S : f[y] \in Int /\ e[y] \in Int,
         \A y \in S \ {x} : e[y] = f[y]
  PROVE  /\ SumFunctionOnSet(f, S) \in Int
         /\ SumFunctionOnSet(e, S) = SumFunctionOnSet(f, S) + (e[x] - f[x])
<1> DEFINE T == S \ {x}
<1>1. IsFiniteSet(T)
  BY FS_RemoveElement
<1>2. SumFunctionOnSet(e, T) = SumFunctionOnSet(f, T)
  BY <1>1, SumSame
<1>3. /\ SumFunctionOnSet(f, S) \in Int /\ SumFunctionOnSet(f, T) \in Int
      /\ SumFunctionOnSet(f, S) = f[x] + SumFunctionOnSet(f, T)
      /\ SumFunctionOnSet(e, S) = e[x] + SumFunctionOnSet(e, T)
  BY SumStep
<1>4. PICK a \in Int, b \in Int, c \in Int :
        a = f[x] /\ b = e[x] /\ c = SumFunctionOnSet(f, T)
  BY <1>3
<1> HIDE DEF T
<1> QED
  BY <1>2, <1>3, <1>4

\* A sum of zeros is 0.
LEMMA SumZero ==
  ASSUME NEW S, IsFiniteSet(S), NEW f, \A x \in S : f[x] = 0
  PROVE  SumFunctionOnSet(f, S) = 0
<1> DEFINE h == [U \in SUBSET S |-> 0]
<1>1. PICK g : SumsOver(g, f, S) /\ SumFunctionOnSet(f, S) = g[S]
  BY SumTable
<1>2. SumsOver(h, f, S) /\ h[S] = 0
  BY DEF SumsOver
<1> HIDE DEF h
<1>3. g[S] = h[S]
  BY <1>1, <1>2, SumsUnique
<1> QED
  BY <1>1, <1>2, <1>3

\* The sum of one term.
LEMMA SumOfOne ==
  ASSUME NEW f, NEW x, f[x] \in Int
  PROVE  SumFunctionOnSet(f, {x}) = f[x]
<1>1. IsFiniteSet({x}) /\ {x} \ {x} = {}
  BY FS_Singleton
<1>2. SumFunctionOnSet(f, {x}) = f[x] + SumFunctionOnSet(f, {x} \ {x})
  BY <1>1, SumStep
<1> QED
  BY <1>1, <1>2, SumEmpty

\* A sum does not shrink when its terms do not, and when terms come in that are
\* not negative.
LEMMA SumGrows ==
  ASSUME NEW S, IsFiniteSet(S), NEW T \in SUBSET S, NEW f, NEW e,
         \A x \in T : f[x] \in Int /\ f[x] <= e[x],
         \A x \in S : e[x] \in Int,
         \A x \in S \ T : e[x] >= 0
  PROVE  SumFunctionOnSet(f, T) <= SumFunctionOnSet(e, S)
<1>0. IsFiniteSet(T)
  BY FS_Subset
<1>1. PICK g : SumsOver(g, e, S) /\ SumFunctionOnSet(e, S) = g[S]
  BY SumTable
<1>2. PICK h : SumsOver(h, f, T) /\ SumFunctionOnSet(f, T) = h[T]
  BY <1>0, SumTable
<1> DEFINE Less == {U \in SUBSET S : h[U \cap T] <= g[U]}
<1>3. ASSUME NEW U \in SUBSET S, \A x \in U : U \ {x} \in Less PROVE U \in Less
  <2>1. CASE U = {}
    <3>1. h[{}] = 0 /\ g[{}] = 0 /\ U \cap T = {}
      BY <1>1, <1>2, <2>1 DEF SumsOver
    <3> QED
      BY <2>1, <3>1
  <2>2. CASE U # {}
    <3>1. PICK x \in U : TRUE
      BY <2>2
    <3>2. h[(U \ {x}) \cap T] <= g[U \ {x}] /\ g[U] = e[x] + g[U \ {x}]
      BY <1>1, <1>3, <3>1 DEF SumsOver
    <3>3. (U \ {x}) \cap T \in SUBSET T /\ U \cap T \in SUBSET T
      OBVIOUS
    <3>4. PICK a \in Int, b \in Int, c \in Int :
            a = e[x] /\ b = g[U \ {x}] /\ c = h[(U \ {x}) \cap T]
      BY <1>1, <1>2, <3>1, <3>3 DEF SumsOver
    <3>5. CASE x \in T
      <4>1. (U \cap T) \ {x} = (U \ {x}) \cap T /\ x \in U \cap T
        BY <3>1, <3>5
      <4>2. h[U \cap T] = f[x] + h[(U \cap T) \ {x}]
        BY <1>2, <3>3, <4>1 DEF SumsOver
      <4>3. PICK d \in Int : d = f[x] /\ d <= a
        BY <3>4, <3>5
      <4>4. h[U \cap T] = d + c /\ g[U] = a + b /\ c <= b
        BY <3>2, <3>4, <4>1, <4>2, <4>3
      <4>5. d + c <= a + b
        BY <3>4, <4>3, <4>4
      <4> QED
        BY <4>4, <4>5
    <3>6. CASE x \notin T
      <4>1. (U \ {x}) \cap T = U \cap T /\ a >= 0
        BY <3>1, <3>4, <3>6
      <4>2. h[U \cap T] = c /\ g[U] = a + b /\ c <= b
        BY <3>2, <3>4, <4>1
      <4>3. c <= a + b
        BY <3>4, <4>1, <4>2
      <4> QED
        BY <4>2, <4>3
    <3> QED
      BY <3>5, <3>6
  <2> QED
    BY <2>1, <2>2
<1> HIDE DEF Less
<1>4. SUBSET S \subseteq Less
  BY <1>3, EverySubset
<1>5. h[S \cap T] <= g[S] /\ S \cap T = T
  BY <1>4 DEF Less
<1> QED
  BY <1>1, <1>2, <1>5
==============================================================================
