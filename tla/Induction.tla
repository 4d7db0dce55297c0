------------------------------ MODULE Induction ------------------------------
(***************************************************************************)
(* Induction over the natural numbers and recursion, stated of sets and    *)
(* functions, so that first-order provers can use them: to prove P(n) for  *)
(* every n, show that {n \in Nat : P(n)} is such a set.                    *)
(***************************************************************************)
EXTENDS Integers, FiniteSets, FiniteSetTheorems, WellFoundedInduction, TLAPS

\* Every set of natural numbers has a least element.
LEMMA LeastNatural ==
    ASSUME NEW S \in SUBSET Nat, NEW n \in S
    PROVE  \E i \in S : \A j \in S : i <= j
  <1> DEFINE upTo(i) == {j \in S : j <= i}
             below == StrictSubsetOrdering(Nat)
             prefixes == {upTo(i) : i \in upTo(n)}
  <1>1. prefixes # {} /\ prefixes \subseteq FiniteSubsetsOf(Nat)
    <2>1. n \in Nat /\ n <= n
      OBVIOUS
    <2>2. ASSUME NEW i \in upTo(n) PROVE upTo(i) \in FiniteSubsetsOf(Nat)
      <3>1. i \in Nat /\ upTo(i) \in SUBSET Nat /\ \A j \in upTo(i) : j <= i
        OBVIOUS
      <3>2. IsFiniteSet(upTo(i))
        <4> HIDE DEF upTo
        <4> QED BY <3>1, FS_BoundedSetOfNaturals
      <3> QED BY <3>1, <3>2 DEF FiniteSubsetsOf
    <2> QED BY <2>1, <2>2
  <1>2. PICK x \in prefixes : \A y \in prefixes : ~(<<y, x>> \in below)
    <2> HIDE DEF prefixes, below
    <2>1. IsWellFoundedOn(below, FiniteSubsetsOf(Nat))
      BY FS_StrictSubsetOrderingWellFounded DEF below
    <2> QED BY <1>1, <2>1, WFMin
  <1>3. PICK i \in upTo(n) : x = upTo(i)
    OBVIOUS
  <1>4. ASSUME NEW k \in S, k < i PROVE FALSE
    <2>1. i \in Nat /\ k \in Nat /\ i \in S /\ i <= n /\ n \in Nat
      OBVIOUS
    <2>2. /\ k <= n /\ i <= i /\ ~(i <= k)
          /\ \A j \in Nat : j <= k => j <= i
      BY <1>4, <2>1
    <2>3. upTo(k) \subseteq upTo(i) /\ i \in upTo(i) /\ i \notin upTo(k) /\ k \in upTo(n)
      BY <1>4, <2>1, <2>2
    <2>4. upTo(k) \in SUBSET Nat /\ upTo(i) \in SUBSET Nat
      OBVIOUS
    <2>5. <<upTo(k), x>> \in below
      BY <1>3, <2>3, <2>4 DEF StrictSubsetOrdering
    <2> QED BY <1>2, <2>3, <2>5
  <1>5. i \in S /\ \A k \in S : i <= k
    BY <1>4
  <1> QED BY <1>5

\* Course-of-values induction.
LEMMA StrongInduction ==
    ASSUME NEW S, \A n \in Nat : (\A k \in Nat : k < n => k \in S) => n \in S
    PROVE  Nat \subseteq S
  <1> SUFFICES ASSUME NEW m \in Nat, m \notin S PROVE FALSE
    OBVIOUS
  <1> DEFINE rest == {k \in Nat : k \notin S}
  <1>1. PICK i \in rest : \A j \in rest : i <= j
    <2>1. rest \in SUBSET Nat /\ m \in rest
      OBVIOUS
    <2> HIDE DEF rest
    <2> QED BY <2>1, LeastNatural
  <1>2. \A k \in Nat : k < i => k \in S
    BY <1>1
  <1> QED BY <1>1, <1>2

\* Step by step.
LEMMA SimpleInduction ==
    ASSUME NEW S, 0 \in S, \A n \in Nat : n \in S => n + 1 \in S
    PROVE  Nat \subseteq S
  <1> SUFFICES ASSUME NEW n \in Nat, \A k \in Nat : k < n => k \in S PROVE n \in S
    BY StrongInduction
  <1>1. CASE n = 0
    BY <1>1
  <1>2. CASE n # 0
    <2>1. n - 1 \in Nat /\ n - 1 < n /\ n = (n - 1) + 1
      BY <1>2
    <2> QED BY <2>1
  <1> QED BY <1>1, <1>2

(***************************************************************************)
(* A recursive function exists if its value at x depends on values of      *)
(* lower rank alone.  Body takes a function to the function whose values   *)
(* are those of the right-hand side of the definition.                     *)
(***************************************************************************)
DependsOnLower(D, V, Body, rank) ==
    /\ Body \in [[D -> V] -> [D -> V]] /\ rank \in [D -> Nat]
    /\ \A g, h \in [D -> V], x \in D :
           (\A y \in D : rank[y] < rank[x] => g[y] = h[y]) => Body[g][x] = Body[h][x]

LEMMA RecursionIsSound ==
    ASSUME NEW D, NEW V, V # {}, NEW Body, NEW rank, DependsOnLower(D, V, Body, rank)
    PROVE  \E f \in [D -> V] : f = Body[f]
  <1> USE DEF DependsOnLower
  <1> PICK v \in V : TRUE
    OBVIOUS
  <1> DEFINE Solves(g, n) == \A x \in D : rank[x] < n => g[x] = Body[g][x]
             Upto(n) == \E g \in [D -> V] : Solves(g, n)
             S == {n \in Nat : Upto(n)}
  <1>1. 0 \in S
    <2>1. [x \in D |-> v] \in [D -> V]
      OBVIOUS
    <2>2. \A x \in D : ~(rank[x] < 0)
      OBVIOUS
    <2>3. Upto(0)
      BY <2>1, <2>2
    <2> QED BY <2>3
  <1>2. ASSUME NEW n \in Nat, n \in S PROVE n + 1 \in S
    <2>1. PICK g \in [D -> V] : Solves(g, n)
      BY <1>2
    <2> DEFINE h == [x \in D |-> IF rank[x] < n THEN g[x] ELSE Body[g][x]]
    <2>2. h \in [D -> V]
      OBVIOUS
    <2>3. ASSUME NEW x \in D, rank[x] < n + 1 PROVE h[x] = Body[h][x]
      <3>1. \A y \in D : rank[y] < rank[x] => h[y] = g[y]
        BY <2>3
      <3>2. Body[h][x] = Body[g][x]
        <4> HIDE DEF h
        <4> QED BY <2>2, <3>1
      <3>3. h[x] = Body[g][x]
        BY <2>1, <2>3
      <3> QED BY <3>2, <3>3
    <2> HIDE DEF h
    <2>4. Upto(n + 1)
      BY <2>2, <2>3
    <2> QED BY <2>4
  <1>3. \A n \in Nat : Upto(n)
    <2>1. Nat \subseteq S
      <3> HIDE DEF S
      <3> QED BY <1>1, <1>2, SimpleInduction
    <2> QED BY <2>1
  \* two solutions up to a rank agree below it
  <1>4. ASSUME NEW n \in Nat, NEW g \in [D -> V], NEW h \in [D -> V], Solves(g, n), Solves(h, n)
        PROVE  \A x \in D : rank[x] < n => g[x] = h[x]
    <2> DEFINE Agree(m) == \A x \in D : rank[x] = m /\ m < n => g[x] = h[x]
               A == {m \in Nat : Agree(m)}
    <2>1. ASSUME NEW m \in Nat, \A k \in Nat : k < m => k \in A PROVE m \in A
      <3>1. ASSUME NEW x \in D, rank[x] = m, m < n PROVE g[x] = h[x]
        <4>1. \A y \in D : rank[y] < rank[x] => g[y] = h[y]
          BY <2>1, <3>1
        <4> QED BY <1>4, <3>1, <4>1
      <3> QED BY <3>1
    <2>2. Nat \subseteq A
      <3> HIDE DEF A
      <3> QED BY <2>1, StrongInduction
    <2> QED BY <2>2
  <1> DEFINE G(n) == CHOOSE g \in [D -> V] : Solves(g, n)
             f == [x \in D |-> G(rank[x] + 1)[x]]
  <1>5. \A n \in Nat : G(n) \in [D -> V] /\ Solves(G(n), n)
    BY <1>3
  <1> HIDE DEF G
  <1>6. f \in [D -> V]
    BY <1>5
  <1>7. ASSUME NEW x \in D PROVE f[x] = Body[f][x]
    <2> DEFINE n == rank[x] + 1
    <2>1. n \in Nat /\ G(n) \in [D -> V] /\ Solves(G(n), n) /\ rank[x] < n
      BY <1>5
    <2>2. ASSUME NEW y \in D, rank[y] < rank[x] PROVE f[y] = G(n)[y]
      <3> DEFINE m == rank[y] + 1
      <3>1. m \in Nat /\ G(m) \in [D -> V] /\ Solves(G(m), m) /\ rank[y] < m
        BY <1>5
      <3>2. Solves(G(n), m)
        BY <2>1, <2>2, <3>1
      <3> HIDE DEF m, n, Solves
      <3>3. G(m)[y] = G(n)[y]
        BY <1>4, <2>1, <3>1, <3>2
      <3> QED BY <3>3 DEF m
    <2>3. Body[f][x] = Body[G(n)][x]
      <3> HIDE DEF f, n
      <3> QED BY <1>6, <2>1, <2>2
    <2>4. G(n)[x] = Body[G(n)][x]
      BY <2>1
    <2> QED BY <2>3, <2>4
  <1>8. f = Body[f]
    <2> HIDE DEF f
    <2>1. Body[f] \in [D -> V]
      BY <1>6
    <2> QED BY <1>6, <1>7, <2>1
  <1> QED BY <1>6, <1>8

-----------------------------------------------------------------------------
(***************************************************************************)
(* Multiples and remainders.                                               *)
(***************************************************************************)
LEMMA SmallMultiple ==
    ASSUME NEW p \in Nat \ {0}, NEW q \in Int, q * p < p, 0 <= q * p PROVE q = 0
<1>1. q < 1
  <2>1. SUFFICES ASSUME q >= 1 PROVE FALSE  OBVIOUS
  <2>2. q * p >= 1 * p  BY <2>1
  <2>3. QED  BY <2>2
<1>2. q > -1
  <2>1. SUFFICES ASSUME q <= -1 PROVE FALSE  OBVIOUS
  <2>2. q * p <= (-1) * p  BY <2>1
  <2>3. QED  BY <2>2
<1>3. QED  BY <1>1, <1>2

\* Two indices less than the size of a ring apart have slots of their own.
LEMMA RemaindersDiffer ==
    ASSUME NEW p \in Nat \ {0}, NEW j \in Nat, NEW k \in Nat, k <= j, j - k < p, j % p = k % p
    PROVE  j = k
<1> DEFINE a == j \div p
           b == k \div p
<1>1. /\ a \in Int /\ b \in Int /\ j % p \in Int
      /\ j = p * a + (j % p)
      /\ k = p * b + (k % p)
  OBVIOUS
<1> HIDE DEF a, b
<1>2. j - k = (a - b) * p  BY <1>1
<1>3. a - b = 0  BY <1>1, <1>2, SmallMultiple
<1>4. QED  BY <1>2, <1>3

LEMMA MultiplesInOrder ==
    ASSUME NEW p \in Nat \ {0}, NEW a \in Int, NEW b \in Int, a * p < b * p
    PROVE  a < b
<1>1. SUFFICES ASSUME a >= b PROVE FALSE  OBVIOUS
<1>2. a - b \in Nat /\ a * p = b * p + (a - b) * p  BY <1>1
<1>3. (a - b) * p >= 0  BY <1>2
<1>4. QED  BY <1>2, <1>3

=============================================================================
