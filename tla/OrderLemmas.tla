------------------------------ MODULE OrderLemmas ------------------------------
(***************************************************************************)
(* Facts about naturals and finite orders that the proofs of several       *)
(* components need: a least number, counting up to a bound, the largest    *)
(* number of a set, and how the members of an ordered set are numbered.    *)
(***************************************************************************)
EXTENDS Naturals, FiniteSets, FiniteSetsExt, FiniteSetTheorems, WellFoundedInduction, TLAPS

-----------------------------------------------------------------------------
\* A set of naturals that is not empty has a least member.
LEMMA LessIsRelated == \A k, n \in Nat : k < n => <<k, n>> \in OpToRel(<, Nat)
<1>. SUFFICES ASSUME NEW k \in Nat, NEW n \in Nat, k < n
              PROVE  <<k, n>> \in OpToRel(<, Nat)
  OBVIOUS
<1>1. <<k, n>> \in Nat \X Nat /\ <<k, n>>[1] < <<k, n>>[2]
  OBVIOUS
<1>. QED  BY <1>1, Zenon DEF OpToRel

LEMMA HasLeast ==
  ASSUME NEW r \in SUBSET Nat, r # {}
  PROVE  \E n \in r : \A k \in r : n <= k
<1>1. PICK n \in r : \A k \in r : ~(<<k, n>> \in OpToRel(<, Nat))
  BY WFMin, NatLessThanWellFounded, Zenon
<1>2. \A k \in r : ~(k < n)
  BY <1>1, LessIsRelated, Zenon
<1>. QED  BY <1>2

\* What holds at 0 and passes from each number to the next holds up to n.
LEMMA Counts ==
  ASSUME NEW n \in Nat, NEW P, 0 \in P, \A k \in 1..n : k - 1 \in P => k \in P
  PROVE  \A k \in 0..n : k \in P
<1>. DEFINE bad == {k \in 0..n : k \notin P}
<1>. SUFFICES ASSUME bad # {}
              PROVE  FALSE
  OBVIOUS
<1>1. PICK k \in bad : \A j \in bad : k <= j
  <2>1. bad \in SUBSET Nat
    OBVIOUS
  <2>. HIDE DEF bad
  <2>. QED  BY <2>1, HasLeast
<1>2. k \in 1..n /\ k - 1 \in 0..n /\ ~(k <= k - 1)
  BY <1>1
<1>. QED  BY <1>1, <1>2

\* Max of a bounded set of naturals that is not empty.
LEMMA MaxIs ==
  ASSUME NEW k \in Nat, NEW s \in SUBSET (0..k), s # {}
  PROVE  Max(s) \in s /\ \A j \in s : j <= Max(s)
<1>. DEFINE room == {k - x : x \in s}
<1>1. \A x \in s : x \in Nat /\ k - x \in Nat /\ k - x \in room
  <2>1. \A x \in s : x \in Nat /\ x <= k
    OBVIOUS
  <2>. QED  BY <2>1
<1>2. room # {} /\ room \in SUBSET Nat
  BY <1>1
<1>3. PICK n \in room : \A x \in room : n <= x
  <2>. HIDE DEF room
  <2>. QED  BY <1>2, HasLeast
<1>4. PICK m \in s : n = k - m
  OBVIOUS
<1>5. \A j \in s : k - m <= k - j
  <2>. HIDE DEF room
  <2>. QED  BY <1>1, <1>3, <1>4
<1>6. \A j \in s : m >= j
  BY <1>1, <1>5
<1>7. Max(s) \in s /\ \A j \in s : Max(s) >= j
  BY <1>6 DEF Max
<1>. QED  BY <1>1, <1>7

-----------------------------------------------------------------------------
(***************************************************************************)
(* Ranks: the members of a finite set T in a strict total order, given by  *)
(* a set R of pairs, are numbered by how many come before them.            *)
(***************************************************************************)
Orders(R, T) ==
  /\ \A x \in T : <<x, x>> \notin R
  /\ \A x, y, z \in T : <<x, y>> \in R /\ <<y, z>> \in R => <<x, z>> \in R
  /\ \A x, y \in T : x # y => <<x, y>> \in R \/ <<y, x>> \in R
Rank(R, T, m) == Cardinality({x \in T : <<x, m>> \in R})

LEMMA RankIs ==
  ASSUME NEW R, NEW T, IsFiniteSet(T), Orders(R, T)
  PROVE  /\ Cardinality(T) \in Nat
         /\ \A m \in T : Rank(R, T, m) \in 0..(Cardinality(T) - 1)
         /\ \A a, b \in T : <<a, b>> \in R => Rank(R, T, a) < Rank(R, T, b)
<1>. DEFINE B(m) == {x \in T : <<x, m>> \in R}
<1>1. \A m \in T : IsFiniteSet(B(m)) /\ B(m) \subseteq T /\ B(m) # T
  BY FS_Subset DEF Orders
<1>2. Cardinality(T) \in Nat
  BY FS_CardinalityType
<1>3. \A m \in T : Rank(R, T, m) = Cardinality(B(m)) /\ Cardinality(B(m)) \in Nat
  BY <1>1, FS_CardinalityType DEF Rank
<1>4. ASSUME NEW a \in T, NEW b \in T, <<a, b>> \in R
      PROVE  Rank(R, T, a) < Rank(R, T, b)
  <2>1. B(a) \subseteq B(b) /\ a \in B(b) /\ a \notin B(a)
    BY <1>4 DEF Orders
  <2>2. B(a) # B(b)
    BY <2>1
  <2>. HIDE DEF B
  <2>3. Cardinality(B(a)) < Cardinality(B(b))
    BY <1>1, <1>3, <2>1, <2>2, FS_Subset
  <2>. QED  BY <1>3, <2>3
<1>5. ASSUME NEW m \in T
      PROVE  Rank(R, T, m) \in 0..(Cardinality(T) - 1)
  <2>. HIDE DEF B
  <2>1. Cardinality(B(m)) < Cardinality(T)
    BY <1>1, <1>2, <1>3, FS_Subset
  <2>. QED  BY <1>2, <1>3, <2>1
<1>. QED  BY <1>2, <1>4, <1>5

LEMMA RankOnto ==
  ASSUME NEW R, NEW T, IsFiniteSet(T), Orders(R, T), NEW n \in 0..(Cardinality(T) - 1)
  PROVE  \E m \in T : Rank(R, T, m) = n
<1>. DEFINE c == Cardinality(T)
            f == [m \in T |-> Rank(R, T, m)]
            I == {Rank(R, T, m) : m \in T}
<1>1. c \in Nat /\ IsFiniteSet(0..(c - 1)) /\ Cardinality(0..(c - 1)) = c
  <2>1. c \in Nat
    BY RankIs
  <2>. HIDE DEF c
  <2>2. /\ IsFiniteSet(0..(c - 1))
        /\ Cardinality(0..(c - 1)) = IF 0 > c - 1 THEN 0 ELSE (c - 1) - 0 + 1
    BY <2>1, FS_Interval
  <2>. QED  BY <2>1, <2>2
<1>2. f \in Bijection(T, I)
  <2>1. f \in [T -> I]
    OBVIOUS
  <2>2. \A a, b \in T : a # b => f[a] # f[b]
    <3>1. SUFFICES ASSUME NEW a \in T, NEW b \in T, a # b
                   PROVE  f[a] # f[b]
      OBVIOUS
    <3>2. Rank(R, T, a) \in Nat /\ Rank(R, T, b) \in Nat
      BY RankIs
    <3>3. Rank(R, T, a) < Rank(R, T, b) \/ Rank(R, T, b) < Rank(R, T, a)
      BY <3>1, RankIs DEF Orders
    <3>. QED  BY <3>2, <3>3
  <2>3. \A r \in I : \E m \in T : f[m] = r
    OBVIOUS
  <2>. QED  BY <2>1, <2>2, <2>3 DEF Bijection, Injection, Surjection, IsInjective
<1>3. Cardinality(I) = c
  <2>. HIDE DEF f, I
  <2>. QED  BY <1>2, FS_Bijection DEF ExistsBijection
<1>4. I \subseteq 0..(c - 1)
  BY RankIs
<1>5. I = 0..(c - 1)
  <2>. HIDE DEF I, c
  <2>. QED  BY <1>1, <1>3, <1>4, FS_Subset
<1>. QED  BY <1>5

-----------------------------------------------------------------------------
\* A list of the members of S, each once, in the order of R.
Lists(f, R, S) ==
  /\ f \in [1..Cardinality(S) -> S]
  /\ \A m \in S : \E n \in 1..Cardinality(S) : f[n] = m
  /\ \A m, n \in 1..Cardinality(S) : m < n => <<f[m], f[n]>> \in R

LEMMA RankLists ==
  ASSUME NEW R, NEW S, IsFiniteSet(S), Orders(R, S), NEW f,
         f \in [1..Cardinality(S) -> S],
         \A n \in 1..Cardinality(S) : Rank(R, S, f[n]) = n - 1
  PROVE  Lists(f, R, S)
<1>. DEFINE c == Cardinality(S)
<1>1. c \in Nat
  BY RankIs
<1>2. ASSUME NEW m \in S
      PROVE  \E n \in 1..c : f[n] = m
  <2>. DEFINE n == Rank(R, S, m) + 1
  <2>1. n \in 1..c /\ Rank(R, S, m) \in Nat
    <3>1. Rank(R, S, m) \in 0..(c - 1)
      BY RankIs
    <3>. HIDE DEF c
    <3>. QED  BY <1>1, <3>1
  <2>2. f[n] \in S /\ Rank(R, S, f[n]) = Rank(R, S, m)
    BY <2>1
  <2>. HIDE DEF n, c
  <2>3. ~(Rank(R, S, f[n]) < Rank(R, S, m)) /\ ~(Rank(R, S, m) < Rank(R, S, f[n]))
    BY <2>1, <2>2
  <2>4. f[n] = m
    BY <2>2, <2>3, RankIs DEF Orders
  <2>. QED  BY <2>1, <2>4
<1>3. ASSUME NEW m \in 1..c, NEW n \in 1..c, m < n
      PROVE  <<f[m], f[n]>> \in R
  <2>1. /\ f[m] \in S /\ f[n] \in S
        /\ Rank(R, S, f[m]) = m - 1 /\ Rank(R, S, f[n]) = n - 1
    OBVIOUS
  <2>. HIDE DEF c
  <2>2. ~(Rank(R, S, f[n]) < Rank(R, S, f[m])) /\ f[m] # f[n]
    BY <1>1, <1>3, <2>1
  <2>. QED  BY <2>1, <2>2, RankIs DEF Orders
<1>. QED  BY <1>2, <1>3 DEF Lists
=============================================================================
