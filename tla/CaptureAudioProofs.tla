-------------------------- MODULE CaptureAudioProofs --------------------------
(***************************************************************************)
(* What TLAPS proves of the audio of CaptureEngine: that the chunks of a   *)
(* source are numbered without a gap, that no frame is lost or counted     *)
(* twice, and that the counters of the metadata count what is there.  Then *)
(* how sessions turn out: that recovery leaves the metadata in agreement   *)
(* with the disk, that the duration of a session is that of its audio,     *)
(* that the device-lost event tells of the last chunk of its source, and   *)
(* that the engine implements SessionFeed.                                 *)
(***************************************************************************)
EXTENDS CaptureSessionProofs, OrderLemmas

-----------------------------------------------------------------------------
(***************************************************************************)
(* Sums over finite sets: what TLAPS needs to know of MapThenSumSet, which *)
(* CaptureEngine counts frames and bytes with.  The community modules give *)
(* its definition, a recursive function; that it has a value, and that the *)
(* order in which elements are picked does not matter, is proved here, by  *)
(* taking a smallest set for which it fails.                               *)
(***************************************************************************)
Pick(s) == CHOOSE x \in s : TRUE
SumBody(f, g, s) == IF s = {} THEN 0 ELSE f[Pick(s)] + g[s \ {Pick(s)}]

\* g sums f over every set of d.
Adds(g, f, d) == \A s \in d : g[s] = SumBody(f, g, s)
Sums(g, f, d) == g \in [d -> Nat] /\ Adds(g, f, d)

SumOf(f, S) == MapThenSumSet(LAMBDA x : f[x], S)

-----------------------------------------------------------------------------
LEMMA AddType == \A a, b : a \in Nat /\ b \in Nat => a + b \in Nat
OBVIOUS

LEMMA Swap ==
  ASSUME NEW a \in Nat, NEW b \in Nat, NEW c \in Nat
  PROVE  a + (b + c) = b + (a + c)
OBVIOUS

\* Of the finite sets in d, if there are any, one is smallest.
LEMMA HasSmallest ==
  ASSUME NEW d, d # {}, \A s \in d : IsFiniteSet(s)
  PROVE  \E s \in d : \A t \in d : Cardinality(s) <= Cardinality(t)
<1>. DEFINE sizes == {Cardinality(s) : s \in d}
<1>1. sizes \in SUBSET Nat /\ sizes # {}
  BY FS_CardinalityType
<1>2. PICK n \in sizes : \A k \in sizes : n <= k
  <2>. HIDE DEF sizes
  <2>. QED  BY <1>1, HasLeast
<1>. QED  BY <1>2

\* The element that is picked is one of the set's, and the rest is smaller.
LEMMA PickSmaller ==
  ASSUME NEW s, s # {}, IsFiniteSet(s)
  PROVE  /\ Pick(s) \in s
         /\ \A x \in s : /\ IsFiniteSet(s \ {x})
                         /\ Cardinality(s \ {x}) = Cardinality(s) - 1
                         /\ Cardinality(s) \in Nat \ {0}
                         /\ Cardinality(s \ {x}) \in Nat
<1>1. Pick(s) \in s
  BY DEF Pick
<1>2. ASSUME NEW x \in s
      PROVE  /\ IsFiniteSet(s \ {x})
             /\ Cardinality(s \ {x}) = Cardinality(s) - 1
             /\ Cardinality(s) \in Nat \ {0}
             /\ Cardinality(s \ {x}) \in Nat
  <2>1. /\ IsFiniteSet(s \ {x})
        /\ Cardinality(s \ {x}) = Cardinality(s) - 1
    BY <1>2, FS_RemoveElement
  <2>2. Cardinality(s) \in Nat /\ Cardinality(s) # 0
    BY FS_CardinalityType, FS_EmptySet
  <2>3. Cardinality(s \ {x}) \in Nat
    BY <2>1, FS_CardinalityType
  <2>. QED  BY <2>1, <2>2, <2>3
<1>. QED  BY <1>1, <1>2

-----------------------------------------------------------------------------
(***************************************************************************)
(* Two functions that sum f, over families of sets that are closed under   *)
(* subsets, agree where both are defined.                                  *)
(***************************************************************************)
Closed(d) == \A s \in d : IsFiniteSet(s) /\ SUBSET s \subseteq d

LEMMA SumsAgree ==
  ASSUME NEW f, NEW g, NEW h, NEW d, NEW e,
         Closed(d), Closed(e), Adds(g, f, d), Adds(h, f, e)
  PROVE  \A s \in d \cap e : g[s] = h[s]
<1>. DEFINE bad == {s \in d \cap e : g[s] # h[s]}
<1>. SUFFICES ASSUME bad # {}
              PROVE  FALSE
  OBVIOUS
<1>1. PICK s \in bad : \A t \in bad : Cardinality(s) <= Cardinality(t)
  <2>1. \A t \in bad : IsFiniteSet(t)
    BY DEF Closed
  <2>. HIDE DEF bad
  <2>. QED  BY <2>1, HasSmallest
<1>2. IsFiniteSet(s) /\ s \in d /\ s \in e /\ g[s] # h[s]
  BY <1>1 DEF Closed
<1>3. s # {}
  BY <1>2 DEF Adds, SumBody
<1>. DEFINE t == s \ {Pick(s)}
<1>4. Cardinality(t) < Cardinality(s) /\ t \in d /\ t \in e
  <2>1. Cardinality(t) = Cardinality(s) - 1 /\ Cardinality(s) \in Nat
    BY <1>2, <1>3, PickSmaller
  <2>2. t \in SUBSET s
    OBVIOUS
  <2>3. t \in d /\ t \in e
    BY <1>2, <2>2 DEF Closed
  <2>. HIDE DEF t
  <2>. QED  BY <2>1, <2>3
<1>5. g[t] = h[t]
  <2>1. t \notin bad
    <3>1. Cardinality(t) \in Nat /\ Cardinality(s) \in Nat
      BY <1>2, <1>3, PickSmaller
    <3>. QED  BY <1>1, <1>4, <3>1
  <2>. QED  BY <1>4, <2>1
<1>. QED  BY <1>2, <1>3, <1>5 DEF Adds, SumBody

-----------------------------------------------------------------------------
(***************************************************************************)
(* Over the subsets of a finite set there is a function that sums f: for   *)
(* the subsets of less than n elements by induction on n.                  *)
(***************************************************************************)
Below(S, n) == {s \in SUBSET S : Cardinality(s) < n}

LEMMA SumsStep ==
  ASSUME NEW S, IsFiniteSet(S), NEW f, \A x \in S : f[x] \in Nat,
         NEW n \in Nat, NEW g, Sums(g, f, Below(S, n))
  PROVE  \E h : Sums(h, f, Below(S, n + 1))
<1>. DEFINE h == [s \in Below(S, n + 1) |-> SumBody(f, g, s)]
<1>1. ASSUME NEW s \in Below(S, n + 1), s # {}
      PROVE  /\ f[Pick(s)] \in Nat
             /\ s \ {Pick(s)} \in Below(S, n)
             /\ g[s \ {Pick(s)}] \in Nat
             /\ g[s \ {Pick(s)}] = SumBody(f, g, s \ {Pick(s)})
             /\ s \ {Pick(s)} \in Below(S, n + 1)
  <2>1. IsFiniteSet(s) /\ s \subseteq S /\ Cardinality(s) < n + 1
    BY FS_Subset DEF Below
  <2>2. Pick(s) \in s /\ Cardinality(s \ {Pick(s)}) = Cardinality(s) - 1
        /\ Cardinality(s) \in Nat
    BY <1>1, <2>1, PickSmaller
  <2>3. Cardinality(s \ {Pick(s)}) < n /\ Cardinality(s \ {Pick(s)}) < n + 1
    BY <2>1, <2>2
  <2>4. s \ {Pick(s)} \in Below(S, n) /\ s \ {Pick(s)} \in Below(S, n + 1)
    BY <2>1, <2>3 DEF Below
  <2>. QED  BY <2>1, <2>2, <2>4 DEF Sums, Adds
<1>2. \A s \in Below(S, n + 1) : SumBody(f, g, s) \in Nat
  <2>. SUFFICES ASSUME NEW s \in Below(S, n + 1)
                PROVE  SumBody(f, g, s) \in Nat
    OBVIOUS
  <2>1. CASE s = {}
    BY <2>1 DEF SumBody
  <2>2. CASE s # {}
    <3>1. SumBody(f, g, s) = f[Pick(s)] + g[s \ {Pick(s)}]
      BY <2>2 DEF SumBody
    <3>2. f[Pick(s)] \in Nat /\ g[s \ {Pick(s)}] \in Nat
      BY <1>1, <2>2
    <3>. QED  BY <3>1, <3>2, AddType
  <2>. QED  BY <2>1, <2>2
<1>3. h \in [Below(S, n + 1) -> Nat]
  BY <1>2
<1>4. ASSUME NEW s \in Below(S, n + 1)
      PROVE  h[s] = SumBody(f, h, s)
  <2>1. CASE s = {}
    BY <2>1 DEF SumBody
  <2>2. CASE s # {}
    <3>. DEFINE t == s \ {Pick(s)}
    <3>1. h[t] = g[t]
      BY <1>1, <2>2
    <3>2. h[s] = SumBody(f, g, s)
      OBVIOUS
    <3>3. SumBody(f, g, s) = f[Pick(s)] + g[t]
      BY <2>2 DEF SumBody
    <3>4. SumBody(f, h, s) = f[Pick(s)] + h[t]
      BY <2>2 DEF SumBody
    <3>. HIDE DEF h, t
    <3>. QED  BY <3>1, <3>2, <3>3, <3>4
  <2>. QED  BY <2>1, <2>2
<1>. QED
  <2>. HIDE DEF h
  <2>1. Sums(h, f, Below(S, n + 1))
    BY <1>3, <1>4 DEF Sums, Adds
  <2>. QED  BY <2>1

LEMMA SumsExists ==
  ASSUME NEW S, IsFiniteSet(S), NEW f, \A x \in S : f[x] \in Nat
  PROVE  \E g : Sums(g, f, SUBSET S)
<1>. DEFINE bad == {n \in Nat : ~ \E g : Sums(g, f, Below(S, n))}
<1>1. bad = {}
  <2>. SUFFICES ASSUME bad # {}
                PROVE  FALSE
    OBVIOUS
  <2>1. PICK n \in bad : \A k \in bad : n <= k
    <3>. HIDE DEF bad
    <3>1. bad \in SUBSET Nat
      BY DEF bad
    <3>. QED  BY <3>1, HasLeast
  <2>2. CASE n = 0
    <3>1. Below(S, 0) = {}
      <4>. SUFFICES ASSUME NEW s \in Below(S, 0)
                    PROVE  FALSE
        OBVIOUS
      <4>1. s \in SUBSET S /\ Cardinality(s) < 0
        BY DEF Below
      <4>2. Cardinality(s) \in Nat
        BY <4>1, FS_Subset, FS_CardinalityType
      <4>. QED  BY <4>1, <4>2
    <3>. DEFINE g == [s \in Below(S, 0) |-> 0]
    <3>2. Sums(g, f, Below(S, 0))
      BY <3>1 DEF Sums, Adds
    <3>. HIDE DEF g
    <3>. QED  BY <2>1, <2>2, <3>2
  <2>3. CASE n # 0
    <3>1. n - 1 \in Nat /\ n - 1 \notin bad /\ (n - 1) + 1 = n
      BY <2>1, <2>3
    <3>2. PICK g : Sums(g, f, Below(S, n - 1))
      BY <3>1
    <3>3. \E h : Sums(h, f, Below(S, (n - 1) + 1))
      BY <3>1, <3>2, SumsStep
    <3>. QED  BY <2>1, <3>1, <3>3
  <2>. QED  BY <2>2, <2>3
<1>2. Cardinality(S) \in Nat
  BY FS_CardinalityType
<1>3. Below(S, Cardinality(S) + 1) = SUBSET S
  <2>1. ASSUME NEW s \in SUBSET S
        PROVE  Cardinality(s) < Cardinality(S) + 1
    <3>1. IsFiniteSet(s) /\ Cardinality(s) <= Cardinality(S)
      BY FS_Subset
    <3>2. Cardinality(s) \in Nat
      BY <3>1, FS_CardinalityType
    <3>. QED  BY <1>2, <3>1, <3>2
  <2>. QED  BY <2>1 DEF Below
<1>4. Cardinality(S) + 1 \in Nat /\ Cardinality(S) + 1 \notin bad
  BY <1>1, <1>2
<1>. QED  BY <1>3, <1>4

-----------------------------------------------------------------------------
\* The order in which elements are picked does not matter.
LEMMA AnyOrder ==
  ASSUME NEW S, IsFiniteSet(S), NEW f, \A x \in S : f[x] \in Nat,
         NEW g, Sums(g, f, SUBSET S)
  PROVE  \A s \in SUBSET S : \A x \in s : g[s] = f[x] + g[s \ {x}]
<1>. DEFINE Fails(s) == \E x \in s : g[s] # f[x] + g[s \ {x}]
            bad == {s \in SUBSET S : Fails(s)}
<1>. SUFFICES ASSUME bad # {}
              PROVE  FALSE
  OBVIOUS
<1>1. PICK s \in bad : \A t \in bad : Cardinality(s) <= Cardinality(t)
  <2>1. \A t \in bad : IsFiniteSet(t)
    BY FS_Subset
  <2>. HIDE DEF bad
  <2>. QED  BY <2>1, HasSmallest
<1>2. PICK x \in s : g[s] # f[x] + g[s \ {x}]
  BY <1>1
<1>. DEFINE p == Pick(s)
<1>3. s # {} /\ s \in SUBSET S /\ IsFiniteSet(s) /\ p \in s
  BY <1>1, <1>2, FS_Subset, PickSmaller
<1>4. g[s] = f[p] + g[s \ {p}]
  BY <1>3 DEF Sums, Adds, SumBody
<1>5. p # x
  BY <1>2, <1>4
<1>6. ASSUME NEW y \in s, NEW z \in s \ {y}
      PROVE  g[s \ {y}] = f[z] + g[(s \ {y}) \ {z}]
  <2>1. s \ {y} \in SUBSET S
    BY <1>3
  <2>2. s \ {y} \notin bad
    <3>1. /\ Cardinality(s \ {y}) = Cardinality(s) - 1
          /\ Cardinality(s) \in Nat
      BY <1>3, PickSmaller
    <3>2. ~(Cardinality(s) <= Cardinality(s \ {y}))
      BY <3>1
    <3>. QED  BY <1>1, <3>2
  <2>. QED  BY <1>6, <2>1, <2>2
<1>7. /\ g[s \ {p}] = f[x] + g[(s \ {p}) \ {x}]
      /\ g[s \ {x}] = f[p] + g[(s \ {x}) \ {p}]
  BY <1>3, <1>5, <1>6
<1>8. (s \ {p}) \ {x} = (s \ {x}) \ {p}
  OBVIOUS
<1>9. f[p] \in Nat /\ f[x] \in Nat /\ g[(s \ {p}) \ {x}] \in Nat
  BY <1>3 DEF Sums
<1>10. g[s] = f[x] + g[s \ {x}]
  <2>. DEFINE q == g[(s \ {p}) \ {x}]
  <2>1. f[p] + (f[x] + q) = f[x] + (f[p] + q)
    <3>. HIDE DEF p, q
    <3>1. q \in Nat
      BY <1>9 DEF q
    <3>. QED  BY <1>9, <3>1, Swap
  <2>2. g[s] = f[p] + (f[x] + q) /\ g[s \ {x}] = f[p] + q
    BY <1>4, <1>7, <1>8, Zenon
  <2>. HIDE DEF p, q
  <2>. QED  BY <2>1, <2>2, Zenon
<1>. QED  BY <1>2, <1>10

LEMMA SumOfIs ==
  ASSUME NEW S, IsFiniteSet(S), NEW f, \A x \in S : f[x] \in Nat,
         NEW g, Sums(g, f, SUBSET S), NEW T \in SUBSET S
  PROVE  SumOf(f, T) = g[T]
<1>. DEFINE Folds(h) == h = [s \in SUBSET T |-> IF s = {} THEN 0
                                                ELSE f[Pick(s)] + h[s \ {Pick(s)}]]
            iter == CHOOSE h : Folds(h)
<1>1. SumOf(f, T) = iter[T]
  BY DEF SumOf, MapThenSumSet, MapThenFoldSet, Pick
<1>2. IsFiniteSet(T) /\ \A x \in T : f[x] \in Nat
  BY FS_Subset
<1>3. PICK h : Sums(h, f, SUBSET T)
  BY <1>2, SumsExists
<1>4. Folds(h)
  BY <1>3 DEF Sums, Adds, SumBody
<1>5. Folds(iter)
  <2>. HIDE DEF Folds
  <2>. QED  BY <1>4
<1>6. Adds(iter, f, SUBSET T)
  <2>. HIDE DEF iter
  <2>. QED  BY <1>5 DEF Adds, SumBody
<1>7. Closed(SUBSET T) /\ Closed(SUBSET S)
  BY <1>2, FS_Subset DEF Closed
<1>8. T \in (SUBSET T) \cap (SUBSET S)
  OBVIOUS
<1>9. iter[T] = g[T]
  <2>. HIDE DEF iter
  <2>. QED  BY <1>6, <1>7, <1>8, SumsAgree DEF Sums
<1>. QED  BY <1>1, <1>9

-----------------------------------------------------------------------------
(***************************************************************************)
(* What the proofs cite.                                                   *)
(***************************************************************************)
LEMMA SumType ==
  ASSUME NEW S, IsFiniteSet(S), NEW f, \A x \in S : f[x] \in Nat
  PROVE  SumOf(f, S) \in Nat
<1>1. PICK g : Sums(g, f, SUBSET S)
  BY SumsExists
<1>. QED  BY <1>1, SumOfIs DEF Sums

LEMMA SumEmpty == \A f : SumOf(f, {}) = 0
<1>. SUFFICES ASSUME NEW f
              PROVE  SumOf(f, {}) = 0
  OBVIOUS
<1>1. IsFiniteSet({})
  BY FS_EmptySet
<1>2. PICK g : Sums(g, f, SUBSET {})
  BY <1>1, SumsExists
<1>3. SumOf(f, {}) = g[{}]
  BY <1>1, <1>2, SumOfIs
<1>. QED  BY <1>2, <1>3 DEF Sums, Adds, SumBody

LEMMA SumOfZero ==
  ASSUME NEW S, IsFiniteSet(S), NEW f, \A x \in S : f[x] = 0
  PROVE  SumOf(f, S) = 0
<1>. DEFINE z == [s \in SUBSET S |-> 0]
<1>1. \A s \in SUBSET S : z[s] = SumBody(f, z, s)
  <2>. SUFFICES ASSUME NEW s \in SUBSET S, s # {}
                PROVE  f[Pick(s)] + z[s \ {Pick(s)}] = 0
    BY DEF SumBody
  <2>1. Pick(s) \in S
    BY DEF Pick
  <2>. QED  BY <2>1
<1>2. Sums(z, f, SUBSET S)
  BY <1>1 DEF Sums, Adds
<1>3. S \in SUBSET S /\ \A x \in S : f[x] \in Nat
  OBVIOUS
<1>4. SumOf(f, S) = z[S]
  BY <1>2, <1>3, SumOfIs
<1>. QED  BY <1>3, <1>4

LEMMA SumRemove ==
  ASSUME NEW S, IsFiniteSet(S), NEW f, \A x \in S : f[x] \in Nat, NEW x \in S
  PROVE  SumOf(f, S) = f[x] + SumOf(f, S \ {x})
<1>1. PICK g : Sums(g, f, SUBSET S)
  BY SumsExists
<1>2. g[S] = f[x] + g[S \ {x}]
  BY <1>1, AnyOrder
<1>. QED  BY <1>1, <1>2, SumOfIs

LEMMA SumAdd ==
  ASSUME NEW S, IsFiniteSet(S), NEW x, x \notin S,
         NEW f, \A y \in S \cup {x} : f[y] \in Nat
  PROVE  SumOf(f, S \cup {x}) = f[x] + SumOf(f, S)
<1>1. IsFiniteSet(S \cup {x})
  BY FS_AddElement
<1>2. (S \cup {x}) \ {x} = S
  OBVIOUS
<1>3. SumOf(f, S \cup {x}) = f[x] + SumOf(f, (S \cup {x}) \ {x})
  BY <1>1, SumRemove
<1>. QED  BY <1>2, <1>3

\* Only the values on the set count.
LEMMA SumSame ==
  ASSUME NEW S, IsFiniteSet(S), NEW f, NEW h,
         \A x \in S : f[x] \in Nat /\ h[x] = f[x]
  PROVE  SumOf(h, S) = SumOf(f, S)
<1>1. PICK g : Sums(g, f, SUBSET S)
  BY SumsExists
<1>2. \A x \in S : h[x] \in Nat
  OBVIOUS
<1>3. PICK k : Sums(k, h, SUBSET S)
  BY <1>2, SumsExists
<1>4. Adds(k, f, SUBSET S)
  <2>. SUFFICES ASSUME NEW s \in SUBSET S
                PROVE  k[s] = SumBody(f, k, s)
    BY DEF Adds
  <2>1. k[s] = SumBody(h, k, s)
    BY <1>3 DEF Sums, Adds
  <2>2. CASE s = {}
    BY <2>1, <2>2 DEF SumBody
  <2>3. CASE s # {}
    <3>1. Pick(s) \in S
      BY <2>3 DEF Pick
    <3>2. h[Pick(s)] = f[Pick(s)]
      BY <3>1
    <3>. QED  BY <2>1, <2>3, <3>2 DEF SumBody
  <2>. QED  BY <2>2, <2>3
<1>5. Closed(SUBSET S)
  BY FS_Subset DEF Closed
<1>6. k[S] = g[S]
  BY <1>1, <1>4, <1>5, SumsAgree DEF Sums
<1>. QED  BY <1>1, <1>2, <1>3, <1>6, SumOfIs

\* One value changes, and the sum by as much.
LEMMA SumChange ==
  ASSUME NEW S, IsFiniteSet(S), NEW f, NEW h, NEW x \in S,
         \A y \in S : f[y] \in Nat /\ h[y] \in Nat,
         \A y \in S \ {x} : h[y] = f[y]
  PROVE  SumOf(h, S) + f[x] = SumOf(f, S) + h[x]
<1>1. IsFiniteSet(S \ {x})
  BY FS_RemoveElement
<1>2. SumOf(h, S \ {x}) = SumOf(f, S \ {x})
  BY <1>1, SumSame
<1>3. SumOf(f, S \ {x}) \in Nat
  BY <1>1, SumType
<1>4. SumOf(f, S) = f[x] + SumOf(f, S \ {x}) /\ SumOf(h, S) = h[x] + SumOf(h, S \ {x})
  BY SumRemove
<1>. QED  BY <1>2, <1>3, <1>4

-----------------------------------------------------------------------------
(***************************************************************************)
(* Frames as a sum over a set of chunks.                                   *)
(***************************************************************************)
sizeOf == [c \in Chunk |-> c.size]

LEMMA FramesIs ==
  ASSUME NEW S \in SUBSET Chunk, IsFiniteSet(S)
  PROVE  Frames(S) = SumOf(sizeOf, S) /\ \A c \in S : sizeOf[c] = c.size /\ c.size \in Nat
<1>. DEFINE Folds(h) == h = [s \in SUBSET S |-> IF s = {} THEN 0
                                                ELSE Pick(s).size + h[s \ {Pick(s)}]]
            iter == CHOOSE h : Folds(h)
<1>1. \A c \in S : sizeOf[c] = c.size /\ c.size \in Nat
  BY DEF sizeOf, Chunk
<1>2. Frames(S) = iter[S]
  BY DEF Frames, MapThenSumSet, MapThenFoldSet, Pick
<1>3. PICK h : Sums(h, sizeOf, SUBSET S)
  BY <1>1, SumsExists
<1>4. \A s \in SUBSET S : s # {} => sizeOf[Pick(s)] = Pick(s).size
  BY <1>1 DEF Pick
<1>5. Folds(h)
  BY <1>3, <1>4 DEF Sums, Adds, SumBody
<1>6. Folds(iter)
  <2>. HIDE DEF Folds
  <2>. QED  BY <1>5
<1>7. Adds(iter, sizeOf, SUBSET S)
  <2>. HIDE DEF iter
  <2>. QED  BY <1>4, <1>6 DEF Adds, SumBody
<1>8. Closed(SUBSET S)
  BY FS_Subset DEF Closed
<1>9. iter[S] = h[S]
  <2>. HIDE DEF iter
  <2>. QED  BY <1>3, <1>7, <1>8, SumsAgree DEF Sums
<1>10. SumOf(sizeOf, S) = h[S]
  BY <1>1, <1>3, SumOfIs
<1>. QED  BY <1>1, <1>2, <1>9, <1>10

LEMMA FramesType ==
  ASSUME NEW S \in SUBSET Chunk, IsFiniteSet(S)
  PROVE  Frames(S) \in Nat
BY FramesIs, SumType

LEMMA FramesEmpty == Frames({}) = 0
<1>1. {} \in SUBSET Chunk /\ IsFiniteSet({})
  BY FS_EmptySet
<1>. QED  BY <1>1, FramesIs, SumEmpty

\* One chunk more adds its frames.
LEMMA FramesAdd ==
  ASSUME NEW S \in SUBSET Chunk, IsFiniteSet(S), NEW c \in Chunk, c \notin S
  PROVE  /\ IsFiniteSet(S \cup {c})
         /\ Frames(S \cup {c}) = c.size + Frames(S)
         /\ Frames(S) \in Nat /\ c.size \in Nat
<1>1. IsFiniteSet(S \cup {c}) /\ S \cup {c} \in SUBSET Chunk
  BY FS_AddElement
<1>2. Frames(S \cup {c}) = SumOf(sizeOf, S \cup {c})
      /\ \A d \in S \cup {c} : sizeOf[d] = d.size /\ d.size \in Nat
  BY <1>1, FramesIs
<1>3. Frames(S) = SumOf(sizeOf, S) /\ Frames(S) \in Nat
  BY FramesIs, FramesType
<1>4. SumOf(sizeOf, S \cup {c}) = sizeOf[c] + SumOf(sizeOf, S)
  BY <1>2, SumAdd
<1>. QED  BY <1>1, <1>2, <1>3, <1>4

\* One chunk less takes them away.
LEMMA FramesRemove ==
  ASSUME NEW S \in SUBSET Chunk, IsFiniteSet(S), NEW c \in S
  PROVE  /\ Frames(S) = c.size + Frames(S \ {c})
         /\ Frames(S \ {c}) \in Nat /\ c.size \in Nat
<1>1. IsFiniteSet(S \ {c}) /\ S \ {c} \in SUBSET Chunk /\ c \in Chunk /\ c \notin S \ {c}
  BY FS_RemoveElement
<1>2. (S \ {c}) \cup {c} = S
  OBVIOUS
<1>3. /\ Frames((S \ {c}) \cup {c}) = c.size + Frames(S \ {c})
      /\ Frames(S \ {c}) \in Nat /\ c.size \in Nat
  BY <1>1, FramesAdd
<1>. QED  BY <1>2, <1>3

(***************************************************************************)
(* The frames that the tables hold of a session.                           *)
(***************************************************************************)
Recorded(r, s) == SumOf([w \in Source |-> Frames(r[w])], Workers(s))

LEMMA WorkersFinite == \A s \in Session : IsFiniteSet(Workers(s)) /\ Workers(s) \subseteq Source
<1>. SUFFICES ASSUME NEW s \in Session
              PROVE  IsFiniteSet(Workers(s)) /\ Workers(s) \subseteq Source
  OBVIOUS
<1>1. IsFiniteSet({s}) /\ IsFiniteSet(Kind)
  BY FS_Singleton, CaptureAssumption
<1>2. IsFiniteSet({s} \X Kind)
  BY <1>1, FS_Product
<1>3. Workers(s) \subseteq {s} \X Kind
  BY SourceIs DEF Workers
<1>. QED  BY <1>2, <1>3, FS_Subset DEF Workers

LEMMA RecordedIs ==
  ASSUME NEW r \in [Source -> SUBSET Chunk], \A w \in Source : IsFiniteSet(r[w]),
         NEW s \in Session
  PROVE  /\ MapThenSumSet(LAMBDA w : Frames(r[w]), Workers(s)) = Recorded(r, s)
         /\ Recorded(r, s) \in Nat
<1>. DEFINE S == Workers(s)
            f == [w \in Source |-> Frames(r[w])]
            Folds(h) == h = [t \in SUBSET S |-> IF t = {} THEN 0
                                                ELSE Frames(r[Pick(t)]) + h[t \ {Pick(t)}]]
            iter == CHOOSE h : Folds(h)
<1>0. IsFiniteSet(S) /\ S \subseteq Source
  BY WorkersFinite
<1>1. \A w \in S : f[w] = Frames(r[w]) /\ f[w] \in Nat
  BY <1>0, FramesType
<1>2. MapThenSumSet(LAMBDA w : Frames(r[w]), S) = iter[S]
  BY DEF MapThenSumSet, MapThenFoldSet, Pick
<1>. HIDE DEF f, S
<1>3. PICK h : Sums(h, f, SUBSET S)
  BY <1>0, <1>1, SumsExists
<1>4. \A t \in SUBSET S : t # {} => f[Pick(t)] = Frames(r[Pick(t)])
  BY <1>1 DEF Pick
<1>5. Folds(h)
  BY <1>3, <1>4 DEF Sums, Adds, SumBody
<1>6. Folds(iter)
  <2>. HIDE DEF Folds
  <2>. QED  BY <1>5
<1>7. Adds(iter, f, SUBSET S)
  <2>. HIDE DEF iter
  <2>. QED  BY <1>4, <1>6 DEF Adds, SumBody
<1>8. Closed(SUBSET S)
  BY <1>0, FS_Subset DEF Closed
<1>9. iter[S] = h[S]
  <2>. HIDE DEF iter
  <2>. QED  BY <1>3, <1>7, <1>8, SumsAgree DEF Sums
<1>10. SumOf(f, S) = h[S]
  BY <1>0, <1>1, <1>3, SumOfIs
<1>11. h[S] \in Nat
  BY <1>3 DEF Sums
<1>12. Recorded(r, s) = SumOf(f, S)
  BY DEF Recorded, f, S
<1>. HIDE DEF iter
<1>. QED  BY <1>2, <1>9, <1>10, <1>11, <1>12 DEF S

\* A chunk recorded of one source adds its frames to those of the session.
LEMMA RecordedChange ==
  ASSUME NEW r \in [Source -> SUBSET Chunk], \A w \in Source : IsFiniteSet(r[w]),
         NEW v \in Source, NEW c \in Chunk, c \notin r[v],
         NEW q \in [Source -> SUBSET Chunk], q[v] = r[v] \cup {c},
         \A w \in Source : w # v => q[w] = r[w]
  PROVE  /\ Recorded(q, SessionOf(v)) = Recorded(r, SessionOf(v)) + c.size
         /\ \A s \in Session : s # SessionOf(v) => Recorded(q, s) = Recorded(r, s)
<1>. DEFINE f == [w \in Source |-> Frames(r[w])]
            h == [w \in Source |-> Frames(q[w])]
<1>1. \A w \in Source \ {v} : q[w] = r[w]
  OBVIOUS
<1>2. /\ IsFiniteSet(q[v]) /\ Frames(q[v]) = c.size + Frames(r[v])
      /\ Frames(r[v]) \in Nat /\ c.size \in Nat
  BY <1>1, FramesAdd
<1>3. \A w \in Source : IsFiniteSet(q[w])
  BY <1>1, <1>2
<1>4. /\ \A w \in Source : f[w] \in Nat /\ h[w] \in Nat
      /\ \A w \in Source : w # v => h[w] = f[w]
      /\ f[v] = Frames(r[v]) /\ h[v] = c.size + f[v]
  BY <1>1, <1>2, <1>3, FramesType
<1>5. \A s : Recorded(r, s) = SumOf(f, Workers(s)) /\ Recorded(q, s) = SumOf(h, Workers(s))
  BY DEF Recorded
<1>. HIDE DEF f, h
<1>6. ASSUME NEW s \in Session, s # SessionOf(v)
      PROVE  SumOf(h, Workers(s)) = SumOf(f, Workers(s))
  <2>1. \A w \in Workers(s) : f[w] \in Nat /\ h[w] = f[w]
    BY <1>4, <1>6 DEF Workers
  <2>. QED  BY <2>1, WorkersFinite, SumSame
<1>7. SumOf(h, Workers(SessionOf(v))) = SumOf(f, Workers(SessionOf(v))) + c.size
  <2>. DEFINE S == Workers(SessionOf(v))
  <2>1. v \in S /\ IsFiniteSet(S) /\ S \subseteq Source
    BY WorkersFinite, SourceIs DEF Workers
  <2>. HIDE DEF S
  <2>2. SumOf(h, S) + f[v] = SumOf(f, S) + h[v]
    <3>1. \A w \in S : f[w] \in Nat /\ h[w] \in Nat
      BY <1>4, <2>1
    <3>2. \A w \in S \ {v} : h[w] = f[w]
      BY <1>4, <2>1
    <3>. QED  BY <2>1, <3>1, <3>2, SumChange
  <2>3. SumOf(h, S) \in Nat /\ SumOf(f, S) \in Nat /\ f[v] \in Nat
    BY <1>4, <2>1, SumType
  <2>4. SumOf(h, S) = SumOf(f, S) + c.size
    <3>. DEFINE a == SumOf(h, S)
                b == SumOf(f, S)
    <3>. HIDE DEF a, b
    <3>1. a \in Nat /\ b \in Nat /\ a + f[v] = b + (c.size + f[v])
      BY <1>4, <2>2, <2>3, Zenon DEF a, b
    <3>2. a = b + c.size
      BY <1>2, <2>3, <3>1
    <3>. QED  BY <3>2 DEF a, b
  <2>. QED  BY <2>4 DEF S
<1>. QED  BY <1>1, <1>3, <1>5, <1>6, <1>7, SourceIs

-----------------------------------------------------------------------------
(***************************************************************************)
(* The account a worker keeps of its own frames: what it heard is what it  *)
(* recorded, what it writes, what it buffers, what is queued and what the  *)
(* full queue dropped.  A chunk on its way to disk is a full one unless    *)
(* the sentinel was taken.                                                 *)
(***************************************************************************)
AccountHolds(wk) ==
  /\ wk.pc = "get" => wk.out = 0 /\ wk.buffer < ChunkFrames /\ wk.sentinel # "taken"
  /\ wk.pc \in {"write", "record"} =>
       IF wk.sentinel = "taken" THEN 0 < wk.out /\ wk.out < ChunkFrames
                                ELSE wk.out = ChunkFrames
  /\ wk.pc = "done" => wk.sentinel = "taken" /\ wk.out = 0
  /\ wk.sentinel = "taken" => wk.queued = 0 /\ wk.buffer = 0
  /\ wk.seq <= wk.dur
  /\ wk.heard <= MaxFrames
  /\ wk.pc \notin {"none", "full", "failed"} =>
       wk.heard = wk.dur + wk.out + wk.buffer + wk.queued + wk.dropped
AccountsHold == \A w \in Source : AccountHolds(worker[w])

\* The sentinel is put once: whoever is about to put it finds none.
PutHolds == op.pc = "put" => worker[OpSource].sentinel = "no"

\* A flush keeps the account of a worker between two chunks.
LEMMA DrainAccount ==
  ASSUME NEW wk \in Worker, NEW b \in Nat,
         wk.sentinel # "taken", wk.seq <= wk.dur, wk.heard <= MaxFrames,
         wk.heard = wk.dur + b + wk.queued + wk.dropped
  PROVE  AccountHolds(Drain(wk, b))
<1>1. ChunkFrames \in Nat
  BY CaptureAssumption
<1>2. wk.queued \in Nat /\ wk.dur \in Nat /\ wk.heard \in Nat /\ wk.dropped \in Nat
  BY CaptureAssumption DEF Worker
<1>. DEFINE d == Drain(wk, b)
<1>3. /\ d.sentinel = wk.sentinel /\ d.seq = wk.seq /\ d.dur = wk.dur
      /\ d.heard = wk.heard /\ d.queued = wk.queued /\ d.dropped = wk.dropped
      /\ b >= ChunkFrames => d.pc = "write" /\ d.out = ChunkFrames /\ d.buffer = b - ChunkFrames
      /\ ~(b >= ChunkFrames) => d.pc = "get" /\ d.out = 0 /\ d.buffer = b
  BY DrainMoves
<1>. SUFFICES AccountHolds(d)
  OBVIOUS
<1>. HIDE DEF d
<1>4. CASE b >= ChunkFrames
  BY <1>1, <1>2, <1>3, <1>4 DEF AccountHolds
<1>5. CASE ~(b >= ChunkFrames)
  BY <1>1, <1>2, <1>3, <1>5 DEF AccountHolds
<1>. QED  BY <1>4, <1>5

LEMMA WriterKeepsAccount ==
  ASSUME SessionInv, AccountsHold, NEW v \in Source,
         Frame(v) \/ WatchdogFires(v) \/ Writer(v) \/ WriterFault(v)
  PROVE  AccountHolds(worker'[v])
<1>. DEFINE wk == worker[v]
<1>0. /\ worker \in [Source -> Worker] /\ wk \in Worker
      /\ AccountHolds(wk) /\ WorkerHolds(v)
      /\ ChunkFrames \in Nat \ {0} /\ MaxGap \in Nat /\ MaxFrames \in Nat
  BY CaptureAssumption DEF SessionInv, TypeInv, TypeOK, AccountsHold, WorkersHold
<1>1. /\ wk.queued \in Nat /\ wk.buffer \in Nat /\ wk.out \in Nat /\ wk.seq \in Nat
      /\ wk.dur \in Nat /\ wk.heard \in Nat /\ wk.dropped \in Nat
  BY <1>0, CaptureAssumption DEF Worker
<1>2. CASE Frame(v)
  <2>1. /\ \/ worker'[v] = [wk EXCEPT !.queued = @ + 1, !.heard = @ + 1]
           \/ worker'[v] = [wk EXCEPT !.dropped = @ + 1, !.heard = @ + 1]
        /\ wk.stream /\ ~wk.ended /\ wk.heard < MaxFrames
    BY <1>0, <1>2 DEF Frame
  <2>2. wk.sentinel # "taken" /\ wk.pc # "none"
    BY <1>0, <2>1 DEF WorkerHolds, NoWorker
  <2>3. AccountHolds([wk EXCEPT !.queued = @ + 1, !.heard = @ + 1])
    BY <1>0, <1>1, <2>1, <2>2 DEF AccountHolds, Worker
  <2>4. AccountHolds([wk EXCEPT !.dropped = @ + 1, !.heard = @ + 1])
    BY <1>0, <1>1, <2>1, <2>2 DEF AccountHolds, Worker
  <2>. QED  BY <2>1, <2>3, <2>4
<1>3. CASE WatchdogFires(v)
  <2>1. worker'[v] = [wk EXCEPT !.watched = FALSE]
    BY <1>0, <1>3 DEF WatchdogFires
  <2>2. AccountHolds([wk EXCEPT !.watched = FALSE])
    BY <1>0 DEF AccountHolds, Worker
  <2>. QED  BY <2>1, <2>2
<1>4. CASE TakeFrame(v)
  <2>1. PICK gap \in {0, MaxGap} :
          /\ wk.heard + gap <= MaxFrames
          /\ LET taken == [worker[v] EXCEPT !.queued = @ - 1, !.heard = @ + gap] IN
             worker' = [worker EXCEPT ![v] = Drain(taken, taken.buffer + gap + 1)]
    BY <1>4 DEF TakeFrame
  <2>. DEFINE taken == [wk EXCEPT !.queued = @ - 1, !.heard = @ + gap]
              b == taken.buffer + gap + 1
  <2>2. gap \in Nat /\ wk.queued - 1 \in 0..QueueSize /\ wk.heard + gap \in Nat
        /\ wk.pc = "get" /\ wk.queued - 1 \in Nat
    BY <1>0, <1>1, <1>4, CaptureAssumption DEF TakeFrame, Worker
  <2>3. taken \in Worker
    BY <1>0, <2>2 DEF Worker
  <2>4. /\ taken.sentinel = wk.sentinel /\ taken.seq = wk.seq /\ taken.dur = wk.dur
        /\ taken.heard = wk.heard + gap /\ taken.queued = wk.queued - 1
        /\ taken.dropped = wk.dropped
        /\ b = wk.buffer + gap + 1
    BY <1>0 DEF Worker
  <2>5. worker'[v] = Drain(taken, b)
    BY <1>0, <2>1
  <2>. HIDE DEF taken, b
  <2>6. /\ wk.out = 0 /\ wk.sentinel # "taken" /\ wk.seq <= wk.dur
        /\ wk.heard = wk.dur + wk.out + wk.buffer + wk.queued + wk.dropped
    BY <1>0, <2>2 DEF AccountHolds
  <2>7. b \in Nat /\ taken.heard = taken.dur + b + taken.queued + taken.dropped
    BY <1>1, <2>2, <2>4, <2>6
  <2>8. AccountHolds(Drain(taken, b))
    <3>1. taken.heard <= MaxFrames /\ taken.seq <= taken.dur /\ taken.sentinel # "taken"
      BY <2>1, <2>4, <2>6
    <3>. QED  BY <2>3, <2>7, <3>1, DrainAccount
  <2>. QED  BY <2>5, <2>8
<1>5. CASE TakeSentinel(v)
  <2>1. worker'[v] = [wk EXCEPT !.sentinel = "taken", !.pc = IF wk.buffer > 0 THEN "write" ELSE "done",
                                !.out = wk.buffer, !.buffer = 0]
        /\ wk.pc = "get" /\ wk.queued = 0
    BY <1>0, <1>5 DEF TakeSentinel
  <2>2. AccountHolds([wk EXCEPT !.sentinel = "taken", !.pc = IF wk.buffer > 0 THEN "write" ELSE "done",
                                !.out = wk.buffer, !.buffer = 0])
    BY <1>0, <1>1, <2>1 DEF AccountHolds, Worker
  <2>. QED  BY <2>1, <2>2
<1>6. CASE WriteChunk(v) \/ WriterDies(v)
  <2>1. /\ worker'[v] = [wk EXCEPT !.pc = "record"] \/ worker'[v] = [wk EXCEPT !.pc = "failed"]
        /\ wk.pc \in {"write", "record"}
    BY <1>0, <1>6 DEF WriteChunk, WriterDies
  <2>2. AccountHolds([wk EXCEPT !.pc = "record"]) /\ AccountHolds([wk EXCEPT !.pc = "failed"])
    BY <1>0, <2>1 DEF AccountHolds, Worker
  <2>. QED  BY <2>1, <2>2
<1>7. CASE WriteFindsDiskFull(v)
  <2>1. worker'[v] = [wk EXCEPT !.pc = "full", !.ended = TRUE]
    BY <1>0, <1>7 DEF WriteFindsDiskFull
  <2>2. AccountHolds([wk EXCEPT !.pc = "full", !.ended = TRUE])
    BY <1>0 DEF AccountHolds, Worker
  <2>. QED  BY <2>1, <2>2
<1>8. CASE FinishChunk(v)
  <2>. DEFINE done == [wk EXCEPT !.seq = @ + 1, !.dur = @ + wk.out]
              last == [done EXCEPT !.pc = "done", !.out = 0]
  <2>1. wk.seq + 1 \in Nat /\ wk.dur + wk.out \in Nat /\ wk.pc = "record"
    BY <1>1, <1>8 DEF FinishChunk
  <2>2. done \in Worker
    BY <1>0, <2>1 DEF Worker
  <2>3. /\ done.sentinel = wk.sentinel /\ done.seq = wk.seq + 1 /\ done.dur = wk.dur + wk.out
        /\ done.heard = wk.heard /\ done.queued = wk.queued /\ done.buffer = wk.buffer
        /\ done.dropped = wk.dropped /\ last.dropped = wk.dropped
        /\ last.sentinel = wk.sentinel /\ last.seq = wk.seq + 1 /\ last.dur = wk.dur + wk.out
        /\ last.heard = wk.heard /\ last.queued = wk.queued /\ last.buffer = wk.buffer
        /\ last.pc = "done" /\ last.out = 0
    BY <1>0 DEF Worker
  <2>4. worker'[v] = IF done.sentinel = "taken" THEN last ELSE Drain(done, done.buffer)
    BY <1>0, <1>8 DEF FinishChunk
  <2>. HIDE DEF done, last
  <2>5. wk.out >= 1 /\ wk.seq <= wk.dur /\ wk.heard <= MaxFrames
        /\ wk.heard = wk.dur + wk.out + wk.buffer + wk.queued + wk.dropped
    BY <1>0, <1>1, <2>1 DEF AccountHolds
  <2>6. wk.seq + 1 <= wk.dur + wk.out
    BY <1>1, <2>5
  <2>7. CASE wk.sentinel = "taken"
    <3>1. wk.queued = 0 /\ wk.buffer = 0
      BY <1>0, <2>7 DEF AccountHolds
    <3>2. AccountHolds(last)
      BY <1>0, <1>1, <2>3, <2>5, <2>6, <2>7, <3>1 DEF AccountHolds
    <3>. QED  BY <2>3, <2>4, <2>7, <3>2
  <2>8. CASE wk.sentinel # "taken"
    <3>1. done.heard = done.dur + done.buffer + done.queued + done.dropped
      BY <1>1, <2>3, <2>5
    <3>2. AccountHolds(Drain(done, done.buffer))
      <4>1. /\ done.sentinel # "taken" /\ done.seq <= done.dur /\ done.heard <= MaxFrames
            /\ done.buffer \in Nat
        BY <1>1, <2>3, <2>5, <2>6, <2>8
      <4>. QED  BY <2>2, <3>1, <4>1, DrainAccount
    <3>. QED  BY <2>3, <2>4, <2>8, <3>2
  <2>. QED  BY <2>7, <2>8
<1>. QED  BY <1>2, <1>3, <1>4, <1>5, <1>6, <1>7, <1>8 DEF Writer, WriterFault

\* What changes a worker otherwise: the operations, a start and a crash.
Touched(wk, after) ==
  \/ after = wk
  \/ after = [wk EXCEPT !.stream = FALSE]
  \/ after = [wk EXCEPT !.ended = TRUE]
  \/ wk.sentinel = "no" /\ after = [wk EXCEPT !.sentinel = "queued"]

LEMMA OtherChanges ==
  ASSUME SessionInv, PutHolds, [Next]_vars, NEW w \in Source
  PROVE  \/ Frame(w) \/ WatchdogFires(w) \/ Writer(w) \/ WriterFault(w)
         \/ Touched(worker[w], worker'[w])
         \/ worker'[w] = NewWorker /\ StatusOf(SessionOf(w)) = "absent"
         \/ worker'[w] = NoWorker /\ (Crash \/ StatusOf(SessionOf(w)) = "absent")
         \/ /\ CreateSession /\ SessionOf(w) = op.session
            /\ worker[w].pc = "new" /\ worker'[w] = [worker[w] EXCEPT !.pc = "get"]
<1>0. /\ SessionInvBut /\ worker \in [Source -> Worker] /\ WorkersHold /\ TypeInv
      /\ Busy => op.session \in Session
      /\ op.kind \in Kind
      /\ w = <<SessionOf(w), KindOf(w)>> /\ KindOf(w) \in Kind
  BY SessionInvIs, InvTypes, SourceIs DEF SessionInvBut
<1>1. UNCHANGED worker => Touched(worker[w], worker'[w])
  BY DEF Touched
<1>2. ASSUME NEW v \in Source, v # w, Frame(v) \/ WatchdogFires(v) \/ Writer(v) \/ WriterFault(v)
      PROVE  Touched(worker[w], worker'[w])
  BY <1>0, <1>2, WriterMoves DEF Touched
<1>3. ASSUME NEW k \in Kind, OpenStream(k)
      PROVE  \/ Touched(worker[w], worker'[w])
             \/ worker'[w] = NewWorker /\ StatusOf(SessionOf(w)) = "absent"
  <2>1. StatusOf(op.session) = "absent"
    BY <1>3 DEF OpenStream, AtOp, SessionInv, EngineHolds, Starting
  <2>2. CASE SessionOf(w) = op.session
    BY <1>0, <1>3, <2>1, <2>2 DEF OpenStream, Touched
  <2>3. CASE SessionOf(w) # op.session
    BY <1>0, <1>3, <2>3 DEF OpenStream, Touched
  <2>. QED  BY <2>2, <2>3
<1>4. ASSUME OpenFails \/ CreateFails
      PROVE  \/ Touched(worker[w], worker'[w])
             \/ worker'[w] = NoWorker /\ StatusOf(SessionOf(w)) = "absent"
  <2>1. StatusOf(op.session) = "absent"
    BY <1>4 DEF OpenFails, CreateFails, AtOp, SessionInv, EngineHolds, Starting
  <2>. QED  BY <1>4, <2>1 DEF OpenFails, CreateFails, CloseOpened, Touched
<1>5. ASSUME CreateSession
      PROVE  \/ Touched(worker[w], worker'[w])
             \/ /\ SessionOf(w) = op.session
                /\ worker[w].pc = "new" /\ worker'[w] = [worker[w] EXCEPT !.pc = "get"]
  <2>1. SessionOf(w) = op.session => worker[w].pc = "new"
    BY <1>0, <1>5 DEF CreateSession, AtOp, SessionInvBut, StartHolds, Starting
  <2>. QED  BY <1>5, <2>1 DEF CreateSession, Touched
<1>6. ASSUME NEW k \in Kind, CloseSource(k)
      PROVE  Touched(worker[w], worker'[w])
  BY <1>0, <1>6 DEF CloseSource, Touched
<1>7. ASSUME EndAsync \/ PutSentinel
      PROVE  Touched(worker[w], worker'[w])
  <2>1. CASE w = OpSource
    BY <1>0, <1>7, <2>1 DEF EndAsync, PutSentinel, Touched, PutHolds, AtOp
  <2>2. CASE w # OpSource
    BY <1>0, <1>7, <2>2 DEF EndAsync, PutSentinel, Touched
  <2>. QED  BY <2>1, <2>2
<1>8. \/ StopSession \/ \E v \in Source : DeviceLost(v) \/ DiskFull(v)
      \/ \E s \in Session : StartSession(s)
      \/ DeviceVanished \/ TellStarted \/ RecordDiskLow \/ JoinWriter \/ MarkSource
      \/ RecordDeviceLost \/ Finalize \/ RecordStopped \/ OperationFails
      \/ Recover \/ UNCHANGED vars
      => UNCHANGED worker
  BY DEF StopSession, DeviceLost, DiskFull, StartSession, DeviceVanished, TellStarted,
         RecordDiskLow, JoinWriter, MarkSource, RecordDeviceLost, Finalize, RecordStopped,
         OperationFails, Recover, RecoverScan, RecoverSource, RecoverChunk, RecoverMark,
         RecoverFinalize, RecoverEvent, engine, vars
<1>9. Crash => worker'[w] = NoWorker
  BY DEF Crash
<1>. QED
  BY <1>1, <1>2, <1>3, <1>4, <1>5, <1>6, <1>7, <1>8, <1>9 DEF Next, Operation, OperationFault

LEMMA AccountInductive ==
  /\ Init => AccountsHold /\ PutHolds
  /\ SessionInv /\ AccountsHold /\ PutHolds /\ [Next]_vars => AccountsHold' /\ PutHolds'
<1>0. /\ ChunkFrames \in Nat \ {0} /\ MaxFrames \in Nat
      /\ AccountHolds(NoWorker) /\ AccountHolds(NewWorker)
  BY CaptureAssumption DEF AccountHolds, NoWorker, NewWorker
<1>1. Init => AccountsHold /\ PutHolds
  BY <1>0 DEF Init, AccountsHold, PutHolds, NoOp
<1>2. ASSUME SessionInv, AccountsHold, PutHolds, [Next]_vars
      PROVE  AccountsHold'
  <2>. SUFFICES ASSUME NEW w \in Source
                PROVE  AccountHolds(worker'[w])
    BY DEF AccountsHold
  <2>0. worker[w] \in Worker /\ AccountHolds(worker[w])
    BY <1>2 DEF SessionInv, TypeInv, TypeOK, AccountsHold
  <2>1. CASE Frame(w) \/ WatchdogFires(w) \/ Writer(w) \/ WriterFault(w)
    BY <1>2, <2>1, WriterKeepsAccount
  <2>2. CASE Touched(worker[w], worker'[w])
    BY <2>0, <2>2 DEF Touched, AccountHolds, Worker
  <2>3. CASE worker'[w] = NoWorker \/ worker'[w] = NewWorker
    BY <1>0, <2>3
  <2>4. CASE worker[w].pc = "new" /\ worker'[w] = [worker[w] EXCEPT !.pc = "get"]
    <3>1. Ready(worker[w])
      BY <1>2, <2>4 DEF SessionInv, WorkersHold, WorkerHolds
    <3>. QED  BY <1>0, <2>0, <2>4, <3>1 DEF AccountHolds, Ready, Worker
  <2>. QED  BY <1>2, <2>1, <2>2, <2>3, <2>4, OtherChanges
<1>3. ASSUME SessionInv, PutHolds, [Next]_vars, op'.pc = "put"
      PROVE  worker'[OpSource'].sentinel = "no"
  <2>0. /\ SessionInvBut /\ worker \in [Source -> Worker] /\ op \in Op /\ WorkersHold /\ TypeInv
        /\ Busy => op.session \in Session
        /\ op.kind \in Kind
    BY <1>3, SessionInvIs, InvTypes DEF SessionInvBut
  <2>1. CASE UNCHANGED <<worker, op>>
    BY <1>3, <2>1 DEF PutHolds, OpSource
  <2>2. ASSUME NEW v \in Source, Frame(v) \/ WatchdogFires(v) \/ Writer(v) \/ WriterFault(v)
        PROVE  worker'[OpSource'].sentinel = "no"
    <3>1. UNCHANGED op
      BY <2>2 DEF Frame, WatchdogFires, Writer, WriterFault, TakeFrame, TakeSentinel, WriteChunk,
                  FinishChunk, WriteFindsDiskFull, WriterDies
    <3>2. OpSource' = OpSource /\ OpSource \in Source
      BY <1>3, <2>0, <3>1, SourceIs DEF OpSource, Busy
    <3>3. worker'[OpSource] = worker[OpSource] \/ Moved(worker[OpSource], worker'[OpSource])
      BY <2>0, <2>2, <3>2, WriterMoves
    <3>. QED  BY <1>3, <3>1, <3>2, <3>3 DEF PutHolds, Moved
  <2>3. CASE EndAsync
    <3>1. PICK v \in Source : v = OpSource
      BY <2>0, <2>3, SourceIs DEF EndAsync, AtOp, Busy, OpSource
    <3>2. OpSource' = v /\ ~worker[v].ended
      BY <1>3, <2>0, <2>3, <3>1 DEF EndAsync, OpSource, Op
    <3>3. worker' = [worker EXCEPT ![v].ended = TRUE] /\ worker[v] \in Worker
      BY <2>0, <2>3, <3>1 DEF EndAsync
    <3>4. worker[v].sentinel = "no"
      BY <2>0, <3>2 DEF WorkersHold, WorkerHolds
    <3>. QED  BY <2>0, <3>2, <3>3, <3>4 DEF Worker
  <2>4. ASSUME \/ \E v \in Source : DeviceLost(v) \/ DiskFull(v)
               \/ StopSession \/ \E s \in Session : StartSession(s)
        PROVE  op'.pc # "put"
    <3>1. StopSession \/ (\E s \in Session : StartSession(s)) => op'.pc \in {"close", "open"}
      BY DEF StopSession, StartSession, Begin
    <3>2. \A v \in Source : DeviceLost(v) => op'.pc \in {"idle", "close"}
      BY DEF DeviceLost, Begin, NoOp
    <3>3. \A v \in Source : DiskFull(v) => op'.pc \in {"idle", "disk_low"}
      BY DEF DiskFull, Begin, NoOp
    <3>. QED  BY <2>4, <3>1, <3>2, <3>3
  <2>5. ASSUME \/ OperationFault \/ Crash \/ CreateSession
               \/ \E k \in Kind : OpenStream(k) \/ CloseSource(k)
               \/ TellStarted \/ RecordDiskLow \/ JoinWriter \/ MarkSource
               \/ PutSentinel \/ RecordDeviceLost \/ Finalize \/ RecordStopped
        PROVE  op'.pc # "put"
    <3>1. OperationFault \/ Crash \/ TellStarted \/ RecordStopped => op'.pc = "idle"
      BY DEF OperationFault, OpenFails, DeviceVanished, CreateFails, OperationFails, Crash,
             TellStarted, RecordStopped, Release, NoOp
    <3>2. CreateSession \/ RecordDiskLow \/ PutSentinel => op'.pc \in {"started", "close", "join"}
      BY <2>0 DEF CreateSession, RecordDiskLow, PutSentinel, Op
    <3>3. \A k \in Kind : OpenStream(k) \/ CloseSource(k)
                            => op'.pc \in {"open", "create", "rejoin", "end"}
      BY <2>0 DEF OpenStream, CloseSource, Op
    <3>4. JoinWriter \/ MarkSource => op'.pc \in {"mark", "finalize", "close", "device_lost"}
      BY <2>0 DEF JoinWriter, MarkSource, NextSource, Op
    <3>5. RecordDeviceLost \/ Finalize => op'.pc \in {"finalize", "idle", "stopped"}
      BY <2>0 DEF RecordDeviceLost, Finalize, Release, NoOp, Op
    <3>. QED  BY <2>5, <3>1, <3>2, <3>3, <3>4, <3>5
  <2>6. Recover \/ UNCHANGED vars => UNCHANGED <<worker, op>>
    BY DEF Recover, RecoverScan, RecoverSource, RecoverChunk, RecoverMark, RecoverFinalize,
           RecoverEvent, engine, vars
  <2>. QED  BY <1>3, <2>1, <2>2, <2>3, <2>4, <2>5, <2>6 DEF Next, Operation
<1>. QED  BY <1>1, <1>2, <1>3 DEF PutHolds

-----------------------------------------------------------------------------
(***************************************************************************)
(* How far a worker is with its chunks, step by step: it is left alone,    *)
(* it begins or is gone, it takes from its queue or gives up, it writes a  *)
(* chunk or it records the one it wrote.                                   *)
(***************************************************************************)
Taken(wk) == wk.sentinel = "taken"
Kept(wk, after) ==
  /\ after.pc = wk.pc /\ after.out = wk.out /\ after.seq = wk.seq /\ after.dur = wk.dur
  /\ Taken(after) <=> Taken(wk)
Began(w) ==
  /\ StatusOf(SessionOf(w)) = "absent"
  /\ worker'[w].pc \in {"new", "get"} /\ worker'[w].seq = 0 /\ worker'[w].dur = 0
TookOrGaveUp(wk, after) ==
  /\ after.seq = wk.seq /\ after.dur = wk.dur
  /\ \/ wk.pc = "get" /\ after.pc \in {"get", "write", "done"}
     \/ wk.pc = "write" /\ after.pc \in {"full", "failed"}
     \/ wk.pc = "record" /\ after.pc = "failed" /\ "sqlite" \in Faults
Wrote(w) ==
  /\ WriteChunk(w) /\ worker[w].pc = "write"
  /\ worker'[w] = [worker[w] EXCEPT !.pc = "record"]
Counted(w) ==
  /\ FinishChunk(w) /\ worker[w].pc = "record"
  /\ worker'[w].seq = worker[w].seq + 1 /\ worker'[w].dur = worker[w].dur + worker[w].out
  /\ IF Taken(worker[w]) THEN worker'[w].pc = "done" ELSE worker'[w].pc \in {"get", "write"}

LEMMA CountsChunk ==
  ASSUME SessionInv, NEW v \in Source, FinishChunk(v)
  PROVE  Counted(v)
<1>. DEFINE wk == worker[v]
            done == [wk EXCEPT !.seq = @ + 1, !.dur = @ + wk.out]
            last == [done EXCEPT !.pc = "done", !.out = 0]
<1>0. worker \in [Source -> Worker] /\ wk \in Worker
  BY DEF SessionInv, TypeInv, TypeOK
<1>1. worker'[v] = IF done.sentinel = "taken" THEN last ELSE Drain(done, done.buffer)
  BY <1>0 DEF FinishChunk
<1>2. /\ done.sentinel = wk.sentinel /\ done.seq = wk.seq + 1 /\ done.dur = wk.dur + wk.out
      /\ last.seq = wk.seq + 1 /\ last.dur = wk.dur + wk.out /\ last.pc = "done"
  BY <1>0 DEF Worker
<1>3. /\ Drain(done, done.buffer).seq = done.seq /\ Drain(done, done.buffer).dur = done.dur
      /\ Drain(done, done.buffer).pc \in {"write", "get"}
  BY <1>0 DEF Drain, Worker
<1>. HIDE DEF done, last
<1>4. wk.pc = "record"
  BY DEF FinishChunk
<1>. QED  BY <1>1, <1>2, <1>3, <1>4 DEF Counted, Taken

LEMMA WriterProgress ==
  ASSUME SessionInv, NEW v \in Source,
         Frame(v) \/ WatchdogFires(v) \/ Writer(v) \/ WriterFault(v)
  PROVE  \/ Kept(worker[v], worker'[v]) \/ TookOrGaveUp(worker[v], worker'[v])
         \/ Wrote(v) \/ Counted(v)
<1>. DEFINE wk == worker[v]
<1>0. worker \in [Source -> Worker] /\ wk \in Worker
  BY DEF SessionInv, TypeInv, TypeOK
<1>1. wk.queued \in Nat /\ wk.buffer \in Nat /\ wk.out \in Nat /\ wk.seq \in Nat
      /\ wk.dur \in Nat /\ wk.heard \in Nat /\ wk.dropped \in Nat
  BY <1>0, CaptureAssumption DEF Worker
<1>2. CASE Frame(v) \/ WatchdogFires(v)
  BY <1>0, <1>2 DEF Frame, WatchdogFires, Kept, Taken, Worker
<1>3. CASE TakeFrame(v)
  <2>1. PICK gap \in {0, MaxGap} :
          LET taken == [worker[v] EXCEPT !.queued = @ - 1, !.heard = @ + gap] IN
          worker' = [worker EXCEPT ![v] = Drain(taken, taken.buffer + gap + 1)]
    BY <1>3 DEF TakeFrame
  <2>. DEFINE taken == [wk EXCEPT !.queued = @ - 1, !.heard = @ + gap]
              b == taken.buffer + gap + 1
  <2>2. worker'[v] = Drain(taken, b) /\ wk.pc = "get"
    BY <1>0, <1>3, <2>1 DEF TakeFrame
  <2>3. taken.seq = wk.seq /\ taken.dur = wk.dur
    BY <1>0 DEF Worker
  <2>. HIDE DEF b
  <2>4. /\ Drain(taken, b).seq = taken.seq /\ Drain(taken, b).dur = taken.dur
        /\ Drain(taken, b).pc \in {"write", "get"}
    BY <1>0 DEF Drain, Worker
  <2>. QED  BY <2>2, <2>3, <2>4 DEF TookOrGaveUp
<1>4. CASE TakeSentinel(v)
  BY <1>0, <1>4 DEF TakeSentinel, TookOrGaveUp, Worker
<1>5. CASE WriteChunk(v)
  BY <1>0, <1>5 DEF WriteChunk, Wrote
<1>6. CASE WriteFindsDiskFull(v) \/ WriterDies(v)
  BY <1>0, <1>6 DEF WriteFindsDiskFull, WriterDies, TookOrGaveUp, Worker
<1>7. FinishChunk(v) => Counted(v)
  BY CountsChunk
<1>. QED  BY <1>2, <1>3, <1>4, <1>5, <1>6, <1>7 DEF Writer, WriterFault

LEMMA Progress ==
  ASSUME SessionInv, PutHolds, [Next]_vars, NEW w \in Source
  PROVE  \/ Kept(worker[w], worker'[w]) \/ TookOrGaveUp(worker[w], worker'[w])
         \/ Began(w) \/ worker'[w].pc = "none" \/ Wrote(w) \/ Counted(w)
<1>0. worker[w] \in Worker /\ WorkerHolds(w)
  BY DEF SessionInv, TypeInv, TypeOK, WorkersHold
<1>1. Touched(worker[w], worker'[w]) => Kept(worker[w], worker'[w])
  BY <1>0 DEF Touched, Kept, Taken, Worker
<1>2. ASSUME worker'[w] = NewWorker, StatusOf(SessionOf(w)) = "absent"
      PROVE  Began(w)
  BY <1>2 DEF Began, NewWorker, NoWorker
<1>3. ASSUME worker[w].pc = "new", worker'[w] = [worker[w] EXCEPT !.pc = "get"]
      PROVE  Began(w)
  BY <1>0, <1>3 DEF Began, WorkerHolds, Ready, Worker
<1>4. worker'[w] = NoWorker => worker'[w].pc = "none"
  BY DEF NoWorker
<1>. QED  BY <1>1, <1>2, <1>3, <1>4, OtherChanges, WriterProgress

-----------------------------------------------------------------------------
(***************************************************************************)
(* The inductive invariant of the chunks.  The files of a source are       *)
(* numbered from 0 and full but for the last; a writer that is not dead    *)
(* has as many files as it counted, or one more while it records it, and   *)
(* its rows are the chunks it counted.                                     *)
(***************************************************************************)
IsFull(c) == c.size = ChunkFrames
NumberOf(w) == Cardinality(file[w])
FileHolds(w) ==
  /\ IsFiniteSet(file[w]) /\ NumberOf(w) <= MaxFrames
  /\ \A c \in file[w] :
       c.seq < NumberOf(w) /\ (IsFull(c) \/ (c.size < ChunkFrames /\ c.seq = NumberOf(w) - 1))
  /\ \A i \in Nat : i < NumberOf(w) => \E c \in file[w] : c.seq = i
  /\ \A c, d \in file[w] : c.seq = d.seq => c = d
SeqHolds(w) ==
  LET wk == worker[w] IN
  /\ StatusOf(SessionOf(w)) = "absent" => file[w] = {}
  /\ wk.pc \in {"get", "write", "done", "full"} => NumberOf(w) = wk.seq
  /\ wk.pc = "record" => NumberOf(w) = wk.seq + 1
  /\ wk.pc = "failed" => NumberOf(w) = wk.seq \/ (NumberOf(w) = wk.seq + 1 /\ "sqlite" \in Faults)
  /\ wk.pc \in {"get", "write"} \/ (wk.pc = "record" /\ ~Taken(wk)) => \A c \in file[w] : IsFull(c)
RowHolds(w) ==
  worker[w].pc # "none" => /\ row[w] = {c \in file[w] : c.seq < worker[w].seq}
                           /\ worker[w].dur = Frames(row[w])
ChunksHold == \A w \in Source : FileHolds(w) /\ SeqHolds(w) /\ RowHolds(w)
AudioInv == /\ SessionInv /\ RowInv /\ AccountsHold /\ PutHolds /\ ChunksHold

\* How the status of a session moves.
StatusMoves(s) ==
  \/ StatusOf(s)' = StatusOf(s)
  \/ CreateSession /\ s = op.session /\ StatusOf(s)' = "active"
  \/ Finalize /\ s = op.session /\ StatusOf(s) = "active" /\ StatusOf(s)' = "completed"
  \/ /\ RecoverFinalize /\ s = recovery.session
     /\ StatusOf(s) = "active" /\ StatusOf(s)' = "interrupted"

LEMMA StatusMovesOn ==
  ASSUME TypeInv, [Next]_vars, NEW s \in Session
  PROVE  StatusMoves(s)
<1>0. MetadataTypeOK /\ recovery \in Recovery /\ (recovery.pc = "chunk" => RecoverSourceAt \in Source)
  BY SourceIs DEF TypeInv, TypeOK, RecoveryHasSession, RecoverSourceAt, Recovery
<1>1. session'[s].status = session[s].status => StatusMoves(s)
  BY DEF StatusMoves, StatusOf
<1>2. ASSUME NEW w \in Source, Frame(w) \/ WatchdogFires(w) \/ Writer(w) \/ WriterFault(w)
      PROVE  session'[s].status = session[s].status
  <2>1. CASE FinishChunk(w)
    BY <1>0, <2>1, StatusSteps DEF FinishChunk
  <2>2. CASE ~FinishChunk(w)
    BY <1>2, <2>2 DEF Frame, WatchdogFires, Writer, WriterFault, TakeFrame, TakeSentinel,
                      WriteChunk, WriteFindsDiskFull, WriterDies, metadata
  <2>. QED  BY <2>1, <2>2
<1>3. \/ StopSession \/ \E w \in Source : DeviceLost(w) \/ DiskFull(w)
      \/ \E t \in Session : StartSession(t)
      \/ \E k \in Kind : OpenStream(k) \/ CloseSource(k)
      \/ OperationFault \/ EndAsync \/ PutSentinel \/ JoinWriter \/ Crash \/ UNCHANGED vars
      => UNCHANGED session
  BY DEF StopSession, DeviceLost, DiskFull, StartSession, OpenStream, CloseSource,
     OperationFault, OpenFails, DeviceVanished, CreateFails, OperationFails, EndAsync,
     PutSentinel, JoinWriter, Crash, metadata, vars
<1>4. TellStarted \/ RecordDiskLow \/ MarkSource \/ RecordDeviceLost \/ RecordStopped
      => UNCHANGED session
  BY DEF TellStarted, RecordDiskLow, MarkSource, RecordDeviceLost, RecordStopped, AppendEvent,
         EndSource
<1>5. CreateSession => StatusMoves(s)
  BY <1>0, StatusSteps DEF CreateSession, StatusMoves, StatusOf
<1>6. Finalize => StatusMoves(s)
  <2>1. \A d : FinalizeSession(op.session, "completed", d) =>
          session'[s].status = IF s = op.session /\ session[s].status = "active" THEN "completed"
                               ELSE session[s].status
    BY <1>0, StatusSteps
  <2>2. Finalize => \E d : FinalizeSession(op.session, "completed", d)
    BY DEF Finalize
  <2>. QED  BY <2>1, <2>2 DEF StatusMoves, StatusOf
<1>7. RecoverFinalize => StatusMoves(s)
  BY <1>0, StatusSteps DEF RecoverFinalize, StatusMoves, StatusOf
<1>8. RecoverChunk => session'[s].status = session[s].status
  BY <1>0, StatusSteps DEF RecoverChunk
<1>9. RecoverScan \/ RecoverMark \/ RecoverEvent \/ (\E k \in Kind : RecoverSource(k))
      => UNCHANGED session
  BY DEF RecoverScan, RecoverMark, RecoverEvent, RecoverSource, metadata, EndSource, AppendEvent
<1>. QED
  BY <1>1, <1>2, <1>3, <1>4, <1>5, <1>6, <1>7, <1>8, <1>9 DEF Next, Operation, Recover

\* A session that has a row keeps it.
LEMMA NeverAbsentAgain ==
  ASSUME TypeInv, [Next]_vars, NEW s \in Session, StatusOf(s)' = "absent"
  PROVE  StatusOf(s) = "absent"
BY StatusMovesOn DEF StatusMoves

\* The file of the next chunk of a writer.
LEMMA FileAdded ==
  ASSUME AudioInv, NEW w \in Source, Wrote(w)
  PROVE  /\ file'[w] = file[w] \cup {[seq |-> worker[w].seq, size |-> worker[w].out]}
         /\ NumberOf(w) = worker[w].seq
         /\ NumberOf(w)' = NumberOf(w) + 1 /\ IsFiniteSet(file'[w])
         /\ IF Taken(worker[w]) THEN worker[w].out < ChunkFrames ELSE worker[w].out = ChunkFrames
         /\ NumberOf(w) + 1 <= MaxFrames
         /\ \A c \in file[w] : IsFull(c) /\ c.seq < NumberOf(w) /\ c \in Chunk
<1>. DEFINE wk == worker[w]
            c0 == [seq |-> wk.seq, size |-> wk.out]
<1>0. /\ file \in [Source -> SUBSET Chunk] /\ wk \in Worker
      /\ ChunkFrames \in Nat \ {0} /\ MaxFrames \in Nat
      /\ wk.seq \in Nat /\ wk.out \in Nat /\ wk.dur \in Nat /\ wk.heard \in Nat
      /\ wk.buffer \in Nat /\ wk.queued \in Nat /\ wk.dropped \in Nat
  BY CaptureAssumption DEF AudioInv, SessionInv, TypeInv, TypeOK, Worker
<1>1. /\ FileHolds(w) /\ SeqHolds(w) /\ AccountHolds(wk) /\ wk.pc = "write"
  BY DEF AudioInv, ChunksHold, AccountsHold, Wrote
<1>2. file'[w] = file[w] \cup {c0}
  BY <1>0 DEF Wrote, WriteChunk
<1>3. NumberOf(w) = wk.seq /\ \A c \in file[w] : IsFull(c)
  BY <1>1 DEF SeqHolds
<1>4. c0 \notin file[w] /\ \A c \in file[w] : c.seq < NumberOf(w) /\ c \in Chunk
  BY <1>0, <1>1, <1>3 DEF FileHolds, Chunk
<1>5. Cardinality(file[w] \cup {c0}) = Cardinality(file[w]) + 1 /\ IsFiniteSet(file[w] \cup {c0})
  <2>1. IsFiniteSet(file[w]) /\ c0 \notin file[w]
    BY <1>1, <1>4 DEF FileHolds
  <2>. HIDE DEF c0
  <2>. QED  BY <2>1, FS_AddElement
<1>6. NumberOf(w)' = NumberOf(w) + 1 /\ IsFiniteSet(file'[w])
  BY <1>2, <1>5 DEF NumberOf
<1>7. wk.seq + 1 <= MaxFrames
  <2>1. wk.out >= 1 /\ wk.seq <= wk.dur /\ wk.heard <= MaxFrames
        /\ wk.heard = wk.dur + wk.out + wk.buffer + wk.queued + wk.dropped
    BY <1>0, <1>1 DEF AccountHolds
  <2>. QED  BY <1>0, <2>1
<1>8. IF Taken(wk) THEN wk.out < ChunkFrames ELSE wk.out = ChunkFrames
  BY <1>1 DEF AccountHolds, Taken
<1>. QED  BY <1>2, <1>3, <1>4, <1>6, <1>7, <1>8

LEMMA FileKept ==
  ASSUME AudioInv, [Next]_vars, NEW w \in Source, ~Wrote(w)
  PROVE  file'[w] = file[w] /\ NumberOf(w)' = NumberOf(w)
<1>0. /\ file \in [Source -> SUBSET Chunk] /\ worker \in [Source -> Worker] /\ TypeInv
  BY DEF AudioInv, SessionInv, TypeInv, TypeOK
<1>1. WriteChunk(w) => Wrote(w)
  BY <1>0 DEF WriteChunk, Wrote
<1>2. file'[w] = file[w]
  BY <1>0, <1>1, FilesGrow DEF WriteChunk
<1>. QED  BY <1>2 DEF NumberOf

LEMMA KeepsFile ==
  ASSUME AudioInv, [Next]_vars, NEW w \in Source
  PROVE  FileHolds(w)'
<1>0. FileHolds(w) /\ ChunkFrames \in Nat \ {0} /\ MaxFrames \in Nat
  BY CaptureAssumption DEF AudioInv, ChunksHold
<1>1. CASE ~Wrote(w)
  BY <1>0, <1>1, FileKept DEF FileHolds, IsFull
<1>2. CASE Wrote(w)
  <2>. DEFINE c0 == [seq |-> worker[w].seq, size |-> worker[w].out]
              n == NumberOf(w)
  <2>1. /\ file'[w] = file[w] \cup {c0} /\ c0.seq = n
        /\ IF Taken(worker[w]) THEN c0.size < ChunkFrames ELSE c0.size = ChunkFrames
        /\ NumberOf(w)' = n + 1 /\ IsFiniteSet(file'[w]) /\ n + 1 <= MaxFrames
        /\ \A c \in file[w] : IsFull(c) /\ c.seq < n /\ c.seq \in Nat
    BY <1>2, FileAdded DEF Chunk
  <2>2. n \in Nat
    BY <1>0, FS_CardinalityType DEF FileHolds, NumberOf
  <2>3. \A i \in Nat : i < n => \E c \in file[w] : c.seq = i
    BY <1>0 DEF FileHolds
  <2>4. \A c, d \in file[w] : c.seq = d.seq => c = d
    BY <1>0 DEF FileHolds
  <2>. HIDE DEF c0, n
  <2>5. \A c \in file'[w] : c.seq < n + 1 /\ (IsFull(c) \/ (c.size < ChunkFrames /\ c.seq = n + 1 - 1))
    BY <2>1, <2>2 DEF IsFull
  <2>6. ASSUME NEW i \in Nat, i < n + 1
        PROVE  \E c \in file'[w] : c.seq = i
    BY <2>1, <2>2, <2>3, <2>6
  <2>7. \A c, d \in file'[w] : c.seq = d.seq => c = d
    BY <2>1, <2>2, <2>4
  <2>8. NumberOf(w)' = n + 1 /\ IsFiniteSet(file'[w]) /\ n + 1 <= MaxFrames
    BY <2>1
  <2>9. \A c \in file'[w] : /\ c.seq < NumberOf(w)'
                            /\ IsFull(c) \/ (c.size < ChunkFrames /\ c.seq = NumberOf(w)' - 1)
    BY <2>2, <2>5, <2>8 DEF IsFull
  <2>10. \A i \in Nat : i < NumberOf(w)' => \E c \in file'[w] : c.seq = i
    BY <2>6, <2>8
  <2>11. IsFiniteSet(file'[w]) /\ NumberOf(w)' <= MaxFrames
    BY <2>8
  <2>. QED  BY <2>7, <2>9, <2>10, <2>11, Zenon DEF FileHolds, IsFull
<1>. QED  BY <1>1, <1>2

LEMMA KeepsSeq ==
  ASSUME AudioInv, [Next]_vars, NEW w \in Source
  PROVE  SeqHolds(w)'
<1>0. /\ SeqHolds(w) /\ FileHolds(w) /\ AccountHolds(worker'[w])
      /\ worker[w] \in Worker /\ worker'[w] \in Worker
      /\ SessionOf(w) \in Session /\ TypeInv /\ SessionInv /\ WorkerHolds(w)
  BY SourceIs, AccountInductive, SessionInvInductive
     DEF AudioInv, ChunksHold, AccountsHold, SessionInv, TypeInv, TypeOK, WorkersHold
<1>1. StatusOf(SessionOf(w))' = "absent" => StatusOf(SessionOf(w)) = "absent"
  BY <1>0, NeverAbsentAgain
<1>2. ASSUME Wrote(w)
      PROVE  SeqHolds(w)'
  <2>1. worker'[w].pc = "record" /\ worker'[w].seq = worker[w].seq
        /\ worker'[w].sentinel = worker[w].sentinel /\ worker[w].pc = "write"
    BY <1>0, <1>2 DEF Wrote, Worker
  <2>2. StatusOf(SessionOf(w))' # "absent"
    BY <1>0, <1>1, <2>1 DEF WorkerHolds
  <2>3. ~Taken(worker[w]) => \A c \in file'[w] : IsFull(c)
    BY <1>2, FileAdded DEF IsFull
  <2>. QED  BY <1>2, <2>1, <2>2, <2>3, FileAdded DEF SeqHolds, Taken, IsFull
<1>3. ASSUME ~Wrote(w)
      PROVE  SeqHolds(w)'
  <2>0. file'[w] = file[w] /\ NumberOf(w)' = NumberOf(w) /\ NumberOf(w) \in Nat
    BY <1>0, <1>3, FileKept, FS_CardinalityType DEF NumberOf, FileHolds
  <2>1. StatusOf(SessionOf(w))' = "absent" => file'[w] = {}
    BY <1>0, <1>1, <2>0 DEF SeqHolds
  <2>2. CASE worker'[w].pc = "none"
    BY <2>1, <2>2 DEF SeqHolds
  <2>3. CASE Kept(worker[w], worker'[w])
    BY <1>0, <2>0, <2>1, <2>3 DEF SeqHolds, Kept, Taken, IsFull
  <2>4. CASE TookOrGaveUp(worker[w], worker'[w])
    BY <1>0, <2>0, <2>1, <2>4 DEF SeqHolds, TookOrGaveUp, IsFull
  <2>5. CASE Began(w)
    <3>1. file[w] = {} /\ NumberOf(w) = 0
      BY <1>0, <2>5, FS_EmptySet DEF SeqHolds, Began, NumberOf
    <3>. QED  BY <2>0, <2>1, <2>5, <3>1 DEF SeqHolds, Began, IsFull
  <2>6. CASE Counted(w)
    <3>1. /\ NumberOf(w) = worker[w].seq + 1 /\ worker'[w].seq = worker[w].seq + 1
          /\ worker'[w].pc \in {"done", "get", "write"}
          /\ worker'[w].pc \in {"get", "write"} => \A c \in file[w] : IsFull(c)
      BY <1>0, <2>6 DEF SeqHolds, Counted
    <3>. QED  BY <2>0, <2>1, <3>1 DEF SeqHolds, IsFull
  <2>. QED  BY <1>0, <1>3, <2>2, <2>3, <2>4, <2>5, <2>6, Progress DEF AudioInv
<1>. QED  BY <1>2, <1>3

\* A recorded chunk is a new row of its source; no other source has one.
LEMMA RowAdded ==
  ASSUME AudioInv, NEW w \in Source, FinishChunk(w)
  PROVE  LET c == [seq |-> worker[w].seq, size |-> worker[w].out] IN
         /\ c \in file[w] /\ c \notin row[w] /\ c \in Chunk /\ ~IsRecorded(w, c)
         /\ row' = [row EXCEPT ![w] = @ \cup {c}]
<1>. DEFINE c0 == [seq |-> worker[w].seq, size |-> worker[w].out]
<1>0. /\ file \in [Source -> SUBSET Chunk] /\ worker[w] \in Worker /\ RowHolds(w)
      /\ worker[w].pc = "record"
  BY DEF AudioInv, SessionInv, TypeInv, TypeOK, ChunksHold, FinishChunk
<1>1. c0 \in file[w] /\ c0 \in Chunk /\ c0.seq = worker[w].seq /\ c0.seq \in Nat
  BY <1>0 DEF AudioInv, RowInv, WritersHaveFiles, Worker, Chunk
<1>2. \A r \in row[w] : r.seq < c0.seq /\ r.seq \in Nat
  BY <1>0, <1>1 DEF RowHolds, Chunk
<1>3. c0 \notin row[w] /\ ~IsRecorded(w, c0)
  BY <1>1, <1>2 DEF IsRecorded
<1>4. RecordChunk(w, c0)
  BY DEF FinishChunk
<1>5. row' = [row EXCEPT ![w] = @ \cup {c0}]
  BY <1>3, <1>4 DEF RecordChunk
<1>. QED  BY <1>1, <1>3, <1>5

LEMMA RowKept ==
  ASSUME AudioInv, [Next]_vars, NEW w \in Source, ~FinishChunk(w), ~RecoverChunk
  PROVE  row'[w] = row[w]
<1>1. CASE UNCHANGED row
  BY <1>1
<1>2. ASSUME NEW v \in Source, FinishChunk(v)
      PROVE  row'[w] = row[w]
  <2>1. v # w
    BY <1>2
  <2>2. row \in [Source -> SUBSET Chunk]
    BY DEF AudioInv, SessionInv, TypeInv, TypeOK, MetadataTypeOK
  <2>. QED  BY <1>2, <2>1, <2>2, RowAdded
<1>. QED  BY <1>1, <1>2, WhoRecords

LEMMA RowsFinite ==
  ASSUME AudioInv
  PROVE  /\ \A w \in Source : IsFiniteSet(row[w]) /\ IsFiniteSet(file[w]) /\ row[w] \subseteq file[w]
         /\ row \in [Source -> SUBSET Chunk] /\ file \in [Source -> SUBSET Chunk]
<1>1. ASSUME NEW w \in Source
      PROVE  IsFiniteSet(row[w]) /\ IsFiniteSet(file[w]) /\ row[w] \subseteq file[w]
  <2>1. IsFiniteSet(file[w]) /\ row[w] \subseteq file[w]
    BY DEF AudioInv, RowInv, RowsAreFiles, ChunksHold, FileHolds
  <2>. QED  BY <2>1, FS_Subset
<1>. QED  BY <1>1 DEF AudioInv, SessionInv, TypeInv, TypeOK, MetadataTypeOK

LEMMA KeepsRow ==
  ASSUME AudioInv, [Next]_vars, NEW w \in Source
  PROVE  RowHolds(w)'
<1>0. /\ RowHolds(w) /\ FileHolds(w) /\ SeqHolds(w)
      /\ worker[w] \in Worker /\ worker[w].seq \in Nat /\ worker[w].dur \in Nat
      /\ worker[w].out \in Nat
      /\ file \in [Source -> SUBSET Chunk] /\ row \in [Source -> SUBSET Chunk]
      /\ IsFiniteSet(row[w]) /\ row[w] \subseteq file[w] /\ SessionInv
  BY RowsFinite DEF AudioInv, ChunksHold, SessionInv, TypeInv, TypeOK, Worker
<1>1. CASE RecoverChunk
  <2>1. worker[w] = NoWorker
    BY <1>0, <1>1 DEF SessionInv, Quiet, Serving, RecoverChunk
  <2>. QED  BY <1>1, <2>1 DEF RowHolds, RecoverChunk, engine, NoWorker
<1>2. CASE FinishChunk(w)
  <2>. DEFINE c0 == [seq |-> worker[w].seq, size |-> worker[w].out]
  <2>1. /\ worker[w].pc = "record" /\ worker'[w].seq = worker[w].seq + 1
        /\ worker'[w].dur = worker[w].dur + worker[w].out
    BY <1>0, <1>2, CountsChunk DEF Counted
  <2>2. /\ c0 \in file[w] /\ c0 \notin row[w] /\ c0 \in Chunk /\ row'[w] = row[w] \cup {c0}
        /\ c0.seq = worker[w].seq /\ c0.size = worker[w].out
    BY <1>0, <1>2, RowAdded
  <2>3. file'[w] = file[w]
    BY <1>2 DEF FinishChunk
  <2>. HIDE DEF c0
  <2>4. row[w] = {c \in file[w] : c.seq < worker[w].seq} /\ worker[w].dur = Frames(row[w])
    BY <1>0, <2>1 DEF RowHolds
  <2>5. \A c \in file[w] : c.seq \in Nat /\ (c.seq = c0.seq => c = c0)
    BY <1>0, <2>2 DEF FileHolds, Chunk
  <2>6. row'[w] = {c \in file'[w] : c.seq < worker'[w].seq}
    BY <1>0, <2>1, <2>2, <2>3, <2>4, <2>5
  <2>7. Frames(row[w] \cup {c0}) = c0.size + Frames(row[w]) /\ Frames(row[w]) \in Nat
    BY <1>0, <2>2, FramesAdd
  <2>8. Frames(row'[w]) = worker[w].out + Frames(row[w])
    BY <2>2, <2>7
  <2>9. worker'[w].dur = Frames(row'[w])
    BY <1>0, <2>1, <2>4, <2>7, <2>8
  <2>10. Frames(row[w])' = Frames(row'[w])
    OBVIOUS
  <2>. QED  BY <2>6, <2>9, <2>10 DEF RowHolds
<1>3. CASE ~FinishChunk(w) /\ ~RecoverChunk
  <2>1. row'[w] = row[w] /\ ~Counted(w)
    BY <1>3, RowKept DEF Counted
  <2>2. Frames(row[w])' = Frames(row[w])
    BY <2>1
  <2>3. ASSUME worker[w].pc # "none", worker'[w].seq = worker[w].seq,
               worker'[w].dur = worker[w].dur
        PROVE  RowHolds(w)'
    <3>1. row[w] = {c \in file[w] : c.seq < worker[w].seq} /\ worker[w].dur = Frames(row[w])
      BY <1>0, <2>3 DEF RowHolds
    <3>2. {c \in file[w] : c.seq < worker[w].seq} = {c \in file'[w] : c.seq < worker[w].seq}
      <4>1. CASE ~Wrote(w)
        BY <4>1, FileKept
      <4>2. CASE Wrote(w)
        BY <1>0, <4>2, FileAdded
      <4>. QED  BY <4>1, <4>2
    <3>. QED  BY <2>1, <2>2, <2>3, <3>1, <3>2 DEF RowHolds
  <2>4. CASE worker'[w].pc = "none"
    BY <2>4 DEF RowHolds
  <2>5. CASE Kept(worker[w], worker'[w])
    <3>1. CASE worker[w].pc = "none"
      BY <2>5, <3>1 DEF Kept, RowHolds
    <3>. QED  BY <2>3, <2>5, <3>1 DEF Kept
  <2>6. CASE TookOrGaveUp(worker[w], worker'[w])
    BY <2>3, <2>6 DEF TookOrGaveUp
  <2>7. CASE Wrote(w)
    BY <1>0, <2>3, <2>7 DEF Wrote, Worker
  <2>8. CASE Began(w)
    <3>1. file[w] = {} /\ row[w] = {}
      BY <1>0, <2>8 DEF SeqHolds, Began
    <3>2. file'[w] = {}
      <4>1. ~Wrote(w)
        BY <1>0, <2>8 DEF Wrote, Began, Worker
      <4>. QED  BY <3>1, <4>1, FileKept
    <3>3. Frames(row[w])' = 0
      BY <2>2, <3>1, FramesEmpty
    <3>. QED  BY <2>1, <2>8, <3>1, <3>2, <3>3 DEF RowHolds, Began
  <2>. QED  BY <1>0, <2>1, <2>4, <2>5, <2>6, <2>7, <2>8, Progress DEF AudioInv
<1>. QED  BY <1>1, <1>2, <1>3

LEMMA AudioInvInductive ==
  /\ Init => AudioInv
  /\ AudioInv /\ [Next]_vars => AudioInv'
<1>1. ASSUME Init
      PROVE  AudioInv
  <2>1. SessionInv /\ RowInv /\ AccountsHold /\ PutHolds
    BY <1>1, SessionInvInductive, RowInvInductive, AccountInductive
  <2>2. ASSUME NEW w \in Source
        PROVE  FileHolds(w) /\ SeqHolds(w) /\ RowHolds(w)
    <3>1. file[w] = {} /\ worker[w].pc = "none" /\ NumberOf(w) = 0 /\ IsFiniteSet(file[w])
      BY <1>1, <2>2, FS_EmptySet DEF Init, NoWorker, NumberOf
    <3>. QED  BY <3>1, CaptureAssumption DEF FileHolds, SeqHolds, RowHolds
  <2>. QED  BY <2>1, <2>2 DEF AudioInv, ChunksHold
<1>2. ASSUME AudioInv, [Next]_vars
      PROVE  AudioInv'
  <2>1. SessionInv' /\ RowInv' /\ AccountsHold' /\ PutHolds'
    BY <1>2, SessionInvInductive, RowInvInductive, AccountInductive DEF AudioInv
  <2>. QED  BY <1>2, <2>1, KeepsFile, KeepsSeq, KeepsRow DEF AudioInv, ChunksHold
<1>. QED  BY <1>1, <1>2

(***************************************************************************)
(* Whatever the faults, crashes and interleavings, the files of a source   *)
(* are numbered 0, 1, ... and all but the last hold a full chunk.          *)
(***************************************************************************)
THEOREM ChunksAreContiguous == Spec => []ChunksContiguous
<1>1. ASSUME AudioInv
      PROVE  ChunksContiguous
  <2>. SUFFICES ASSUME NEW w \in Source
                PROVE  LET n == Cardinality(file[w]) IN
                       /\ {c.seq : c \in file[w]} = {i \in 0..MaxFrames : i < n}
                       /\ \A c \in file[w] : c.size = ChunkFrames
                                               \/ (c.size < ChunkFrames /\ c.seq = n - 1)
    BY DEF ChunksContiguous
  <2>1. /\ FileHolds(w) /\ file[w] \in SUBSET Chunk /\ NumberOf(w) \in Nat /\ MaxFrames \in Nat
    BY <1>1, RowsFinite, FS_CardinalityType, CaptureAssumption
       DEF AudioInv, ChunksHold, NumberOf
  <2>2. \A c \in file[w] : c.seq \in Nat
    BY <2>1 DEF Chunk
  <2>3. {c.seq : c \in file[w]} = {i \in 0..MaxFrames : i < NumberOf(w)}
    BY <2>1, <2>2 DEF FileHolds
  <2>. QED  BY <2>1, <2>3 DEF FileHolds, NumberOf, IsFull
<1>. QED  BY <1>1, AudioInvInductive, PTL DEF Spec

(***************************************************************************)
(* While a writer lives, every frame its source delivered, and the silence *)
(* filled in, is in one place: recorded, being written, buffered, queued,  *)
(* or dropped at the full queue.                                           *)
(***************************************************************************)
THEOREM AudioIsConserved == Spec => []AudioConserved
<1>1. ASSUME AudioInv
      PROVE  AudioConserved
  <2>. SUFFICES ASSUME NEW w \in Source, worker[w].pc \notin {"none", "full", "failed"}
                PROVE  worker[w].heard
                         = Frames(row[w]) + worker[w].out + worker[w].buffer + worker[w].queued
                           + worker[w].dropped
    BY DEF AudioConserved
  <2>. QED  BY <1>1 DEF AudioInv, AccountsHold, AccountHolds, ChunksHold, RowHolds
<1>. QED  BY <1>1, AudioInvInductive, PTL DEF Spec

(***************************************************************************)
(* When the writer of a completed session has returned, every frame that   *)
(* its source delivered is recorded, but those the full queue dropped.     *)
(***************************************************************************)
THEOREM StopLosesNothing == Spec => []FinishedLosesNothing
<1>1. ASSUME AudioInv
      PROVE  FinishedLosesNothing
  <2>. SUFFICES ASSUME NEW w \in Source, worker[w].pc = "done"
                PROVE  Frames(row[w]) + worker[w].dropped = worker[w].heard
    BY DEF FinishedLosesNothing
  <2>1. AccountHolds(worker[w]) /\ RowHolds(w) /\ worker[w] \in Worker
    BY <1>1 DEF AudioInv, AccountsHold, ChunksHold, SessionInv, TypeInv, TypeOK
  <2>2. worker[w].dur \in Nat /\ worker[w].dropped \in Nat
    BY <2>1 DEF Worker
  <2>. QED  BY <2>1, <2>2 DEF AccountHolds, RowHolds
<1>. QED  BY <1>1, AudioInvInductive, PTL DEF Spec

-----------------------------------------------------------------------------
(***************************************************************************)
(* The counters of the metadata.  Only a transaction that inserts a row    *)
(* moves them.                                                             *)
(***************************************************************************)
CountsHold ==
  /\ \A w \in Source : source[w].count = Cardinality(row[w])
  /\ \A s \in Session : session[s].size = Recorded(row, s)
SameCounts ==
  /\ UNCHANGED row
  /\ \A w \in Source : source'[w].count = source[w].count
  /\ \A s \in Session : session'[s].size = session[s].size

LEMMA CountSteps ==
  ASSUME MetadataTypeOK
  PROVE  /\ UNCHANGED metadata => SameCounts
         /\ \A w : \A status : EndSource(w, status) => SameCounts
         /\ \A s : \A e : AppendEvent(s, e) => SameCounts
         /\ \A s : CreateActiveSession(s) => SameCounts
         /\ \A s : \A status : \A d : FinalizeSession(s, status, d) => SameCounts
<1>. USE DEF MetadataTypeOK, SameCounts
<1>1. UNCHANGED metadata => SameCounts
  BY DEF metadata
<1>2. ASSUME NEW w, NEW status, EndSource(w, status)
      PROVE  SameCounts
  BY <1>2 DEF EndSource
<1>3. ASSUME NEW s, CreateActiveSession(s)
      PROVE  SameCounts
  BY <1>3 DEF CreateActiveSession
<1>4. ASSUME NEW s, NEW status, NEW d, FinalizeSession(s, status, d)
      PROVE  SameCounts
  BY <1>4 DEF FinalizeSession
<1>5. \A s : \A e : AppendEvent(s, e) => SameCounts
  BY DEF AppendEvent
<1>. QED  BY <1>1, <1>2, <1>3, <1>4, <1>5

LEMMA WhoCounts ==
  ASSUME MetadataTypeOK, [Next]_vars
  PROVE  SameCounts \/ RecoverChunk \/ \E w \in Source : FinishChunk(w)
<1>1. ASSUME UNCHANGED vars
      PROVE  SameCounts
  BY <1>1, CountSteps DEF vars
<1>2. ASSUME NEW w \in Source,
             Frame(w) \/ WatchdogFires(w) \/ Writer(w) \/ WriterFault(w), ~FinishChunk(w)
      PROVE  SameCounts
  <2>1. UNCHANGED metadata
    BY <1>2 DEF Frame, WatchdogFires, Writer, WriterFault, TakeFrame, TakeSentinel, WriteChunk,
                WriteFindsDiskFull, WriterDies
  <2>. QED  BY <2>1, CountSteps
<1>3. ASSUME \/ StopSession \/ \E w \in Source : DeviceLost(w) \/ DiskFull(w)
             \/ \E t \in Session : StartSession(t)
             \/ \E k \in Kind : OpenStream(k) \/ CloseSource(k)
             \/ OperationFault \/ EndAsync \/ PutSentinel \/ JoinWriter \/ Crash
      PROVE  SameCounts
  <2>1. UNCHANGED metadata
    BY <1>3 DEF StopSession, DeviceLost, DiskFull, StartSession, OpenStream, CloseSource,
       OperationFault, OpenFails, DeviceVanished, CreateFails, OperationFails, EndAsync,
       PutSentinel, JoinWriter, Crash
  <2>. QED  BY <2>1, CountSteps
<1>4. ASSUME \/ CreateSession \/ TellStarted \/ RecordDiskLow \/ MarkSource
             \/ RecordDeviceLost \/ Finalize \/ RecordStopped
      PROVE  SameCounts
  BY <1>4, CountSteps DEF CreateSession, TellStarted, RecordDiskLow, MarkSource,
     RecordDeviceLost, Finalize, RecordStopped
<1>5. ASSUME \/ RecoverScan \/ RecoverMark \/ RecoverFinalize \/ RecoverEvent
             \/ \E k \in Kind : RecoverSource(k)
      PROVE  SameCounts
  BY <1>5, CountSteps DEF RecoverScan, RecoverMark, RecoverFinalize, RecoverEvent, RecoverSource
<1>. QED  BY <1>1, <1>2, <1>3, <1>4, <1>5 DEF Next, Operation, Recover

LEMMA RecordKeepsCounts ==
  ASSUME MetadataTypeOK, \A w \in Source : IsFiniteSet(row[w]), CountsHold,
         NEW v \in Source, NEW c \in Chunk, RecordChunk(v, c)
  PROVE  CountsHold'
<1>0. /\ row \in [Source -> SUBSET Chunk] /\ SessionOf(v) \in Session
      /\ session \in [Session -> [status : SessionStatus, duration : Nat, size : Nat]]
      /\ source \in [Source -> [status : SourceStatus, count : Nat]]
  BY SourceIs DEF MetadataTypeOK
<1>1. CASE IsRecorded(v, c)
  BY <1>1 DEF RecordChunk, CountsHold
<1>2. CASE ~IsRecorded(v, c)
  <2>1. /\ row' = [row EXCEPT ![v] = @ \cup {c}] /\ c \notin row[v]
        /\ source' = [source EXCEPT ![v].count = @ + 1]
        /\ session' = [session EXCEPT ![SessionOf(v)].size = @ + c.size]
    BY <1>2 DEF RecordChunk, IsRecorded
  <2>2. Cardinality(row[v] \cup {c}) = Cardinality(row[v]) + 1
    BY <2>1, FS_AddElement
  <2>3. \A w \in Source : source'[w].count = Cardinality(row'[w])
    BY <1>0, <2>1, <2>2 DEF CountsHold
  <2>4. /\ Recorded(row', SessionOf(v)) = Recorded(row, SessionOf(v)) + c.size
        /\ \A s \in Session : s # SessionOf(v) => Recorded(row', s) = Recorded(row, s)
    <3>1. PICK r : r = row
      OBVIOUS
    <3>2. PICK q : q = row'
      OBVIOUS
    <3>3. /\ r \in [Source -> SUBSET Chunk] /\ c \notin r[v]
          /\ \A w \in Source : IsFiniteSet(r[w])
          /\ q \in [Source -> SUBSET Chunk] /\ q[v] = r[v] \cup {c}
          /\ \A w \in Source : w # v => q[w] = r[w]
      BY <1>0, <2>1, <3>1, <3>2
    <3>4. /\ Recorded(q, SessionOf(v)) = Recorded(r, SessionOf(v)) + c.size
          /\ \A s \in Session : s # SessionOf(v) => Recorded(q, s) = Recorded(r, s)
      BY <3>3, RecordedChange
    <3>. QED  BY <3>1, <3>2, <3>4
  <2>5. \A s \in Session : session'[s].size = Recorded(row', s)
    BY <1>0, <2>1, <2>4 DEF CountsHold
  <2>6. \A s \in Session : Recorded(row, s)' = Recorded(row', s)
    OBVIOUS
  <2>. QED  BY <2>3, <2>5, <2>6 DEF CountsHold
<1>. QED  BY <1>1, <1>2

(***************************************************************************)
(* chunk_count is the number of rows of a source, and size_bytes is what   *)
(* the rows of a session hold: no chunk is counted twice, in particular    *)
(* not by a recovery that records one again.                               *)
(***************************************************************************)
THEOREM CountersAreExact == Spec => []CountsMatchRows
<1>1. ASSUME Init
      PROVE  CountsHold
  <2>1. row \in [Source -> SUBSET Chunk] /\ \A w \in Source : row[w] = {} /\ IsFiniteSet(row[w])
    BY <1>1, FS_EmptySet DEF Init, MetadataInit
  <2>2. \A w \in Source : source[w].count = Cardinality(row[w])
    BY <1>1, <2>1, FS_EmptySet DEF Init, MetadataInit
  <2>3. ASSUME NEW s \in Session
        PROVE  session[s].size = Recorded(row, s)
    <3>. DEFINE f == [w \in Source |-> Frames(row[w])]
                z == [w \in Source |-> 0]
    <3>1. f = z
      BY <2>1, FramesEmpty
    <3>2. SumOf(z, Workers(s)) = 0
      BY WorkersFinite, SumOfZero
    <3>3. Recorded(row, s) = SumOf(f, Workers(s))
      BY DEF Recorded
    <3>4. session[s].size = 0
      BY <1>1 DEF Init, MetadataInit
    <3>. QED  BY <3>1, <3>2, <3>3, <3>4
  <2>. QED  BY <2>2, <2>3 DEF CountsHold
<1>2. ASSUME AudioInv, CountsHold, [Next]_vars
      PROVE  CountsHold'
  <2>0. /\ MetadataTypeOK /\ \A w \in Source : IsFiniteSet(row[w])
        /\ \A w \in Source : file[w] \subseteq Chunk
    BY <1>2, RowsFinite DEF AudioInv, SessionInv, TypeInv, TypeOK
  <2>1. CASE SameCounts
    <3>1. \A s \in Session : Recorded(row, s)' = Recorded(row, s)
      BY <2>1 DEF SameCounts
    <3>. QED  BY <1>2, <2>1, <3>1 DEF CountsHold, SameCounts
  <2>2. ASSUME NEW v \in Source, FinishChunk(v)
        PROVE  CountsHold'
    <3>1. [seq |-> worker[v].seq, size |-> worker[v].out] \in Chunk
      BY <1>2, <2>2, RowAdded
    <3>. QED  BY <1>2, <2>0, <2>2, <3>1, RecordKeepsCounts DEF FinishChunk
  <2>3. CASE RecoverChunk
    <3>1. PICK c \in recovery.left : RecordChunk(RecoverSourceAt, c)
      BY <2>3 DEF RecoverChunk
    <3>2. RecoverSourceAt \in Source
      BY <1>2, <2>3, SourceIs DEF AudioInv, SessionInv, TypeInv, TypeOK, RecoveryHasSession,
                                  RecoverSourceAt, Recovery, RecoverChunk
    <3>3. c \in Chunk
      BY <1>2, <2>0, <2>3, <3>2 DEF AudioInv, RowInv, RecoveryHasFiles, RecoverChunk
    <3>. QED  BY <1>2, <2>0, <3>1, <3>2, <3>3, RecordKeepsCounts
  <2>. QED  BY <1>2, <2>0, <2>1, <2>2, <2>3, WhoCounts
<1>3. ASSUME AudioInv, CountsHold
      PROVE  CountsMatchRows
  <2>1. \A s \in Session : MapThenSumSet(LAMBDA w : Frames(row[w]), Workers(s)) = Recorded(row, s)
    BY <1>3, RowsFinite, RecordedIs
  <2>. QED  BY <1>3, <2>1 DEF CountsMatchRows, CountsHold
<1>. QED  BY <1>1, <1>2, <1>3, AudioInvInductive, PTL DEF Spec

-----------------------------------------------------------------------------
\* While recovery runs nothing else does, but for another crash.
LEMMA OnlyRecovers ==
  ASSUME SessionInv, [Next]_vars, ~Serving
  PROVE  Recover \/ Crash \/ UNCHANGED vars
<1>1. op = NoOp /\ op.pc = "idle" /\ \A w \in Source : worker[w] = NoWorker
  BY DEF SessionInv, Quiet, NoOp
<1>2. \A w \in Source : ~(Frame(w) \/ WatchdogFires(w) \/ Writer(w) \/ WriterFault(w))
  BY <1>1 DEF Frame, WatchdogFires, Writer, WriterFault, TakeFrame, TakeSentinel, WriteChunk,
              FinishChunk, WriteFindsDiskFull, WriterDies, NoWorker
<1>3. /\ ~StopSession /\ \A s \in Session : ~StartSession(s)
      /\ \A w \in Source : ~(DeviceLost(w) \/ DiskFull(w))
  BY DEF StopSession, StartSession, DeviceLost, DiskFull, LockFree
<1>4. ~Operation
  BY <1>1 DEF Operation, OpenStream, CloseSource, CreateSession, TellStarted, RecordDiskLow,
         EndAsync, PutSentinel, JoinWriter, MarkSource, RecordDeviceLost, Finalize,
         RecordStopped, AtOp
<1>5. ~OperationFault
  BY <1>1 DEF OperationFault, OpenFails, DeviceVanished, CreateFails, OperationFails, AtOp
<1>. QED  BY <1>2, <1>3, <1>4, <1>5 DEF Next

\* How the status of a source moves.
SourceMoves(w) ==
  \/ source'[w].status = source[w].status
  \/ CreateSession /\ SessionOf(w) = op.session /\ source'[w].status = "active"
  \/ source'[w].status \in {"completed", "ended_device_lost"}

LEMMA SourceMovesOn ==
  ASSUME TypeInv, [Next]_vars, NEW w \in Source
  PROVE  SourceMoves(w)
<1>0. /\ MetadataTypeOK /\ recovery \in Recovery
      /\ recovery.pc = "chunk" => RecoverSourceAt \in Source
      /\ source \in [Source -> [status : SourceStatus, count : Nat]]
  BY SourceIs DEF TypeInv, TypeOK, RecoveryHasSession, RecoverSourceAt, Recovery, MetadataTypeOK
<1>1. UNCHANGED source => SourceMoves(w)
  BY DEF SourceMoves
<1>2. ASSUME NEW v \in Source, NEW c, RecordChunk(v, c)
      PROVE  SourceMoves(w)
  BY <1>0, <1>2 DEF RecordChunk, SourceMoves
<1>3. ASSUME NEW v, NEW status \in {"completed", "ended_device_lost"}, EndSource(v, status)
      PROVE  SourceMoves(w)
  BY <1>0, <1>3 DEF EndSource, SourceMoves
<1>4. ASSUME NEW v \in Source, Frame(v) \/ WatchdogFires(v) \/ Writer(v) \/ WriterFault(v)
      PROVE  SourceMoves(w)
  <2>1. CASE FinishChunk(v)
    BY <1>2, <2>1 DEF FinishChunk
  <2>2. CASE ~FinishChunk(v)
    BY <1>1, <1>4, <2>2 DEF Frame, WatchdogFires, Writer, WriterFault, TakeFrame, TakeSentinel,
                            WriteChunk, WriteFindsDiskFull, WriterDies, metadata
  <2>. QED  BY <2>1, <2>2
<1>5. \/ StopSession \/ \E v \in Source : DeviceLost(v) \/ DiskFull(v)
      \/ \E t \in Session : StartSession(t)
      \/ \E k \in Kind : OpenStream(k) \/ CloseSource(k)
      \/ OperationFault \/ EndAsync \/ PutSentinel \/ JoinWriter \/ Crash \/ UNCHANGED vars
      => UNCHANGED source
  BY DEF StopSession, DeviceLost, DiskFull, StartSession, OpenStream, CloseSource,
     OperationFault, OpenFails, DeviceVanished, CreateFails, OperationFails, EndAsync,
     PutSentinel, JoinWriter, Crash, metadata, vars
<1>6. TellStarted \/ RecordDiskLow \/ RecordDeviceLost \/ RecordStopped \/ Finalize
      => UNCHANGED source
  BY DEF TellStarted, RecordDiskLow, RecordDeviceLost, RecordStopped, Finalize, AppendEvent,
         FinalizeSession
<1>7. CreateSession => SourceMoves(w)
  BY <1>0 DEF CreateSession, CreateActiveSession, SourceMoves
<1>8. MarkSource => SourceMoves(w)
  BY <1>3 DEF MarkSource
<1>9. RecoverMark => SourceMoves(w)
  BY <1>3 DEF RecoverMark
<1>10. RecoverChunk => SourceMoves(w)
  BY <1>0, <1>2 DEF RecoverChunk
<1>11. RecoverScan \/ RecoverFinalize \/ RecoverEvent \/ (\E k \in Kind : RecoverSource(k))
      => UNCHANGED source
  BY DEF RecoverScan, RecoverFinalize, RecoverEvent, RecoverSource, metadata, FinalizeSession,
         AppendEvent
<1>. QED
  BY <1>1, <1>4, <1>5, <1>6, <1>7, <1>8, <1>9, <1>10, <1>11 DEF Next, Operation, Recover

-----------------------------------------------------------------------------
(***************************************************************************)
(* How far recovery is with the session it works on: the sources it has    *)
(* gone past have a row for every file and have ended, and the longest of  *)
(* them is the best so far; of the source it is at it has yet to look at   *)
(* what is left of the files.                                              *)
(***************************************************************************)
At(k) == <<recovery.session, k>>
Past(k) == k \notin recovery.todo /\ ~(recovery.pc = "chunk" /\ k = recovery.kind)
Repaired(w) == row[w] = file[w] /\ source[w].status \in {"completed", "ended_device_lost"}
RecoveredHolds ==
  recovery.pc \in {"source", "chunk", "finalize"} =>
    /\ recovery.pc = "finalize" => recovery.todo = {}
    /\ \A k \in Kind : Past(k) => Repaired(At(k)) /\ Frames(file[At(k)]) <= recovery.best
    /\ recovery.best = 0 \/ \E k \in Kind : Past(k) /\ recovery.best = Frames(file[At(k)])
    /\ recovery.pc = "chunk" =>
         /\ recovery.kind \notin recovery.todo
         /\ file[At(recovery.kind)] \subseteq row[At(recovery.kind)] \cup recovery.left
         /\ recovery.total + Frames(recovery.left) = Frames(file[At(recovery.kind)])
SourceHolds == \A w \in Source : StatusOf(SessionOf(w)) # "absent" => source[w].status # "absent"
InterruptedHolds == \A w \in Source : StatusOf(SessionOf(w)) = "interrupted" => Repaired(w)
RecoveryInv == AudioInv /\ SourceHolds /\ RecoveredHolds /\ InterruptedHolds

LEMMA KeepsSources ==
  ASSUME AudioInv, SourceHolds, [Next]_vars
  PROVE  SourceHolds'
<1>. SUFFICES ASSUME NEW w \in Source, StatusOf(SessionOf(w))' # "absent"
              PROVE  source'[w].status # "absent"
  BY DEF SourceHolds
<1>1. SessionOf(w) \in Session /\ TypeInv
  BY SourceIs DEF AudioInv, SessionInv
<1>2. SourceMoves(w) /\ StatusMoves(SessionOf(w))
  BY <1>1, SourceMovesOn, StatusMovesOn
<1>3. CreateSession /\ SessionOf(w) = op.session => source'[w].status = "active"
  BY <1>1 DEF CreateSession, CreateActiveSession, TypeInv, TypeOK, MetadataTypeOK
<1>. QED  BY <1>2, <1>3 DEF SourceHolds, SourceMoves, StatusMoves

LEMMA KeepsInterrupted ==
  ASSUME RecoveryInv, [Next]_vars
  PROVE  InterruptedHolds'
<1>. SUFFICES ASSUME NEW w \in Source, StatusOf(SessionOf(w))' = "interrupted"
              PROVE  Repaired(w)'
  BY DEF InterruptedHolds
<1>0. SessionOf(w) \in Session /\ SessionInv /\ TypeInv /\ w = <<SessionOf(w), KindOf(w)>>
      /\ KindOf(w) \in Kind
  BY SourceIs DEF RecoveryInv, AudioInv, SessionInv
<1>1. CASE StatusOf(SessionOf(w)) = "interrupted"
  <2>1. \A v \in Workers(SessionOf(w)) : worker[v].pc \notin {"write", "record"}
    BY <1>0, <1>1 DEF Workers, SessionInv, WorkersHold, WorkerHolds
  <2>2. w \in Workers(SessionOf(w)) /\ session[SessionOf(w)].status \in Finished
    BY <1>1 DEF Workers, StatusOf, Finished
  <2>3. source'[w] = source[w] /\ row'[w] = row[w] /\ file'[w] = file[w]
    BY <1>0, <2>1, <2>2, SessionStays
  <2>. QED  BY <1>1, <2>3 DEF RecoveryInv, InterruptedHolds, Repaired
<1>2. CASE StatusOf(SessionOf(w)) # "interrupted"
  <2>1. RecoverFinalize /\ SessionOf(w) = recovery.session
    BY <1>0, <1>2, StatusMovesOn DEF StatusMoves
  <2>2. recovery.pc = "finalize" /\ UNCHANGED <<source, row, file>>
    BY <2>1 DEF RecoverFinalize, FinalizeSession
  <2>3. Repaired(At(KindOf(w)))
    BY <1>0, <2>2 DEF RecoveryInv, RecoveredHolds, Past
  <2>. QED  BY <1>0, <2>1, <2>2, <2>3 DEF Repaired, At
<1>. QED  BY <1>1, <1>2

\* Recovery comes to the next source and finds its chunks on disk.
LEMMA RecoverSourceKeeps ==
  ASSUME RecoveryInv, NEW k \in Kind, RecoverSource(k)
  PROVE  RecoveredHolds'
<1>0. /\ recovery \in Recovery /\ file \in [Source -> SUBSET Chunk] /\ recovery.session \in Session
      /\ RecoveredHolds /\ \A w \in Source : IsFiniteSet(file[w])
  BY RowsFinite DEF RecoveryInv, AudioInv, SessionInv, TypeInv, TypeOK, RecoveryHasSession,
                    RecoverSource
<1>1. /\ recovery.pc = "source" /\ k \in recovery.todo
      /\ recovery'.pc = "chunk" /\ recovery'.kind = k /\ recovery'.todo = recovery.todo \ {k}
      /\ recovery'.left = file[At(k)] /\ recovery'.total = 0 /\ recovery'.best = recovery.best
      /\ recovery'.session = recovery.session
      /\ UNCHANGED <<session, source, row, file>>
  BY <1>0 DEF RecoverSource, Recovery, At, metadata
<1>2. \A j : At(j)' = At(j)
  BY <1>1 DEF At
<1>3. \A j \in Kind : Past(j)' <=> Past(j)
  BY <1>0, <1>1 DEF Past, Recovery
<1>4. \A w \in Source : Repaired(w)' = Repaired(w)
  BY <1>1 DEF Repaired
<1>5. \A j \in Kind : At(j) \in Source
  BY <1>0, SourceIs DEF At
<1>6. Frames(file[At(k)]) \in Nat
  BY <1>0, <1>5, FramesType
<1>7. \A j \in Kind : Past(j)' => Repaired(At(j))' /\ Frames(file[At(j)])' <= recovery'.best
  <2>1. \A j \in Kind : Past(j) => Repaired(At(j)) /\ Frames(file[At(j)]) <= recovery.best
    BY <1>0, <1>1 DEF RecoveredHolds
  <2>. QED  BY <1>1, <1>2, <1>3, <2>1 DEF Repaired
<1>8. recovery'.best = 0 \/ \E j \in Kind : Past(j)' /\ recovery'.best = Frames(file[At(j)])'
  <2>1. recovery.best = 0 \/ \E j \in Kind : Past(j) /\ recovery.best = Frames(file[At(j)])
    BY <1>0, <1>1 DEF RecoveredHolds
  <2>. QED  BY <1>1, <1>2, <1>3, <2>1
<1>9. /\ recovery'.kind \notin recovery'.todo
      /\ file'[At(recovery.kind)'] \subseteq row'[At(recovery.kind)'] \cup recovery'.left
      /\ recovery'.total + Frames(recovery'.left) = Frames(file'[At(recovery.kind)'])
  BY <1>1, <1>6 DEF At
<1>. QED  BY <1>1, <1>7, <1>8, <1>9 DEF RecoveredHolds

\* The next chunk of the source: recorded now, unless its row is there already.
LEMMA RecoverChunkKeeps ==
  ASSUME RecoveryInv, RecoverChunk
  PROVE  RecoveredHolds'
<1>0. /\ recovery \in Recovery /\ file \in [Source -> SUBSET Chunk] /\ row \in [Source -> SUBSET Chunk]
      /\ recovery.session \in Session /\ recovery.kind \in Kind /\ recovery.pc = "chunk"
      /\ RecoveredHolds /\ \A w \in Source : IsFiniteSet(file[w]) /\ row[w] \subseteq file[w]
      /\ recovery.left \subseteq file[RecoverSourceAt]
      /\ source \in [Source -> [status : SourceStatus, count : Nat]]
  BY RowsFinite DEF RecoveryInv, AudioInv, SessionInv, TypeInv, TypeOK, RecoveryHasSession,
                    RecoverChunk, Recovery, RowInv, RecoveryHasFiles, MetadataTypeOK
<1>1. PICK v \in Source : v = RecoverSourceAt
  BY <1>0, SourceIs DEF RecoverSourceAt
<1>2. PICK c \in recovery.left :
        /\ RecordChunk(v, c)
        /\ recovery' = [recovery EXCEPT !.left = @ \ {c}, !.total = @ + c.size]
  BY <1>1 DEF RecoverChunk
<1>3. /\ recovery'.pc = "chunk" /\ recovery'.kind = recovery.kind
      /\ recovery'.todo = recovery.todo /\ recovery'.best = recovery.best
      /\ recovery'.session = recovery.session
      /\ recovery'.left = recovery.left \ {c} /\ recovery'.total = recovery.total + c.size
      /\ UNCHANGED file
  BY <1>0, <1>2 DEF RecoverChunk, Recovery
<1>4. v = At(recovery.kind) /\ \A j : At(j)' = At(j)
  BY <1>1, <1>3 DEF At, RecoverSourceAt
<1>5. \A j \in Kind : (Past(j)' <=> Past(j)) /\ (Past(j) => At(j) # v)
  BY <1>0, <1>3, <1>4 DEF Past, At
<1>6. c \in file[v] /\ c \in row'[v] /\ row[v] \subseteq row'[v]
  <2>1. c \in file[v]
    BY <1>0, <1>1
  <2>2. CASE IsRecorded(v, c)
    <3>1. UNCHANGED row
      BY <1>2, <2>2 DEF RecordChunk
    <3>2. \A d \in file[v] : d.seq = c.seq => d = c
      BY <2>1 DEF RecoveryInv, AudioInv, ChunksHold, FileHolds
    <3>. QED  BY <1>0, <2>1, <2>2, <3>1, <3>2 DEF IsRecorded
  <2>3. CASE ~IsRecorded(v, c)
    BY <1>0, <1>2, <2>1, <2>3 DEF RecordChunk
  <2>. QED  BY <2>1, <2>2, <2>3
<1>7. \A w \in Source : w # v => row'[w] = row[w] /\ source'[w] = source[w]
  BY <1>0, <1>2 DEF RecordChunk
<1>8. \A j \in Kind : At(j) \in Source
  BY <1>0, SourceIs DEF At
<1>9. \A j \in Kind : Past(j) => Repaired(At(j)) /\ Frames(file[At(j)]) <= recovery.best
  BY <1>0 DEF RecoveredHolds
<1>10. \A j \in Kind : Past(j)' => Repaired(At(j))' /\ Frames(file[At(j)])' <= recovery'.best
  BY <1>3, <1>4, <1>5, <1>7, <1>8, <1>9 DEF Repaired
<1>11. recovery'.best = 0 \/ \E j \in Kind : Past(j)' /\ recovery'.best = Frames(file[At(j)])'
  <2>1. recovery.best = 0 \/ \E j \in Kind : Past(j) /\ recovery.best = Frames(file[At(j)])
    BY <1>0 DEF RecoveredHolds
  <2>. QED  BY <1>3, <1>4, <1>5, <2>1
<1>12. file'[v] \subseteq row'[v] \cup recovery'.left
  <2>1. file[v] \subseteq row[v] \cup recovery.left
    BY <1>0, <1>4 DEF RecoveredHolds
  <2>. QED  BY <1>3, <1>6, <2>1
<1>13. recovery'.total + Frames(recovery'.left) = Frames(file'[v])
  <2>1. recovery.total + Frames(recovery.left) = Frames(file[v]) /\ recovery.total \in Nat
    BY <1>0, <1>4 DEF RecoveredHolds, Recovery
  <2>2. IsFiniteSet(recovery.left) /\ recovery.left \in SUBSET Chunk
    BY <1>0, <1>1, FS_Subset
  <2>3. /\ Frames(recovery.left) = c.size + Frames(recovery.left \ {c})
        /\ Frames(recovery.left \ {c}) \in Nat /\ c.size \in Nat
    BY <2>2, FramesRemove
  <2>. QED  BY <1>3, <2>1, <2>3
<1>. QED  BY <1>0, <1>3, <1>4, <1>10, <1>11, <1>12, <1>13 DEF RecoveredHolds

\* A source whose files all have rows has ended; the longest so far is kept.
LEMMA RecoverMarkKeeps ==
  ASSUME RecoveryInv, RecoverMark
  PROVE  RecoveredHolds'
<1>0. /\ recovery \in Recovery /\ file \in [Source -> SUBSET Chunk] /\ row \in [Source -> SUBSET Chunk]
      /\ recovery.session \in Session /\ recovery.kind \in Kind /\ recovery.pc = "chunk"
      /\ RecoveredHolds /\ \A w \in Source : IsFiniteSet(file[w]) /\ row[w] \subseteq file[w]
      /\ source \in [Source -> [status : SourceStatus, count : Nat]]
      /\ recovery.total \in Nat /\ recovery.best \in Nat /\ recovery.left = {}
      /\ StatusOf(recovery.session) = "active" /\ SourceHolds
  BY RowsFinite DEF RecoveryInv, AudioInv, SessionInv, TypeInv, TypeOK, RecoveryHasSession,
                    RecoverMark, Recovery, MetadataTypeOK, RecoveryHolds
<1>1. PICK v \in Source : v = RecoverSourceAt /\ SessionOf(v) = recovery.session
  BY <1>0, SourceIs DEF RecoverSourceAt
<1>2. /\ recovery'.kind = recovery.kind /\ recovery'.todo = recovery.todo
      /\ recovery'.session = recovery.session
      /\ recovery'.best = IF recovery.best < recovery.total THEN recovery.total ELSE recovery.best
      /\ recovery'.pc = IF recovery.todo = {} THEN "finalize" ELSE "source"
      /\ UNCHANGED <<row, file>> /\ EndSource(v, "completed")
  BY <1>0, <1>1 DEF RecoverMark, Recovery, EndSource
<1>3. v = At(recovery.kind) /\ \A j : At(j)' = At(j)
  BY <1>1, <1>2 DEF At, RecoverSourceAt
<1>4. /\ recovery.kind \notin recovery.todo /\ file[v] = row[v] /\ recovery.total = Frames(file[v])
  <2>1. /\ recovery.kind \notin recovery.todo
        /\ file[v] \subseteq row[v] \cup recovery.left
        /\ recovery.total + Frames(recovery.left) = Frames(file[v])
    BY <1>0, <1>3 DEF RecoveredHolds
  <2>2. recovery.total + 0 = recovery.total
    BY <1>0
  <2>. QED  BY <1>0, <2>1, <2>2, FramesEmpty
<1>5. \A j \in Kind : Past(j)' <=> (Past(j) \/ j = recovery.kind)
  BY <1>0, <1>2, <1>4 DEF Past
<1>6. /\ source'[v].status \in {"completed", "ended_device_lost"}
      /\ \A w \in Source : w # v => source'[w] = source[w]
  <2>1. source[v].status \in {"active", "completed", "ended_device_lost"}
    BY <1>0, <1>1 DEF SourceHolds, SourceStatus
  <2>. QED  BY <1>0, <1>2, <2>1 DEF EndSource
<1>7. Repaired(v)'
  BY <1>2, <1>4, <1>6 DEF Repaired
<1>8. \A j \in Kind : At(j) \in Source
  BY <1>0, SourceIs DEF At
<1>9. \A j \in Kind : Past(j) => Repaired(At(j)) /\ Frames(file[At(j)]) <= recovery.best
  BY <1>0 DEF RecoveredHolds
<1>10. \A w \in Source : Frames(file[w]) \in Nat
  BY <1>0, FramesType
<1>11. recovery.best <= recovery'.best /\ recovery.total <= recovery'.best
  BY <1>0, <1>2
<1>12. ASSUME NEW j \in Kind, Past(j)'
       PROVE  Repaired(At(j))' /\ Frames(file[At(j)])' <= recovery'.best
  <2>1. CASE j = recovery.kind
    BY <1>2, <1>3, <1>4, <1>7, <1>11, <2>1
  <2>2. CASE j # recovery.kind
    <3>1. Past(j) /\ Repaired(At(j)) /\ Frames(file[At(j)]) <= recovery.best
      BY <1>5, <1>9, <1>12, <2>2
    <3>2. Repaired(At(j))'
      BY <1>2, <1>3, <1>6, <1>7, <1>8, <3>1 DEF Repaired
    <3>3. Frames(file[At(j)]) <= recovery'.best
      BY <1>0, <1>2, <1>8, <1>10, <1>11, <3>1
    <3>. QED  BY <1>2, <1>3, <3>2, <3>3
  <2>. QED  BY <2>1, <2>2
<1>13. recovery'.best = 0 \/ \E j \in Kind : Past(j)' /\ recovery'.best = Frames(file[At(j)])'
  <2>1. recovery.best = 0 \/ \E j \in Kind : Past(j) /\ recovery.best = Frames(file[At(j)])
    BY <1>0 DEF RecoveredHolds
  <2>2. CASE recovery.best < recovery.total
    <3>1. Past(recovery.kind)' /\ recovery'.best = Frames(file[At(recovery.kind)])'
      BY <1>0, <1>2, <1>3, <1>4, <1>5, <2>2
    <3>. QED  BY <1>0, <3>1, <1>2, <1>3, <1>4, <1>5
  <2>3. CASE ~(recovery.best < recovery.total)
    BY <1>2, <1>3, <1>5, <2>1, <2>3
  <2>. QED  BY <2>2, <2>3
<1>14. recovery'.pc # "chunk" /\ (recovery'.pc = "finalize" => recovery'.todo = {})
  BY <1>2
<1>. QED  BY <1>12, <1>13, <1>14 DEF RecoveredHolds

LEMMA RecoveryInvInductive ==
  /\ Init => RecoveryInv
  /\ RecoveryInv /\ [Next]_vars => RecoveryInv'
<1>1. ASSUME Init
      PROVE  RecoveryInv
  <2>1. AudioInv
    BY <1>1, AudioInvInductive
  <2>2. SourceHolds /\ InterruptedHolds /\ RecoveredHolds
    BY <1>1, SourceIs
       DEF Init, MetadataInit, SourceHolds, InterruptedHolds, RecoveredHolds, StatusOf, NoRecovery
  <2>. QED  BY <2>1, <2>2 DEF RecoveryInv
<1>2. ASSUME RecoveryInv, [Next]_vars
      PROVE  RecoveryInv'
  <2>1. AudioInv' /\ SourceHolds' /\ InterruptedHolds'
    BY <1>2, AudioInvInductive, KeepsSources, KeepsInterrupted DEF RecoveryInv
  <2>2. RecoveredHolds'
    <3>0. recovery \in Recovery /\ SessionInv
      BY <1>2 DEF RecoveryInv, AudioInv, SessionInv, TypeInv, TypeOK
    <3>1. CASE UNCHANGED vars
      BY <1>2, <3>1 DEF vars, metadata, RecoveryInv, RecoveredHolds, Past, At, Repaired
    <3>2. CASE Crash
      <4>1. recovery'.pc = "scan"
        BY <3>2 DEF Crash, NoRecovery
      <4>. QED  BY <4>1 DEF RecoveredHolds
    <3>3. CASE RecoverScan
      <4>1. CASE recovery' = NoRecovery("up")
        BY <4>1 DEF NoRecovery, RecoveredHolds
      <4>2. ASSUME NEW s \in Session,
                   recovery' = [recovery EXCEPT !.pc = "source", !.session = s,
                                                !.todo = Kind, !.best = 0]
            PROVE  RecoveredHolds'
        <5>1. recovery'.pc = "source" /\ recovery'.todo = Kind /\ recovery'.best = 0
          BY <3>0, <4>2 DEF Recovery
        <5>. QED  BY <5>1 DEF RecoveredHolds, Past
      <4>. QED  BY <3>3, <4>1, <4>2 DEF RecoverScan
    <3>4. CASE RecoverFinalize \/ RecoverEvent
      <4>1. recovery'.pc \in {"event", "scan"}
        BY <3>0, <3>4 DEF RecoverFinalize, RecoverEvent, NoRecovery, Recovery
      <4>. QED  BY <4>1 DEF RecoveredHolds
    <3>5. CASE Serving /\ UNCHANGED recovery
      BY <3>5 DEF Serving, RecoveredHolds
    <3>6. Serving => ~Recover
      BY DEF Serving, Recover, RecoverScan, RecoverSource, RecoverChunk, RecoverMark,
             RecoverFinalize, RecoverEvent
    <3>. QED
      BY <1>2, <3>0, <3>1, <3>2, <3>3, <3>4, <3>5, <3>6, OnlyRecovers, OnlyRecoveryRecovers,
         RecoverSourceKeeps, RecoverChunkKeeps, RecoverMarkKeeps
         DEF Recover
  <2>. QED  BY <2>1, <2>2 DEF RecoveryInv
<1>. QED  BY <1>1, <1>2

(***************************************************************************)
(* A session that recovery has ended has a row for exactly the files on    *)
(* disk and no source of it is active, whatever the faults.                *)
(***************************************************************************)
THEOREM RecoveryMatchesDisk == Spec => []RecoveredMatchesDisk
<1>1. RecoveryInv => RecoveredMatchesDisk
  BY DEF RecoveryInv, InterruptedHolds, RecoveredMatchesDisk, Repaired, StatusOf
<1>. QED  BY <1>1, RecoveryInvInductive, PTL DEF Spec

-----------------------------------------------------------------------------
(***************************************************************************)
(* The duration of a session.                                              *)
(***************************************************************************)
LEMMA LongestIs ==
  ASSUME NEW r, NEW s, NEW w \in Workers(s), NEW m \in Nat, m = Frames(r[w]),
         \A v \in Workers(s) : Frames(r[v]) \in Nat /\ Frames(r[v]) <= m
  PROVE  Longest(s, r) = m
<1>. DEFINE S == {Frames(r[v]) : v \in Workers(s)}
<1>1. m \in S /\ \A x \in S : x \in Nat /\ x <= m
  OBVIOUS
<1>. HIDE DEF S
<1>2. Max(S) = CHOOSE x \in S : \A y \in S : x >= y
  BY DEF Max
<1>3. \A y \in S : m >= y
  BY <1>1
<1>4. \A x \in S : (\A y \in S : x >= y) => x = m
  BY <1>1
<1>. DEFINE top == CHOOSE x \in S : \A y \in S : x >= y
<1>5. top \in S /\ \A y \in S : top >= y
  BY <1>1, <1>3
<1>6. Max(S) = m
  <2>. HIDE DEF top
  <2>1. top = m
    BY <1>4, <1>5
  <2>. QED  BY <1>2, <2>1 DEF top
<1>. QED  BY <1>6 DEF Longest, S

LEMMA LongestSame ==
  ASSUME NEW r, NEW q, NEW s, \A w \in Workers(s) : q[w] = r[w]
  PROVE  Longest(s, q) = Longest(s, r)
<1>1. {Frames(q[w]) : w \in Workers(s)} = {Frames(r[w]) : w \in Workers(s)}
  OBVIOUS
<1>. QED  BY <1>1 DEF Longest

\* A stop, a loss of every device and a full disk take the longest of the sources.
LEMMA FinalizeMeasures ==
  ASSUME AudioInv, Finalize, StatusOf(op.session) = "active"
  PROVE  session'[op.session].duration = Longest(op.session, row) /\ UNCHANGED row
<1>0. /\ worker \in [Source -> Worker] /\ op.session \in Session /\ op.session = active
      /\ session \in [Session -> [status : SessionStatus, duration : Nat, size : Nat]]
      /\ WorkersHold /\ ChunksHold
  <2>1. SessionInvBut
    BY SessionInvIs DEF AudioInv
  <2>. QED  BY <2>1, InvTypes DEF AudioInv, SessionInv, TypeInv, TypeOK, MetadataTypeOK, Finalize, AtOp, Busy
<1>1. PICK w \in Workers(op.session) :
        /\ \A v \in Workers(op.session) : worker[v].dur <= worker[w].dur
        /\ FinalizeSession(op.session, "completed", worker[w].dur)
  BY DEF Finalize
<1>2. session'[op.session].duration = worker[w].dur /\ UNCHANGED row
  BY <1>0, <1>1 DEF FinalizeSession, StatusOf
<1>3. \A v \in Workers(op.session) : worker[v].dur = Frames(row[v]) /\ worker[v].dur \in Nat
  BY <1>0 DEF Workers, WorkersHold, WorkerHolds, ChunksHold, RowHolds, Worker
<1>4. Longest(op.session, row) = worker[w].dur
  <2>1. \A v \in Workers(op.session) : Frames(row[v]) \in Nat /\ Frames(row[v]) <= worker[w].dur
    BY <1>1, <1>3
  <2>2. worker[w].dur \in Nat /\ worker[w].dur = Frames(row[w])
    BY <1>3
  <2>. QED  BY <1>1, <2>1, <2>2, LongestIs
<1>. QED  BY <1>2, <1>4

\* Recovery takes the longest of what it found on disk.
LEMMA RecoveryMeasures ==
  ASSUME RecoveryInv, RecoverFinalize
  PROVE  session'[recovery.session].duration = Longest(recovery.session, row) /\ UNCHANGED row
<1>0. /\ recovery \in Recovery /\ recovery.session \in Session /\ recovery.best \in Nat
      /\ session \in [Session -> [status : SessionStatus, duration : Nat, size : Nat]]
      /\ StatusOf(recovery.session) = "active" /\ RecoveredHolds /\ recovery.pc = "finalize"
      /\ \A w \in Source : Frames(row[w]) \in Nat
  BY RowsFinite, FramesType
     DEF RecoveryInv, AudioInv, SessionInv, TypeInv, TypeOK, RecoveryHasSession, MetadataTypeOK,
         RecoverFinalize, RecoveryHolds, Recovery
<1>1. session'[recovery.session].duration = recovery.best /\ UNCHANGED row
  BY <1>0 DEF RecoverFinalize, FinalizeSession, StatusOf
<1>2. \A k \in Kind : At(k) \in Workers(recovery.session)
  BY <1>0, SourceIs DEF At, Workers
<1>3. \A w \in Workers(recovery.session) : w \in Source /\ \E k \in Kind : w = At(k)
  BY SourceIs DEF At, Workers
<1>4. \A k \in Kind : /\ Past(k) /\ row[At(k)] = file[At(k)]
                      /\ Frames(row[At(k)]) <= recovery.best
  BY <1>0 DEF RecoveredHolds, Past, Repaired
<1>5. \A w \in Workers(recovery.session) : Frames(row[w]) \in Nat /\ Frames(row[w]) <= recovery.best
  BY <1>0, <1>3, <1>4
<1>6. \E w \in Workers(recovery.session) : recovery.best = Frames(row[w])
  <2>1. CASE recovery.best = 0
    <3>1. PICK k \in Kind : TRUE
      BY CaptureAssumption
    <3>. QED  BY <1>2, <1>5, <2>1, <3>1
  <2>2. CASE recovery.best # 0
    <3>1. PICK k \in Kind : recovery.best = Frames(file[At(k)])
      BY <1>0, <2>2 DEF RecoveredHolds
    <3>. QED  BY <1>2, <1>4, <3>1
  <2>. QED  BY <2>1, <2>2
<1>7. Longest(recovery.session, row) = recovery.best
  BY <1>0, <1>5, <1>6, LongestIs
<1>. QED  BY <1>1, <1>7

(***************************************************************************)
(* Joins that time out aside, the duration of a finished session is the    *)
(* recorded audio of its longest source, however the session ended: by a   *)
(* stop, a loss of all its devices, a full disk or a recovery.             *)
(***************************************************************************)
THEOREM DurationsAreAudio ==
  ASSUME "timeout" \notin Faults
  PROVE  Spec => []DurationIsAudio
<1>1. Init => DurationIsAudio
  BY DEF Init, MetadataInit, DurationIsAudio, Finished
<1>2. ASSUME RecoveryInv, WritersJoined, DurationIsAudio, [Next]_vars
      PROVE  DurationIsAudio'
  <2>. SUFFICES ASSUME NEW s \in Session, session'[s].status \in Finished
                PROVE  session'[s].duration = Longest(s, row')
    BY DEF DurationIsAudio
  <2>0. SessionInv /\ TypeInv /\ AudioInv
    BY <1>2 DEF RecoveryInv, AudioInv, SessionInv
  <2>1. CASE session[s].status \in Finished
    <3>1. session'[s] = session[s] /\ \A w \in Workers(s) : row'[w] = row[w]
      BY <1>2, <2>0, <2>1, FinishedStays
    <3>2. Longest(s, row') = Longest(s, row)
      BY <3>1, LongestSame
    <3>. QED  BY <1>2, <2>1, <3>1, <3>2 DEF DurationIsAudio
  <2>2. CASE session[s].status \notin Finished
    <3>1. \/ Finalize /\ s = op.session /\ StatusOf(s) = "active"
          \/ RecoverFinalize /\ s = recovery.session
      BY <1>2, <2>0, <2>2, StatusMovesOn DEF StatusMoves, StatusOf, Finished
    <3>2. session'[s].duration = Longest(s, row) /\ UNCHANGED row
      BY <1>2, <2>0, <3>1, FinalizeMeasures, RecoveryMeasures
    <3>3. Longest(s, row') = Longest(s, row)
      BY <3>2
    <3>. QED  BY <3>2, <3>3
  <2>. QED  BY <2>1, <2>2
<1>3. RecoveryInv => SessionInv
  BY DEF RecoveryInv, AudioInv
<1>. QED  BY <1>1, <1>2, <1>3, RecoveryInvInductive, JoinedInductive, PTL DEF Spec

-----------------------------------------------------------------------------
(***************************************************************************)
(* The device-lost event.  It is appended once the writer of the source    *)
(* has returned, all its chunks recorded; from then on the chunks of that  *)
(* source do not change, not even by recovery.                             *)
(***************************************************************************)
NoEventYet == \A s \in Session : StatusOf(s) = "absent" => event[s] = {}
Settled(w) == row[w] = file[w] /\ worker[w].pc \in {"none", "done", "full", "failed"}
LossHolds ==
  \A w \in Source : \A n \in Nat :
    <<"device_lost", KindOf(w), n>> \in event[SessionOf(w)] => n = Cardinality(row[w]) /\ Settled(w)

EventMoves(s) ==
  \/ event'[s] = event[s]
  \/ /\ StatusOf(s) # "absent" /\ StatusOf(s)' # "absent"
     /\ \/ \E e \in {<<"started">>, <<"stopped">>, <<"disk_low">>, <<"reconciled">>} :
             event'[s] = event[s] \cup {e}
        \/ /\ RecordDeviceLost /\ s = op.session /\ OpSource \in Source
           /\ event'[s] = event[s] \cup {<<"device_lost", op.kind, worker[OpSource].seq>>}

LEMMA EventMovesOn ==
  ASSUME SessionInv, [Next]_vars, NEW s \in Session
  PROVE  EventMoves(s)
<1>0. /\ event \in [Session -> SUBSET Event] /\ SessionInvBut /\ TypeInv
      /\ Busy => op.session \in Session /\ StatusOf(op.session) # "absent" /\ OpSource \in Source
      /\ recovery.pc = "event" => StatusOf(recovery.session) # "absent"
  <2>1. SessionInvBut
    BY SessionInvIs
  <2>2. Busy => op.session \in Session /\ op.session = active
    BY <2>1, InvTypes
  <2>3. active # NoSession => StatusOf(active) # "absent"
    BY DEF SessionInv, EngineHolds
  <2>. QED  BY <2>1, <2>2, <2>3, InvTypes, SourceIs, CaptureAssumption
            DEF SessionInv, TypeInv, TypeOK, MetadataTypeOK, OpSource, RecoveryHolds
<1>1. UNCHANGED event => EventMoves(s)
  BY DEF EventMoves
<1>2. ASSUME NEW t, NEW e, AppendEvent(t, e)
      PROVE  event'[s] = event[s] \/ (t = s /\ event'[s] = event[s] \cup {e})
  BY <1>0, <1>2 DEF AppendEvent
<1>3. StatusOf(s) # "absent" => StatusOf(s)' # "absent"
  BY <1>0, NeverAbsentAgain
<1>4. ASSUME NEW v \in Source, Frame(v) \/ WatchdogFires(v) \/ Writer(v) \/ WriterFault(v)
      PROVE  UNCHANGED event
  BY <1>4 DEF Frame, WatchdogFires, Writer, WriterFault, TakeFrame, TakeSentinel, WriteChunk,
              FinishChunk, RecordChunk, WriteFindsDiskFull, WriterDies, metadata
<1>5. \/ StopSession \/ \E v \in Source : DeviceLost(v) \/ DiskFull(v)
      \/ \E t \in Session : StartSession(t)
      \/ \E k \in Kind : OpenStream(k) \/ CloseSource(k)
      \/ OperationFault \/ EndAsync \/ PutSentinel \/ JoinWriter \/ Crash \/ UNCHANGED vars
      => UNCHANGED event
  BY DEF StopSession, DeviceLost, DiskFull, StartSession, OpenStream, CloseSource,
     OperationFault, OpenFails, DeviceVanished, CreateFails, OperationFails, EndAsync,
     PutSentinel, JoinWriter, Crash, metadata, vars
<1>6. CreateSession \/ MarkSource \/ Finalize => UNCHANGED event
  BY DEF CreateSession, CreateActiveSession, MarkSource, EndSource, Finalize, FinalizeSession
<1>7. ASSUME TellStarted \/ RecordDiskLow \/ RecordStopped
      PROVE  EventMoves(s)
  <2>1. Busy /\ \E e \in {<<"started">>, <<"stopped">>, <<"disk_low">>} : AppendEvent(op.session, e)
    BY <1>7 DEF TellStarted, RecordDiskLow, RecordStopped, AtOp, Busy
  <2>. QED  BY <1>0, <1>2, <1>3, <2>1 DEF EventMoves
<1>8. ASSUME RecordDeviceLost
      PROVE  EventMoves(s)
  <2>1. Busy /\ AppendEvent(op.session, <<"device_lost", op.kind, worker[OpSource].seq>>)
    BY <1>8 DEF RecordDeviceLost, AtOp, Busy
  <2>. QED  BY <1>0, <1>2, <1>3, <1>8, <2>1 DEF EventMoves
<1>9. ASSUME RecoverEvent
      PROVE  EventMoves(s)
  <2>1. recovery.pc = "event" /\ AppendEvent(recovery.session, <<"reconciled">>)
    BY <1>9 DEF RecoverEvent
  <2>. QED  BY <1>0, <1>2, <1>3, <2>1 DEF EventMoves
<1>10. RecoverScan \/ RecoverChunk \/ RecoverMark \/ RecoverFinalize \/ (\E k \in Kind : RecoverSource(k))
       => UNCHANGED event
  BY DEF RecoverScan, RecoverChunk, RecoverMark, RecoverFinalize, RecoverSource, RecordChunk,
         metadata, FinalizeSession, EndSource
<1>. QED
  BY <1>1, <1>4, <1>5, <1>6, <1>7, <1>8, <1>9, <1>10 DEF Next, Operation, Recover

\* A source whose writer is gone, with a row for every file, stays as it is.
LEMMA SettledStays ==
  ASSUME RecoveryInv, [Next]_vars, NEW w \in Source, Settled(w), StatusOf(SessionOf(w)) # "absent"
  PROVE  Settled(w)' /\ row'[w] = row[w]
<1>0. SessionInv /\ PutHolds /\ AudioInv
  BY DEF RecoveryInv, AudioInv
<1>1. worker'[w].pc \in {"none", "done", "full", "failed"} /\ ~Wrote(w) /\ ~FinishChunk(w)
  BY <1>0, Progress
     DEF Settled, Kept, TookOrGaveUp, Began, Wrote, Counted, FinishChunk
<1>2. file'[w] = file[w]
  BY <1>0, <1>1, FileKept
<1>3. row'[w] = row[w]
  <2>1. CASE ~RecoverChunk
    BY <1>0, <1>1, <2>1, RowKept
  <2>2. CASE RecoverChunk
    <3>1. PICK c \in recovery.left : RecordChunk(RecoverSourceAt, c)
      BY <2>2 DEF RecoverChunk
    <3>2. RecoverSourceAt \in Source /\ row \in [Source -> SUBSET Chunk] /\ c \in file[RecoverSourceAt]
      BY <1>0, <2>2, SourceIs
         DEF AudioInv, SessionInv, TypeInv, TypeOK, RecoveryHasSession, MetadataTypeOK,
             RecoverSourceAt, Recovery, RecoverChunk, RowInv, RecoveryHasFiles
    <3>3. CASE RecoverSourceAt = w
      BY <3>1, <3>2, <3>3 DEF RecordChunk, IsRecorded, Settled
    <3>4. CASE RecoverSourceAt # w
      BY <3>1, <3>2, <3>4 DEF RecordChunk
    <3>. QED  BY <3>3, <3>4
  <2>. QED  BY <2>1, <2>2
<1>. QED  BY <1>1, <1>2, <1>3 DEF Settled

\* When the event is appended all chunks of the source are recorded.
LEMMA LossIsTold ==
  ASSUME RecoveryInv, WritersJoined, "sqlite" \notin Faults, RecordDeviceLost, OpSource \in Source
  PROVE  worker[OpSource].seq = Cardinality(row[OpSource]) /\ Settled(OpSource)
<1>. DEFINE w == OpSource
<1>0. /\ SessionInv /\ FileHolds(w) /\ SeqHolds(w) /\ RowHolds(w) /\ op.pc = "device_lost"
      /\ worker[w].seq \in Nat /\ file[w] \subseteq Chunk
  BY DEF RecoveryInv, AudioInv, ChunksHold, RecordDeviceLost, AtOp, SessionInv, TypeInv, TypeOK,
         Worker
<1>1. worker[w].ended
  BY <1>0 DEF SessionInv, EndHolds, Ended, OpSource
<1>2. worker[w].pc \in {"done", "full", "failed"}
  BY <1>0, <1>1 DEF WritersJoined, Exited
<1>3. NumberOf(w) = worker[w].seq
  BY <1>0, <1>2 DEF SeqHolds
<1>4. row[w] = file[w]
  <2>1. \A c \in file[w] : c.seq < worker[w].seq
    BY <1>0, <1>3 DEF FileHolds
  <2>2. row[w] = {c \in file[w] : c.seq < worker[w].seq}
    BY <1>0, <1>2 DEF RowHolds
  <2>. QED  BY <2>1, <2>2
<1>. QED  BY <1>2, <1>3, <1>4 DEF Settled, NumberOf

(***************************************************************************)
(* Without join timeouts and database errors, the last_seq of a            *)
(* device-lost event is the number of the source's last chunk, for good.   *)
(* A join that gives up lets the writer record after the event, and so     *)
(* does a recovery of the chunk whose record_chunk raised.                 *)
(***************************************************************************)
THEOREM LossEventsAreExact ==
  ASSUME {"timeout", "sqlite"} \cap Faults = {}
  PROVE  Spec => []LossEventIsExact
<1>0. "timeout" \notin Faults /\ "sqlite" \notin Faults
  OBVIOUS
<1>1. Init => NoEventYet /\ LossHolds
  BY SourceIs DEF Init, MetadataInit, NoEventYet, LossHolds
<1>2. ASSUME RecoveryInv, WritersJoined, NoEventYet, LossHolds, [Next]_vars
      PROVE  NoEventYet' /\ LossHolds'
  <2>0. SessionInv /\ TypeInv /\ op.kind \in Kind
    BY <1>2 DEF RecoveryInv, AudioInv, SessionInv, TypeInv, TypeOK, Op
  <2>1. NoEventYet'
    BY <1>2, <2>0, EventMovesOn, NeverAbsentAgain DEF NoEventYet, EventMoves
  <2>2. LossHolds'
    <3>. SUFFICES ASSUME NEW w \in Source, NEW n \in Nat,
                         <<"device_lost", KindOf(w), n>> \in event'[SessionOf(w)]
                  PROVE  n = Cardinality(row'[w]) /\ Settled(w)'
      BY DEF LossHolds
    <3>1. SessionOf(w) \in Session /\ EventMoves(SessionOf(w))
      BY <1>2, <2>0, SourceIs, EventMovesOn
    <3>2. n = Cardinality(row[w]) /\ Settled(w) /\ StatusOf(SessionOf(w)) # "absent"
      <4>1. CASE <<"device_lost", KindOf(w), n>> \in event[SessionOf(w)]
        BY <1>2, <3>1, <4>1 DEF LossHolds, NoEventYet
      <4>2. CASE <<"device_lost", KindOf(w), n>> \notin event[SessionOf(w)]
        <5>1. /\ RecordDeviceLost /\ SessionOf(w) = op.session /\ OpSource \in Source
              /\ <<"device_lost", KindOf(w), n>> = <<"device_lost", op.kind, worker[OpSource].seq>>
              /\ StatusOf(SessionOf(w)) # "absent"
          BY <3>1, <4>2 DEF EventMoves
        <5>2. w = OpSource /\ n = worker[OpSource].seq
          BY <5>1, SourceIs DEF OpSource
        <5>. QED  BY <1>0, <1>2, <5>1, <5>2, LossIsTold
      <4>. QED  BY <4>1, <4>2
    <3>. QED  BY <1>2, <3>2, SettledStays
  <2>. QED  BY <2>1, <2>2
<1>3. ASSUME LossHolds
      PROVE  LossEventIsExact
  BY <1>3, CaptureAssumption DEF LossHolds, LossEventIsExact
<1>4. RecoveryInv => SessionInv
  BY DEF RecoveryInv, AudioInv
<1>. QED  BY <1>0, <1>1, <1>2, <1>3, <1>4, RecoveryInvInductive, JoinedInductive, PTL DEF Spec

-----------------------------------------------------------------------------
(***************************************************************************)
(* That CaptureEngine implements SessionFeed, the specification of what    *)
(* the rest of the process sees of capture: every step of the engine is a  *)
(* step of the feed or leaves it alone.                                    *)
(***************************************************************************)
(***************************************************************************)
(* What was told of a session: nothing before it has a row, nothing before *)
(* its start is, and nothing more once its end is.                         *)
(***************************************************************************)
ToldHolds ==
  /\ \A s \in Session : StatusOf(s) = "absent" => told[s] = {}
  /\ op.pc = "started" => told[op.session] = {} /\ StatusOf(op.session) = "active"
  /\ \A s \in Session : "finalized" \in told[s] => s # active
FeedInv == SessionInv /\ AudioInv /\ WritersJoined /\ ToldHolds

\* What the feed shows.
Shown == [s \in Session |-> FeedStatusOf(s)]
OnDisk == [w \in Source |-> Cardinality(file[w])]
Fed == [w \in Source |-> worker[w].seq]

LEMMA FeedIs ==
  /\ Feed!FeedInit <=> /\ Shown = [s \in Session |-> "absent"]
                       /\ told = [s \in Session |-> {}]
                       /\ OnDisk = [w \in Source |-> 0]
                       /\ Fed = [w \in Source |-> 0]
  /\ Feed!feed = <<Shown, told, OnDisk, Fed>>
BY DEF Feed!FeedInit, Feed!feed, Shown, OnDisk, Fed, Feed!Source, Source

\* The steps of the feed, in terms of the engine's state.
SameFeed == UNCHANGED <<Shown, told, OnDisk, Fed>>
TellOf(s, notice) == told' = [told EXCEPT ![s] = @ \cup {notice}]

LEMMA FeedSteps ==
  ASSUME \/ SameFeed
         \/ \E s \in Session :
              \/ /\ (\A t \in Session : Shown[t] # "active") /\ Shown[s] = "absent"
                 /\ Shown' = [Shown EXCEPT ![s] = "active"] /\ UNCHANGED <<told, OnDisk, Fed>>
              \/ /\ Shown[s] = "active" /\ told[s] = {} /\ TellOf(s, "started")
                 /\ UNCHANGED <<Shown, OnDisk, Fed>>
              \/ /\ Shown[s] # "absent" /\ "finalized" \notin told[s] /\ TellOf(s, "stopped")
                 /\ UNCHANGED <<Shown, OnDisk, Fed>>
              \/ /\ Shown[s] = "active" /\ Shown' = [Shown EXCEPT ![s] = "finished"]
                 /\ UNCHANGED told \/ TellOf(s, "finalized")
                 /\ UNCHANGED <<OnDisk, Fed>>
              \/ /\ Shown[s] = "finished" /\ "finalized" \notin told[s] /\ TellOf(s, "finalized")
                 /\ UNCHANGED <<Shown, OnDisk, Fed>>
         \/ \E w \in Source :
              \/ /\ Shown[SessionOf(w)] = "active" /\ OnDisk[w] = Fed[w]
                 /\ OnDisk' = [OnDisk EXCEPT ![w] = @ + 1] /\ UNCHANGED <<Shown, told, Fed>>
              \/ /\ Shown[SessionOf(w)] = "active" /\ OnDisk[w] = Fed[w] + 1
                 /\ Fed' = [Fed EXCEPT ![w] = @ + 1] /\ UNCHANGED <<Shown, told, OnDisk>>
         \/ /\ Shown' = [s \in Session |-> IF Shown[s] = "active" THEN "finished" ELSE Shown[s]]
            /\ told' = [s \in Session |-> {}]
            /\ Fed' = [w \in Source |-> 0] /\ UNCHANGED OnDisk
  PROVE  [Feed!FeedNext]_(Feed!feed)
BY DEF SameFeed, TellOf, Feed!FeedNext, Feed!feed, Feed!Activate, Feed!TellStarted,
       Feed!TellStopped, Feed!Finish, Feed!TellFinalized, Feed!FileChunk, Feed!TellChunk,
       Feed!Restart, Feed!Tell, Feed!Source, Feed!SessionOf, Source, SessionOf, Shown, OnDisk, Fed

-----------------------------------------------------------------------------
(***************************************************************************)
(* What was told, and what the feed shows, step by step.                   *)
(***************************************************************************)
LEMMA WhoTells ==
  ASSUME [Next]_vars
  PROVE  \/ UNCHANGED <<told, active>>
         \/ CreateSession /\ UNCHANGED told /\ active' = op.session
         \/ TellStarted /\ TellOf(op.session, "started") /\ UNCHANGED active /\ op' = NoOp
         \/ StopSession /\ TellOf(active, "stopped") /\ UNCHANGED active
         \/ /\ RecordStopped \/ (Finalize /\ op.name # "stop")
            /\ TellOf(op.session, "finalized") /\ active' = NoSession
         \/ Crash
<1>1. UNCHANGED vars => UNCHANGED <<told, active>>
  BY DEF vars, engine
<1>2. \A w \in Source : Frame(w) \/ WatchdogFires(w) \/ Writer(w) \/ WriterFault(w)
        => UNCHANGED <<told, active>>
  BY DEF Frame, WatchdogFires, Writer, WriterFault, TakeFrame, TakeSentinel, WriteChunk,
         FinishChunk, WriteFindsDiskFull, WriterDies
<1>3. \/ \E w \in Source : DeviceLost(w) \/ DiskFull(w)
      \/ \E s \in Session : StartSession(s)
      \/ \E k \in Kind : OpenStream(k) \/ CloseSource(k)
      \/ OperationFault \/ RecordDiskLow \/ EndAsync \/ PutSentinel \/ JoinWriter \/ MarkSource
      \/ RecordDeviceLost \/ Recover
      => UNCHANGED <<told, active>>
  BY DEF DeviceLost, DiskFull, StartSession, OpenStream, CloseSource, OperationFault, OpenFails,
         DeviceVanished, CreateFails, OperationFails, RecordDiskLow, EndAsync, PutSentinel,
         JoinWriter, MarkSource, RecordDeviceLost, Recover, RecoverScan, RecoverSource,
         RecoverChunk, RecoverMark, RecoverFinalize, RecoverEvent, engine
<1>4. CreateSession => UNCHANGED told /\ active' = op.session
  BY DEF CreateSession
<1>5. TellStarted => TellOf(op.session, "started") /\ UNCHANGED active /\ op' = NoOp
  BY DEF TellStarted, TellOf
<1>6. StopSession => TellOf(active, "stopped") /\ UNCHANGED active
  BY DEF StopSession, TellOf
<1>7. RecordStopped => TellOf(op.session, "finalized") /\ active' = NoSession
  BY DEF RecordStopped, Release, TellOf
<1>8. Finalize => IF op.name = "stop" THEN UNCHANGED <<told, active>>
                  ELSE TellOf(op.session, "finalized") /\ active' = NoSession
  BY DEF Finalize, Release, TellOf
<1>. QED  BY <1>1, <1>2, <1>3, <1>4, <1>5, <1>6, <1>7, <1>8 DEF Next, Operation

\* An operation is about to tell of a start only right after it wrote the row.
LEMMA StartedFollowsCreate ==
  ASSUME SessionInv, [Next]_vars, op'.pc = "started"
  PROVE  CreateSession \/ UNCHANGED op
<1>0. op \in Op
  BY DEF SessionInv, TypeInv, TypeOK
<1>1. \A w \in Source : Frame(w) \/ WatchdogFires(w) \/ Writer(w) \/ WriterFault(w)
        => UNCHANGED op
  BY DEF Frame, WatchdogFires, Writer, WriterFault, TakeFrame, TakeSentinel, WriteChunk,
         FinishChunk, WriteFindsDiskFull, WriterDies
<1>2. StopSession \/ (\E s \in Session : StartSession(s)) => op'.pc \in {"close", "open"}
  BY DEF StopSession, StartSession, Begin
<1>3. \A v \in Source : DeviceLost(v) => op'.pc \in {"idle", "close"}
  BY DEF DeviceLost, Begin, NoOp
<1>4. \A v \in Source : DiskFull(v) => op'.pc \in {"idle", "disk_low"}
  BY DEF DiskFull, Begin, NoOp
<1>5. OperationFault \/ Crash \/ TellStarted \/ RecordStopped => op'.pc = "idle"
  BY DEF OperationFault, OpenFails, DeviceVanished, CreateFails, OperationFails, Crash,
         TellStarted, RecordStopped, Release, NoOp
<1>6. RecordDiskLow \/ PutSentinel \/ EndAsync => op'.pc \in {"close", "join", "put"}
  BY <1>0 DEF RecordDiskLow, PutSentinel, EndAsync, Op
<1>7. \A k \in Kind : OpenStream(k) \/ CloseSource(k)
                        => op'.pc \in {"open", "create", "rejoin", "end"}
  BY <1>0 DEF OpenStream, CloseSource, Op
<1>8. JoinWriter \/ MarkSource => op'.pc \in {"mark", "finalize", "close", "device_lost"}
  BY <1>0 DEF JoinWriter, MarkSource, NextSource, Op
<1>9. RecordDeviceLost \/ Finalize => op'.pc \in {"finalize", "idle", "stopped"}
  BY <1>0 DEF RecordDeviceLost, Finalize, Release, NoOp, Op
<1>10. Recover \/ UNCHANGED vars => UNCHANGED op
  BY DEF Recover, RecoverScan, RecoverSource, RecoverChunk, RecoverMark, RecoverFinalize,
         RecoverEvent, engine, vars
<1>. QED
  BY <1>1, <1>2, <1>3, <1>4, <1>5, <1>6, <1>7, <1>8, <1>9, <1>10 DEF Next, Operation

LEMMA KeepsTold ==
  ASSUME SessionInv, ToldHolds, [Next]_vars
  PROVE  ToldHolds'
<1>0. /\ told \in [Session -> SUBSET Notification] /\ TypeInv /\ NoSession \notin Session
      /\ Busy => op.session \in Session /\ op.session = active
      /\ active # NoSession => active \in Session /\ StatusOf(active) # "absent"
      /\ op.pc \in {"create", "open"} => op.session \in Session /\ StatusOf(op.session) = "absent"
  <2>1. SessionInvBut
    BY SessionInvIs
  <2>. QED  BY <2>1, InvTypes, CaptureAssumption
            DEF SessionInv, EngineHolds, TypeInv, TypeOK, Starting
<1>1. CreateSession => /\ op.session \in Session /\ StatusOf(op.session) = "absent" /\ UNCHANGED told
                       /\ StatusOf(op.session)' = "active" /\ op'.session = op.session
  <2>1. CreateSession => op'.session = op.session /\ CreateActiveSession(op.session) /\ UNCHANGED told
    BY DEF CreateSession, SessionInv, TypeInv, TypeOK, Op
  <2>2. MetadataTypeOK
    BY <1>0 DEF TypeInv, TypeOK
  <2>3. CreateSession => op.session \in Session /\ StatusOf(op.session) = "absent"
    BY <1>0 DEF CreateSession, AtOp
  <2>. QED  BY <2>1, <2>2, <2>3, StatusSteps DEF StatusOf
<1>2. ASSUME Crash
      PROVE  ToldHolds'
  <2>1. told' = [s \in Session |-> {}] /\ op'.pc = "idle"
    BY <1>2 DEF Crash, NoOp
  <2>. QED  BY <2>1 DEF ToldHolds
<1>3. ASSUME NEW s \in Session, NEW notice, TellOf(s, notice)
      PROVE  \A t \in Session : told'[t] = IF t = s THEN told[t] \cup {notice} ELSE told[t]
  BY <1>0, <1>3 DEF TellOf
<1>4. /\ TellStarted \/ RecordStopped \/ Finalize => Busy
      /\ StopSession => active # NoSession
  BY DEF TellStarted, RecordStopped, Finalize, StopSession, AtOp, Busy
<1>5. ~Crash => \A s \in Session : told'[s] = told[s] \/ s = active
  BY <1>0, <1>3, <1>4, WhoTells
<1>6. ASSUME ~Crash, NEW s \in Session, StatusOf(s)' = "absent"
      PROVE  told'[s] = {}
  <2>1. StatusOf(s) = "absent"
    BY <1>0, <1>6, NeverAbsentAgain
  <2>. QED  BY <1>0, <1>5, <1>6, <2>1 DEF ToldHolds
<1>7. ASSUME ~Crash, op'.pc = "started"
      PROVE  told'[op'.session] = {} /\ StatusOf(op.session)' = "active"
  <2>1. CASE CreateSession
    BY <1>1, <2>1 DEF ToldHolds
  <2>2. CASE ~CreateSession
    <3>1. UNCHANGED op /\ op.pc = "started" /\ op.session \in Session
      BY <1>0, <1>7, <2>2, StartedFollowsCreate DEF Busy
    <3>2. UNCHANGED told
      <4>1. ~TellStarted /\ ~StopSession /\ ~RecordStopped /\ ~Finalize
        BY <3>1 DEF TellStarted, NoOp, StopSession, LockFree, RecordStopped, Finalize, AtOp
      <4>. QED  BY <1>7, <2>2, <4>1, WhoTells
    <3>3. ~RecoverFinalize
      <4>1. Serving
        BY <3>1, OperationServes DEF SessionInv
      <4>. QED  BY <4>1 DEF Serving, RecoverFinalize
    <3>4. StatusOf(op.session)' = StatusOf(op.session)
      BY <1>0, <2>2, <3>1, <3>3, StatusMovesOn DEF StatusMoves, Finalize, AtOp
    <3>. QED  BY <3>1, <3>2, <3>4 DEF ToldHolds
  <2>. QED  BY <2>1, <2>2
<1>8. ASSUME ~Crash, NEW s \in Session, "finalized" \in told'[s]
      PROVE  s # active'
  <2>1. CASE UNCHANGED <<told, active>>
    BY <1>8, <2>1 DEF ToldHolds
  <2>2. CASE CreateSession /\ UNCHANGED told /\ active' = op.session
    BY <1>1, <1>8, <2>2 DEF ToldHolds
  <2>3. CASE TellStarted /\ TellOf(op.session, "started") /\ UNCHANGED active
    <3>1. op.session \in Session /\ "finalized" \in told[s]
      BY <1>0, <1>3, <1>4, <1>8, <2>3
    <3>. QED  BY <2>3, <3>1 DEF ToldHolds
  <2>4. CASE StopSession /\ TellOf(active, "stopped") /\ UNCHANGED active
    <3>1. active \in Session /\ "finalized" \in told[s]
      BY <1>0, <1>3, <1>4, <1>8, <2>4
    <3>. QED  BY <2>4, <3>1 DEF ToldHolds
  <2>5. CASE active' = NoSession
    BY <1>0, <2>5
  <2>. QED  BY <1>8, <2>1, <2>2, <2>3, <2>4, <2>5, WhoTells
<1>. QED  BY <1>2, <1>6, <1>7, <1>8 DEF ToldHolds

-----------------------------------------------------------------------------
(***************************************************************************)
(* What the feed shows moves only with the steps that it has steps for.    *)
(***************************************************************************)
LEMMA FeedStatusIs ==
  ASSUME TypeInv, NEW s \in Session
  PROVE  FeedStatusOf(s) = IF StatusOf(s) = "absent" THEN "absent"
                           ELSE IF StatusOf(s) = "active" /\ Serving THEN "active"
                           ELSE "finished"
<1>1. StatusOf(s) \in SessionStatus
  BY DEF TypeInv, TypeOK, MetadataTypeOK, StatusOf
<1>. QED  BY <1>1 DEF FeedStatusOf, StatusOf, SessionStatus, Finished

LEMMA ShownSame ==
  ASSUME SessionInv, TypeInv', [Next]_vars, ~Crash, ~CreateSession, ~Finalize
  PROVE  UNCHANGED Shown
<1>0. TypeInv /\ TypeInv'
  BY DEF SessionInv
<1>1. CASE UNCHANGED recovery
  <2>1. Serving' = Serving /\ ~RecoverFinalize
    BY <1>1, <1>0 DEF Serving, RecoverFinalize, TypeInv, TypeOK, Recovery
  <2>2. \A s \in Session : StatusOf(s)' = StatusOf(s)
    BY <1>0, <2>1, StatusMovesOn DEF StatusMoves
  <2>3. \A s \in Session : FeedStatusOf(s)' = FeedStatusOf(s)
    BY <2>1, <2>2 DEF FeedStatusOf, StatusOf
  <2>. QED  BY <2>3 DEF Shown
<1>2. CASE Recover
  <2>1. ~Serving
    BY <1>2 DEF Serving, Recover, RecoverScan, RecoverSource, RecoverChunk, RecoverMark,
                RecoverFinalize, RecoverEvent
  <2>2. Serving' => \A s \in Session : StatusOf(s) # "active" /\ StatusOf(s)' = StatusOf(s)
    <3>1. ~RecoverScan /\ Recover => recovery'.pc \in {"source", "chunk", "finalize", "event", "scan"}
      <4>0. recovery \in Recovery
        BY <1>0 DEF TypeInv, TypeOK
      <4>1. \A k \in Kind : RecoverSource(k) => recovery'.pc = "chunk"
        BY <4>0 DEF RecoverSource, Recovery
      <4>2. RecoverChunk => recovery'.pc = "chunk"
        BY <4>0 DEF RecoverChunk, Recovery
      <4>3. RecoverMark => recovery'.pc \in {"source", "finalize"}
        BY <4>0 DEF RecoverMark, Recovery
      <4>4. RecoverFinalize => recovery'.pc = "event"
        BY <4>0 DEF RecoverFinalize, Recovery
      <4>5. RecoverEvent => recovery'.pc = "scan"
        BY DEF RecoverEvent, NoRecovery
      <4>. QED  BY <4>1, <4>2, <4>3, <4>4, <4>5 DEF Recover
    <3>2. RecoverScan => \/ recovery'.pc = "source"
                         \/ \A s \in Session : StatusOf(s) # "active"
      BY <1>0 DEF RecoverScan, TypeInv, TypeOK, Recovery, StatusOf
    <3>3. RecoverScan => UNCHANGED session
      BY DEF RecoverScan, metadata
    <3>. QED  BY <1>2, <3>1, <3>2, <3>3 DEF Serving, StatusOf
  <2>3. ASSUME NEW s \in Session
        PROVE  FeedStatusOf(s)' = FeedStatusOf(s)
    <3>1. StatusOf(s)' = StatusOf(s) \/ (StatusOf(s) = "active" /\ StatusOf(s)' = "interrupted")
      BY <1>0, StatusMovesOn DEF StatusMoves
    <3>2. FeedStatusOf(s) = IF StatusOf(s) = "absent" THEN "absent" ELSE "finished"
      BY <1>0, <2>1, FeedStatusIs
    <3>3. FeedStatusOf(s)' = IF StatusOf(s)' = "absent" THEN "absent"
                             ELSE IF StatusOf(s)' = "active" /\ Serving' THEN "active"
                             ELSE "finished"
      <4>1. StatusOf(s)' \in SessionStatus
        BY <1>0 DEF TypeInv, TypeOK, MetadataTypeOK, StatusOf
      <4>. QED  BY <4>1 DEF FeedStatusOf, StatusOf, SessionStatus, Finished
    <3>. QED  BY <2>2, <3>1, <3>2, <3>3
  <2>. QED  BY <2>3 DEF Shown
<1>. QED  BY <1>1, <1>2, OnlyRecoveryRecovers

LEMMA FedSame ==
  ASSUME AudioInv, [Next]_vars, ~Crash, NEW w \in Source, ~FinishChunk(w)
  PROVE  worker'[w].seq = worker[w].seq
<1>0. SessionInv /\ PutHolds /\ WorkerHolds(w) /\ worker[w] \in Worker
  BY DEF AudioInv, SessionInv, WorkersHold, TypeInv, TypeOK
<1>1. CASE Frame(w) \/ WatchdogFires(w) \/ Writer(w) \/ WriterFault(w)
  BY <1>0, <1>1, WriterProgress DEF Kept, TookOrGaveUp, Wrote, Counted, Worker
<1>2. CASE Touched(worker[w], worker'[w])
  BY <1>0, <1>2 DEF Touched, Worker
<1>3. CASE StatusOf(SessionOf(w)) = "absent" /\ (worker'[w] = NewWorker \/ worker'[w] = NoWorker)
  <2>1. worker[w].seq = 0
    BY <1>0, <1>3 DEF WorkerHolds, Ready, NoWorker
  <2>2. NewWorker.seq = 0 /\ NoWorker.seq = 0
    BY DEF NewWorker, NoWorker
  <2>. QED  BY <1>3, <2>1, <2>2
<1>4. CASE worker'[w] = [worker[w] EXCEPT !.pc = "get"]
  BY <1>0, <1>4 DEF Worker
<1>. QED  BY <1>0, <1>1, <1>2, <1>3, <1>4, OtherChanges

\* Neither the chunks on disk nor those told of move but in the steps that say so.
LEMMA ChunksSame ==
  ASSUME AudioInv, AudioInv', [Next]_vars, ~Crash
  PROVE  /\ \A w \in Source : ~FinishChunk(w) => Fed'[w] = Fed[w]
         /\ \A w \in Source : ~Wrote(w) => OnDisk'[w] = OnDisk[w]
         /\ (\A w \in Source : ~FinishChunk(w)) => UNCHANGED Fed
         /\ (\A w \in Source : ~Wrote(w)) => UNCHANGED OnDisk
<1>1. \A w \in Source : ~FinishChunk(w) => worker'[w].seq = worker[w].seq
  BY FedSame
<1>2. \A w \in Source : ~Wrote(w) => Cardinality(file'[w]) = Cardinality(file[w])
  BY FileKept
<1>. QED  BY <1>1, <1>2 DEF Fed, OnDisk

-----------------------------------------------------------------------------
(***************************************************************************)
(* The steps, each a step of the feed.  First what keeps the pictures the  *)
(* same when a step leaves the variables behind them alone.                *)
(***************************************************************************)
LEMMA PicturesSame ==
  /\ UNCHANGED recovery /\ (\A s \in Session : StatusOf(s)' = StatusOf(s)) => UNCHANGED Shown
  /\ UNCHANGED file => UNCHANGED OnDisk
  /\ (\A w \in Source : worker'[w].seq = worker[w].seq) => UNCHANGED Fed
<1>1. ASSUME UNCHANGED recovery, \A s \in Session : StatusOf(s)' = StatusOf(s)
      PROVE  UNCHANGED Shown
  <2>1. \A s \in Session : FeedStatusOf(s)' = FeedStatusOf(s)
    BY <1>1 DEF FeedStatusOf, StatusOf, Serving
  <2>. QED  BY <2>1 DEF Shown
<1>. QED  BY <1>1 DEF OnDisk, Fed

\* A writer's session is shown active.
LEMMA WriterIsShown ==
  ASSUME FeedInv, NEW w \in Source, worker[w].pc \in {"get", "write", "record"}
  PROVE  Shown[SessionOf(w)] = "active"
<1>1. StatusOf(SessionOf(w)) = "active" /\ SessionOf(w) \in Session /\ SessionInv
  BY WritersOfActive, SourceIs DEF FeedInv
<1>2. Serving
  BY <1>1 DEF SessionInv, Quiet, NoWorker
<1>. QED  BY <1>1, <1>2, FeedStatusIs DEF Shown, SessionInv

LEMMA FeedWriteChunk ==
  ASSUME FeedInv, NEW w \in Source, WriteChunk(w)
  PROVE  [Feed!FeedNext]_(Feed!feed)
<1>0. SessionInv /\ AudioInv /\ worker \in [Source -> Worker] /\ file \in [Source -> SUBSET Chunk]
  BY DEF FeedInv, SessionInv, TypeInv, TypeOK
<1>1. /\ worker[w].pc = "write" /\ UNCHANGED <<metadata, told, recovery>>
      /\ worker' = [worker EXCEPT ![w].pc = "record"]
      /\ \A v \in Source : v # w => file'[v] = file[v]
  BY <1>0 DEF WriteChunk
<1>2. Wrote(w)
  BY <1>0, <1>1 DEF Wrote, Worker
<1>3. UNCHANGED Shown
  BY <1>1, PicturesSame DEF StatusOf, metadata
<1>4. UNCHANGED Fed
  <2>1. \A v \in Source : worker'[v].seq = worker[v].seq
    BY <1>0, <1>1 DEF Worker
  <2>. QED  BY <2>1, PicturesSame
<1>5. OnDisk[w] = Fed[w] /\ OnDisk' = [OnDisk EXCEPT ![w] = @ + 1]
  <2>1. Cardinality(file[w]) = worker[w].seq /\ Cardinality(file'[w]) = Cardinality(file[w]) + 1
    BY <1>0, <1>2, FileAdded DEF NumberOf
  <2>. QED  BY <1>1, <2>1 DEF OnDisk, Fed
<1>6. Shown[SessionOf(w)] = "active"
  BY <1>1, WriterIsShown
<1>. QED  BY <1>1, <1>3, <1>4, <1>5, <1>6, FeedSteps

LEMMA FeedFinishChunk ==
  ASSUME FeedInv, NEW w \in Source, FinishChunk(w)
  PROVE  [Feed!FeedNext]_(Feed!feed)
<1>0. /\ SessionInv /\ AudioInv /\ worker \in [Source -> Worker] /\ MetadataTypeOK
      /\ SeqHolds(w)
  BY DEF FeedInv, SessionInv, TypeInv, TypeOK, AudioInv, ChunksHold
<1>1. /\ worker[w].pc = "record" /\ UNCHANGED <<file, told, recovery>>
      /\ RecordChunk(w, [seq |-> worker[w].seq, size |-> worker[w].out])
      /\ \A v \in Source : v # w => worker'[v] = worker[v]
  BY <1>0 DEF FinishChunk
<1>2. worker'[w].seq = worker[w].seq + 1
  BY <1>0, CountsChunk DEF Counted
<1>3. UNCHANGED Shown
  <2>1. \A s \in Session : StatusOf(s)' = StatusOf(s)
    BY <1>0, <1>1, StatusSteps DEF StatusOf
  <2>. QED  BY <1>1, <2>1, PicturesSame
<1>4. UNCHANGED OnDisk
  BY <1>1, PicturesSame
<1>5. OnDisk[w] = Fed[w] + 1
  BY <1>0, <1>1 DEF SeqHolds, NumberOf, OnDisk, Fed
<1>6. Fed' = [Fed EXCEPT ![w] = @ + 1]
  BY <1>1, <1>2 DEF Fed
<1>7. Shown[SessionOf(w)] = "active"
  BY <1>1, WriterIsShown
<1>. QED  BY <1>1, <1>3, <1>4, <1>5, <1>6, <1>7, FeedSteps

LEMMA FeedCreate ==
  ASSUME FeedInv, TypeInv', CreateSession
  PROVE  [Feed!FeedNext]_(Feed!feed)
<1>0. /\ SessionInv /\ TypeInv /\ worker \in [Source -> Worker] /\ MetadataTypeOK
      /\ op.session \in Session /\ StatusOf(op.session) = "absent" /\ Serving
  <2>1. AtOp("create") /\ SessionInv /\ TypeInv
    BY DEF CreateSession, FeedInv, SessionInv
  <2>. QED  BY <2>1, OperationServes
            DEF AtOp, SessionInv, EngineHolds, Starting, TypeInv, TypeOK
<1>1. /\ CreateActiveSession(op.session) /\ UNCHANGED <<file, told, recovery>>
      /\ worker' = [w \in Source |-> IF SessionOf(w) = op.session
                                       THEN [worker[w] EXCEPT !.pc = "get"]
                                       ELSE worker[w]]
  BY DEF CreateSession
<1>2. \A t \in Session : StatusOf(t) # "active"
  BY <1>1 DEF CreateActiveSession, StatusOf
<1>3. \A t \in Session : StatusOf(t)' = IF t = op.session THEN "active" ELSE StatusOf(t)
  BY <1>0, <1>1, StatusSteps DEF StatusOf
<1>4. \A t \in Session : FeedStatusOf(t)' = IF t = op.session THEN "active" ELSE FeedStatusOf(t)
  BY <1>0, <1>1, <1>3 DEF FeedStatusOf, StatusOf, Serving, Finished
<1>5. \A t \in Session : Shown[t] # "active"
  BY <1>0, <1>2, FeedStatusIs DEF Shown
<1>6. Shown[op.session] = "absent" /\ Shown' = [Shown EXCEPT ![op.session] = "active"]
  BY <1>0, <1>4, FeedStatusIs DEF Shown
<1>7. UNCHANGED Fed
  <2>1. \A w \in Source : worker'[w].seq = worker[w].seq
    BY <1>0, <1>1 DEF Worker
  <2>. QED  BY <2>1, PicturesSame
<1>8. UNCHANGED OnDisk
  BY <1>1, PicturesSame
<1>. QED  BY <1>0, <1>1, <1>5, <1>6, <1>7, <1>8, FeedSteps

LEMMA FeedTold ==
  ASSUME FeedInv, TellStarted \/ StopSession \/ RecordStopped
  PROVE  [Feed!FeedNext]_(Feed!feed)
<1>0. /\ SessionInv /\ TypeInv /\ MetadataTypeOK /\ ToldHolds
      /\ NoSession \notin Session
      /\ active # NoSession => active \in Session /\ StatusOf(active) \in {"active", "completed"}
      /\ Busy => op.session = active /\ active \in Session
  BY CaptureAssumption DEF FeedInv, SessionInv, TypeInv, TypeOK, EngineHolds
<1>1. UNCHANGED <<Shown, OnDisk, Fed>>
  <2>1. UNCHANGED <<file, recovery, worker>>
    BY DEF TellStarted, StopSession, RecordStopped, metadata
  <2>2. \A s \in Session : StatusOf(s)' = StatusOf(s)
    BY <1>0, StatusSteps DEF StatusOf, TellStarted, StopSession, RecordStopped
  <2>. QED  BY <2>1, <2>2, PicturesSame
<1>2. CASE TellStarted
  <2>1. /\ op.session \in Session /\ StatusOf(op.session) = "active" /\ Serving
        /\ told[op.session] = {} /\ TellOf(op.session, "started")
    BY <1>0, <1>2, OperationServes DEF TellStarted, AtOp, Busy, ToldHolds, TellOf, SessionInv
  <2>2. Shown[op.session] = "active"
    BY <1>0, <2>1, FeedStatusIs DEF Shown
  <2>. QED  BY <1>1, <2>1, <2>2, FeedSteps
<1>3. CASE StopSession
  <2>1. /\ active \in Session /\ StatusOf(active) # "absent"
        /\ "finalized" \notin told[active] /\ TellOf(active, "stopped")
    BY <1>0, <1>3 DEF StopSession, ToldHolds, TellOf
  <2>2. Shown[active] # "absent"
    BY <1>0, <2>1, FeedStatusIs DEF Shown
  <2>. QED  BY <1>1, <2>1, <2>2, FeedSteps
<1>4. CASE RecordStopped
  <2>1. /\ op.session \in Session /\ StatusOf(op.session) = "completed"
        /\ "finalized" \notin told[op.session] /\ TellOf(op.session, "finalized")
    BY <1>0, <1>4 DEF RecordStopped, Release, AtOp, Busy, ToldHolds, TellOf, SessionInv, EngineHolds
  <2>2. Shown[op.session] = "finished"
    BY <1>0, <2>1, FeedStatusIs DEF Shown
  <2>. QED  BY <1>1, <2>1, <2>2, FeedSteps
<1>. QED  BY <1>2, <1>3, <1>4

\* A session that an earlier end finished already, before the database failed it, is only told of.
LEMMA FeedFinalize ==
  ASSUME FeedInv, TypeInv', Finalize
  PROVE  [Feed!FeedNext]_(Feed!feed)
<1>0. /\ SessionInv /\ TypeInv /\ MetadataTypeOK /\ ToldHolds
      /\ op.session \in Session /\ op.session = active /\ Serving
      /\ StatusOf(op.session) \in {"active", "completed"} /\ NoSession \notin Session
  <2>1. AtOp("finalize") /\ SessionInv /\ TypeInv
    BY DEF Finalize, FeedInv, SessionInv
  <2>. QED  BY <2>1, OperationServes, CaptureAssumption
            DEF AtOp, SessionInv, EngineHolds, Busy, TypeInv, TypeOK, FeedInv
<1>1. UNCHANGED <<file, recovery, worker>>
  BY DEF Finalize
<1>2. UNCHANGED OnDisk /\ UNCHANGED Fed
  BY <1>1, PicturesSame
<1>3. \A t \in Session : StatusOf(t)' = IF t = op.session THEN "completed" ELSE StatusOf(t)
  <2>1. PICK d : FinalizeSession(op.session, "completed", d)
    BY DEF Finalize
  <2>. QED  BY <1>0, <2>1, StatusSteps DEF StatusOf
<1>4. \A t \in Session : FeedStatusOf(t)' = IF t = op.session THEN "finished" ELSE FeedStatusOf(t)
  BY <1>1, <1>3 DEF FeedStatusOf, StatusOf, Serving, Finished
<1>5. "finalized" \notin told[op.session]
  BY <1>0 DEF ToldHolds
<1>6. UNCHANGED told \/ TellOf(op.session, "finalized")
  BY DEF Finalize, Release, TellOf
<1>7. CASE StatusOf(op.session) = "active"
  <2>1. Shown[op.session] = "active" /\ Shown' = [Shown EXCEPT ![op.session] = "finished"]
    BY <1>0, <1>4, <1>7, FeedStatusIs DEF Shown
  <2>. QED  BY <1>0, <1>2, <1>6, <2>1, FeedSteps
<1>8. CASE StatusOf(op.session) = "completed"
  <2>1. Shown[op.session] = "finished" /\ UNCHANGED Shown
    BY <1>0, <1>4, <1>8, FeedStatusIs DEF Shown
  <2>. QED  BY <1>0, <1>2, <1>5, <1>6, <2>1, FeedSteps DEF SameFeed
<1>. QED  BY <1>0, <1>7, <1>8

LEMMA FeedCrash ==
  ASSUME FeedInv, TypeInv', Crash
  PROVE  [Feed!FeedNext]_(Feed!feed)
<1>0. TypeInv /\ TypeInv'
  BY DEF FeedInv, SessionInv
<1>1. /\ UNCHANGED <<session, file>> /\ ~Serving'
      /\ told' = [s \in Session |-> {}] /\ worker' = [w \in Source |-> NoWorker]
  BY DEF Crash, metadata, Serving, NoRecovery
<1>2. Fed' = [w \in Source |-> 0]
  BY <1>1 DEF Fed, NoWorker
<1>3. UNCHANGED OnDisk
  BY <1>1, PicturesSame
<1>4. ASSUME NEW s \in Session
      PROVE  FeedStatusOf(s)' = IF FeedStatusOf(s) = "active" THEN "finished" ELSE FeedStatusOf(s)
  <2>1. FeedStatusOf(s)' = IF StatusOf(s) = "absent" THEN "absent" ELSE "finished"
    <3>1. StatusOf(s) \in SessionStatus
      BY <1>0 DEF TypeInv, TypeOK, MetadataTypeOK, StatusOf
    <3>. QED  BY <1>1, <3>1 DEF FeedStatusOf, StatusOf, SessionStatus, Finished
  <2>. QED  BY <1>0, <2>1, FeedStatusIs
<1>5. Shown' = [s \in Session |-> IF Shown[s] = "active" THEN "finished" ELSE Shown[s]]
  BY <1>4 DEF Shown
<1>. QED  BY <1>1, <1>2, <1>3, <1>5, FeedSteps

LEMMA StepFeed ==
  ASSUME FeedInv, FeedInv', [Next]_vars
  PROVE  [Feed!FeedNext]_(Feed!feed)
<1>0. SessionInv /\ AudioInv /\ AudioInv' /\ TypeInv /\ TypeInv'
  BY DEF FeedInv, SessionInv
<1>1. CASE Crash \/ CreateSession \/ Finalize \/ TellStarted \/ StopSession \/ RecordStopped
  BY <1>0, <1>1, FeedCrash, FeedCreate, FeedFinalize, FeedTold
<1>2. CASE \E w \in Source : WriteChunk(w) \/ FinishChunk(w)
  BY <1>2, FeedWriteChunk, FeedFinishChunk
<1>3. CASE /\ ~Crash /\ ~CreateSession /\ ~Finalize /\ ~TellStarted /\ ~StopSession
           /\ ~RecordStopped /\ \A w \in Source : ~WriteChunk(w) /\ ~FinishChunk(w)
  <2>1. UNCHANGED Shown
    BY <1>0, <1>3, ShownSame
  <2>2. UNCHANGED told
    BY <1>0, <1>3, WhoTells
  <2>3. \A w \in Source : ~Wrote(w)
    BY <1>3 DEF Wrote
  <2>4. UNCHANGED OnDisk /\ UNCHANGED Fed
    BY <1>0, <1>3, <2>3, ChunksSame
  <2>. QED  BY <2>1, <2>2, <2>4, FeedSteps DEF SameFeed
<1>. QED  BY <1>1, <1>2, <1>3

(***************************************************************************)
(* The engine implements the feed: whatever threads, faults and crashes    *)
(* interleave, an observer sees one session at a time, its start told at   *)
(* most once and before its end, every chunk on disk before it is told of, *)
(* in order, and nothing of a session after it finished.  Join timeouts    *)
(* aside: a writer that outlives its session still tells of chunks.        *)
(***************************************************************************)
THEOREM EngineImplementsFeed ==
  ASSUME "timeout" \notin Faults
  PROVE  Spec => ImplementsFeed
<1>1. Init => FeedInv
  <2>1. ASSUME Init PROVE ToldHolds
    BY <2>1, CaptureAssumption DEF Init, ToldHolds, NoOp, MetadataInit, StatusOf
  <2>. QED  BY <2>1, SessionInvInductive, AudioInvInductive, JoinedInductive DEF FeedInv
<1>2. FeedInv /\ [Next]_vars => FeedInv'
  BY SessionInvInductive, AudioInvInductive, JoinedInductive, KeepsTold DEF FeedInv
<1>3. Init => Feed!FeedInit
  <2>1. ASSUME Init
        PROVE  /\ Shown = [s \in Session |-> "absent"] /\ told = [s \in Session |-> {}]
               /\ OnDisk = [w \in Source |-> 0] /\ Fed = [w \in Source |-> 0]
    <3>1. \A s \in Session : FeedStatusOf(s) = "absent"
      BY <2>1 DEF Init, MetadataInit, FeedStatusOf, Finished
    <3>2. Cardinality({}) = 0
      BY FS_EmptySet
    <3>. QED  BY <2>1, <3>1, <3>2 DEF Init, Shown, OnDisk, Fed, NoWorker
  <2>. QED  BY <2>1, FeedIs
<1>4. FeedInv /\ FeedInv' /\ [Next]_vars => [Feed!FeedNext]_(Feed!feed)
  BY StepFeed
<1>. QED  BY <1>1, <1>2, <1>3, <1>4, PTL DEF Spec, ImplementsFeed, Feed!FeedSpec
=============================================================================
