---------------------------- MODULE GroundingProofs ----------------------------
(***************************************************************************)
(* What TLAPS proves of Grounding: that no citation is made up, and that   *)
(* prompts hold every segment once and fit, for any transcript, budget,    *)
(* window and replies of the model.                                        *)
(***************************************************************************)
EXTENDS Grounding, OrderLemmas, SequenceTheorems

-----------------------------------------------------------------------------
(***************************************************************************)
(* Folds from the left: what TLAPS needs to know of FoldLeft.  The         *)
(* community modules define it by a recursive function on the sets of      *)
(* places; that there is such a function is proved here, one place at a    *)
(* time.  st is the step as a function.                                    *)
(***************************************************************************)
FoldBody(g, st, base, items, s) ==
  IF s = {} THEN base ELSE st[<<g[s \ {Max(s)}], items[Max(s)]>>]

FoldsOver(g, A, st, base, items) ==
  /\ g \in [SUBSET DOMAIN items -> A]
  /\ \A s \in SUBSET DOMAIN items : g[s] = FoldBody(g, st, base, items, s)

LEMMA MaxOfSome ==
  ASSUME NEW n \in Nat, NEW s \in SUBSET (1..n), s # {}
  PROVE  Max(s) \in s /\ (n \in s => Max(s) = n)
<1>1. s \in SUBSET (0..n)
  OBVIOUS
<1>2. Max(s) \in s /\ \A j \in s : j <= Max(s)
  BY <1>1, MaxIs
<1>. HIDE DEF Max
<1>3. ASSUME n \in s
      PROVE  Max(s) = n
  <2>1. n <= Max(s) /\ Max(s) \in 1..n
    BY <1>2, <1>3
  <2>. QED  BY <2>1
<1>. QED  BY <1>2, <1>3

LEMMA FoldExists ==
  ASSUME NEW A, NEW X, NEW base \in A, NEW st \in [A \X X -> A], NEW items \in Seq(X)
  PROVE  \E g : FoldsOver(g, A, st, base, items)
<1>. DEFINE len == Len(items)
            Folds(g, n) == /\ g \in [SUBSET (1..n) -> A]
                           /\ \A s \in SUBSET (1..n) : g[s] = FoldBody(g, st, base, items, s)
            P == {n \in Nat : \E g : Folds(g, n)}
<1>1. len \in Nat /\ DOMAIN items = 1..len /\ \A i \in 1..len : items[i] \in X
  OBVIOUS
<1>2. 0 \in P
  <2>. DEFINE g == [s \in SUBSET (1..0) |-> base]
  <2>1. \A s \in SUBSET (1..0) : s = {}
    OBVIOUS
  <2>2. Folds(g, 0)
    BY <2>1 DEF FoldBody
  <2>. HIDE DEF g, Folds
  <2>. QED  BY <2>2
<1>3. ASSUME NEW k \in 1..len, k - 1 \in P
      PROVE  k \in P
  <2>1. PICK g : Folds(g, k - 1)
    BY <1>3
  <2>. DEFINE h == [s \in SUBSET (1..k) |->
                      IF k \in s THEN st[<<g[s \ {k}], items[k]>>] ELSE g[s]]
  <2>2. \A s \in SUBSET (1..k) : s \ {k} \in SUBSET (1..(k - 1))
    OBVIOUS
  <2>3. \A s \in SUBSET (1..k) : k \notin s => s \in SUBSET (1..(k - 1))
    OBVIOUS
  <2>4. \A s \in SUBSET (1..(k - 1)) : s \in SUBSET (1..k) /\ k \notin s
    OBVIOUS
  <2>5. \A s \in SUBSET (1..(k - 1)) : h[s] = g[s] /\ g[s] \in A
    BY <2>1, <2>4
  <2>6. ASSUME NEW s \in SUBSET (1..k)
        PROVE  h[s] \in A /\ h[s] = FoldBody(h, st, base, items, s)
    <3>1. CASE k \in s
      <4>1. Max(s) = k /\ s # {}
        BY <3>1, MaxOfSome
      <4>2. h[s] = st[<<g[s \ {k}], items[k]>>] /\ h[s \ {k}] = g[s \ {k}] /\ g[s \ {k}] \in A
        BY <2>2, <2>5, <3>1
      <4>. HIDE DEF h
      <4>. QED  BY <1>1, <1>3, <4>1, <4>2 DEF FoldBody
    <3>2. CASE k \notin s
      <4>1. s \in SUBSET (1..(k - 1)) /\ h[s] = g[s] /\ g[s] \in A
        BY <2>3, <2>5, <3>2
      <4>2. g[s] = FoldBody(g, st, base, items, s)
        BY <2>1, <4>1
      <4>3. s # {} => s \ {Max(s)} \in SUBSET (1..(k - 1))
        BY <4>1
      <4>4. s # {} => h[s \ {Max(s)}] = g[s \ {Max(s)}]
        BY <2>5, <4>3
      <4>. HIDE DEF h
      <4>. QED  BY <4>1, <4>2, <4>4 DEF FoldBody
    <3>. QED  BY <3>1, <3>2
  <2>7. h \in [SUBSET (1..k) -> A]
    <3>1. \A s \in SUBSET (1..k) : h[s] \in A
      BY <2>6
    <3>2. h = [s \in SUBSET (1..k) |-> h[s]]
      OBVIOUS
    <3>. HIDE DEF h
    <3>. QED  BY <3>1, <3>2
  <2>8. Folds(h, k)
    <3>. HIDE DEF h
    <3>. QED  BY <2>6, <2>7
  <2>. HIDE DEF h, Folds
  <2>. QED  BY <2>8
<1>4. len \in P
  <2>. HIDE DEF P, len
  <2>1. \A k \in 0..len : k \in P
    BY <1>1, <1>2, <1>3, Counts
  <2>. QED  BY <1>1, <2>1
<1>. QED  BY <1>1, <1>4 DEF FoldsOver

\* The prefixes of the places: what a fold computes of them, one place more at a time.
LEMMA FirstPlaces ==
  ASSUME NEW n \in Nat, NEW k \in 1..n
  PROVE  /\ 1..k \in SUBSET (1..n)
         /\ 1..(k - 1) \in SUBSET (1..n)
         /\ 1..k # {}
         /\ Max(1..k) = k
         /\ (1..k) \ {k} = 1..(k - 1)
<1>1. k \in Nat /\ k \in 1..k /\ (1..k) \in SUBSET (1..k) /\ (1..k) # {}
  OBVIOUS
<1>2. Max(1..k) = k
  BY <1>1, MaxOfSome
<1>3. (1..k) \ {k} = 1..(k - 1)
  OBVIOUS
<1>4. (1..k) \in SUBSET (1..n) /\ (1..(k - 1)) \in SUBSET (1..n)
  OBVIOUS
<1>. QED  BY <1>1, <1>2, <1>3, <1>4

-----------------------------------------------------------------------------
(***************************************************************************)
(* What a fold computes of the first places, one more at a time.           *)
(***************************************************************************)
Runs(run, A, st, base, items) ==
  /\ run \in [0..Len(items) -> A] /\ run[0] = base
  /\ \A k \in 1..Len(items) : run[k] = st[<<run[k - 1], items[k]>>]

RunEnds(end, A, st, base, items) ==
  \E run : Runs(run, A, st, base, items) /\ run[Len(items)] = end

LEMMA FoldRuns ==
  ASSUME NEW A, NEW X, NEW base \in A, NEW st \in [A \X X -> A], NEW items \in Seq(X),
         NEW iter, iter[{}] = base,
         \A k \in 1..Len(items) : iter[1..(k - 1)] \in A =>
           iter[1..k] = st[<<iter[1..(k - 1)], items[k]>>]
  PROVE  RunEnds(iter[DOMAIN items], A, st, base, items)
<1>. DEFINE len == Len(items)
            run == [k \in 0..len |-> iter[1..k]]
            P == {k \in 0..len : run[k] \in A}
<1>1. len \in Nat /\ DOMAIN items = 1..len /\ \A k \in 1..len : items[k] \in X
  OBVIOUS
<1>2. run[0] = base
  <2>1. (1..0) = {} /\ 0 \in 0..len
    BY <1>1
  <2>. QED  BY <2>1
<1>3. \A k \in 1..len : run[k - 1] \in A => run[k] = st[<<run[k - 1], items[k]>>]
  BY <1>1
<1>. HIDE DEF run
<1>4. \A k \in 0..len : k \in P
  <2>1. 0 \in P
    BY <1>1, <1>2
  <2>2. ASSUME NEW k \in 1..len, k - 1 \in P
        PROVE  k \in P
    <3>1. run[k - 1] \in A /\ items[k] \in X /\ k \in 0..len
      BY <1>1, <2>2
    <3>. QED  BY <1>3, <3>1
  <2>. HIDE DEF P
  <2>. QED  BY <1>1, <2>1, <2>2, Counts
<1>5. run \in [0..len -> A] /\ run[len] = iter[DOMAIN items]
  <2>1. run = [k \in 0..len |-> run[k]]
    BY DEF run
  <2>2. run[len] = iter[DOMAIN items]
    BY <1>1 DEF run
  <2>. QED  BY <1>4, <2>1, <2>2
<1>. QED  BY <1>2, <1>3, <1>4, <1>5 DEF Runs, RunEnds

-----------------------------------------------------------------------------
(***************************************************************************)
(* Each fold of the model has its run: the recursive function is one,      *)
(* because there is one.                                                   *)
(***************************************************************************)
Packing(X) == [out : Seq(Seq(X)), cur : Seq(X), size : Nat]
NoPack == [out |-> <<>>, cur |-> <<>>, size |-> 0]
PackStep(X, size) == [p \in Packing(X) \X X |-> Pack(p[1], p[2], size)]

LEMMA PackIs ==
  ASSUME NEW X, NEW size \in [X -> Nat]
  PROVE  NoPack \in Packing(X) /\ PackStep(X, size) \in [Packing(X) \X X -> Packing(X)]
<1>1. NoPack \in Packing(X)
  BY DEF NoPack, Packing
<1>2. ASSUME NEW acc \in Packing(X), NEW x \in X
      PROVE  Pack(acc, x, size) \in Packing(X)
  BY GroundingAssumption DEF Packing, Pack
<1>. QED  BY <1>1, <1>2 DEF PackStep

LEMMA PackRuns ==
  ASSUME NEW X, NEW size \in [X -> Nat], NEW items \in Seq(X)
  PROVE  \E run : /\ Runs(run, Packing(X), PackStep(X, size), NoPack, items)
                 /\ Packed(items, size) = Flushed(run[Len(items)])
<1>. DEFINE Body(g, s) == IF s = {} THEN NoPack
                          ELSE Pack(g[s \ {Max(s)}], items[Max(s)], size)
            D == SUBSET DOMAIN items
            Folds(g) == g = [s \in D |-> Body(g, s)]
            iter == CHOOSE g : Folds(g)
            st == PackStep(X, size)
            len == Len(items)
<1>1. Packed(items, size) = Flushed(iter[DOMAIN items])
  BY DEF Packed, FoldLeft, MapThenFoldSet, NoPack
<1>2. NoPack \in Packing(X) /\ st \in [Packing(X) \X X -> Packing(X)]
  BY PackIs
<1>3. PICK g : FoldsOver(g, Packing(X), st, NoPack, items)
  <2>. HIDE DEF st, Body, iter, Folds
  <2>. QED  BY <1>2, FoldExists
<1>4. DOMAIN items = 1..len /\ len \in Nat /\ \A k \in 1..len : items[k] \in X
  OBVIOUS
<1>5. \A y \in Packing(X), x \in X : st[<<y, x>>] = Pack(y, x, size)
  BY DEF PackStep
<1>. HIDE DEF st
<1>6. ASSUME NEW s \in D
      PROVE  g[s] = Body(g, s)
  <2>1. CASE s = {}
    BY <1>3, <2>1 DEF FoldsOver, FoldBody
  <2>2. CASE s # {}
    <3>1. Max(s) \in DOMAIN items
      BY <1>4, <2>2, MaxOfSome
    <3>2. items[Max(s)] \in X /\ g[s \ {Max(s)}] \in Packing(X)
      BY <1>3, <1>4, <3>1 DEF FoldsOver
    <3>. QED  BY <1>3, <1>5, <2>2, <3>2 DEF FoldsOver, FoldBody
  <2>. QED  BY <2>1, <2>2
<1>7. Folds(g)
  <2>1. g = [s \in D |-> g[s]]
    BY <1>3 DEF FoldsOver
  <2>. HIDE DEF Body
  <2>. QED  BY <1>6, <2>1
<1>8. Folds(iter)
  <2>. HIDE DEF Folds
  <2>. QED  BY <1>7
<1>9. \A s \in D : iter[s] = Body(iter, s)
  <2>. HIDE DEF iter, Body
  <2>. QED  BY <1>8
<1>. HIDE DEF iter
<1>10. iter[{}] = NoPack
  BY <1>9
<1>11. ASSUME NEW k \in 1..len, iter[1..(k - 1)] \in Packing(X)
       PROVE  iter[1..k] = st[<<iter[1..(k - 1)], items[k]>>]
  <2>1. 1..k \in D /\ 1..k # {} /\ Max(1..k) = k /\ (1..k) \ {k} = 1..(k - 1)
    BY <1>4, FirstPlaces
  <2>2. iter[1..k] = Pack(iter[1..(k - 1)], items[k], size)
    BY <1>9, <2>1
  <2>. QED  BY <1>4, <1>5, <1>11, <2>2
<1>. QED
  <2>1. RunEnds(iter[DOMAIN items], Packing(X), st, NoPack, items)
    <3>. HIDE DEF Body, D, Folds
    <3>1. \A k \in 1..Len(items) : iter[1..(k - 1)] \in Packing(X) =>
            iter[1..k] = st[<<iter[1..(k - 1)], items[k]>>]
      BY <1>11
    <3>. QED  BY <1>2, <1>10, <3>1, FoldRuns
  <2>. QED  BY <1>1, <2>1 DEF st, RunEnds

SizeStep(X, size) == [p \in Nat \X X |-> p[1] + size[p[2]]]

LEMMA SizeRuns ==
  ASSUME NEW X, NEW size \in [X -> Nat], NEW items \in Seq(X)
  PROVE  \E run : /\ Runs(run, Nat, SizeStep(X, size), 0, items)
                 /\ SizeOf(items, size) = run[Len(items)]
<1>. DEFINE Body(g, s) == IF s = {} THEN 0
                          ELSE g[s \ {Max(s)}] + size[items[Max(s)]]
            D == SUBSET DOMAIN items
            Folds(g) == g = [s \in D |-> Body(g, s)]
            iter == CHOOSE g : Folds(g)
            st == SizeStep(X, size)
            len == Len(items)
<1>1. SizeOf(items, size) = iter[DOMAIN items]
  BY DEF SizeOf, FoldLeft, MapThenFoldSet
<1>2. 0 \in Nat /\ st \in [Nat \X X -> Nat]
  BY DEF SizeStep
<1>3. PICK g : FoldsOver(g, Nat, st, 0, items)
  <2>. HIDE DEF st, Body, iter, Folds
  <2>. QED  BY <1>2, FoldExists
<1>4. DOMAIN items = 1..len /\ len \in Nat /\ \A k \in 1..len : items[k] \in X
  OBVIOUS
<1>5. \A y \in Nat, x \in X : st[<<y, x>>] = y + size[x]
  BY DEF SizeStep
<1>. HIDE DEF st
<1>6. ASSUME NEW s \in D
      PROVE  g[s] = Body(g, s)
  <2>1. CASE s = {}
    BY <1>3, <2>1 DEF FoldsOver, FoldBody
  <2>2. CASE s # {}
    <3>1. Max(s) \in DOMAIN items
      BY <1>4, <2>2, MaxOfSome
    <3>2. items[Max(s)] \in X /\ g[s \ {Max(s)}] \in Nat
      BY <1>3, <1>4, <3>1 DEF FoldsOver
    <3>. QED  BY <1>3, <1>5, <2>2, <3>2 DEF FoldsOver, FoldBody
  <2>. QED  BY <2>1, <2>2
<1>7. Folds(g)
  <2>1. g = [s \in D |-> g[s]]
    BY <1>3 DEF FoldsOver
  <2>. HIDE DEF Body
  <2>. QED  BY <1>6, <2>1
<1>8. Folds(iter)
  <2>. HIDE DEF Folds
  <2>. QED  BY <1>7
<1>9. \A s \in D : iter[s] = Body(iter, s)
  <2>. HIDE DEF iter, Body
  <2>. QED  BY <1>8
<1>. HIDE DEF iter
<1>10. iter[{}] = 0
  BY <1>9
<1>11. ASSUME NEW k \in 1..len, iter[1..(k - 1)] \in Nat
       PROVE  iter[1..k] = st[<<iter[1..(k - 1)], items[k]>>]
  <2>1. 1..k \in D /\ 1..k # {} /\ Max(1..k) = k /\ (1..k) \ {k} = 1..(k - 1)
    BY <1>4, FirstPlaces
  <2>2. iter[1..k] = iter[1..(k - 1)] + size[items[k]]
    BY <1>9, <2>1
  <2>. QED  BY <1>4, <1>5, <1>11, <2>2
<1>. QED
  <2>1. RunEnds(iter[DOMAIN items], Nat, st, 0, items)
    <3>. HIDE DEF Body, D, Folds
    <3>1. \A k \in 1..Len(items) : iter[1..(k - 1)] \in Nat =>
            iter[1..k] = st[<<iter[1..(k - 1)], items[k]>>]
      BY <1>11
    <3>. QED  BY <1>2, <1>10, <3>1, FoldRuns
  <2>. QED  BY <1>1, <2>1 DEF st, RunEnds

-----------------------------------------------------------------------------
(***************************************************************************)
(* The orders in which segments are taken.                                 *)
(***************************************************************************)
LEMMA InOrderIs ==
  ASSUME NEW S, NEW R, IsFiniteSet(S), Orders(R, S)
  PROVE  Lists(InOrder(S, R), R, S)
<1>. DEFINE f == InOrder(S, R)
            nth(n) == CHOOSE m \in S : Rank(R, S, m) = n - 1
            c == Cardinality(S)
<1>1. f = [n \in 1..c |-> nth(n)]
  BY DEF InOrder, Rank
<1>2. c \in Nat
  BY RankIs
<1>3. ASSUME NEW n \in 1..c
      PROVE  nth(n) \in S /\ Rank(R, S, nth(n)) = n - 1
  <2>1. n - 1 \in 0..(c - 1)
    <3>. HIDE DEF c
    <3>. QED  BY <1>2
  <2>2. \E m \in S : Rank(R, S, m) = n - 1
    BY <2>1, RankOnto
  <2>. QED  BY <2>2
<1>4. f \in [1..c -> S] /\ \A n \in 1..c : Rank(R, S, f[n]) = n - 1
  <2>. HIDE DEF f, nth, c
  <2>. QED  BY <1>1, <1>3
<1>. QED  BY <1>4, RankLists

-----------------------------------------------------------------------------
(***************************************************************************)
(* Runs over a sequence and over one that begins with it are the same as   *)
(* far as both go; what a fold computes of one item more follows.          *)
(***************************************************************************)
LEMMA RunsAgree ==
  ASSUME NEW A, NEW st, NEW base, NEW X, NEW s \in Seq(X), NEW t \in Seq(X),
         NEW r, NEW q, Runs(r, A, st, base, s), Runs(q, A, st, base, t),
         Len(s) <= Len(t), \A i \in 1..Len(s) : s[i] = t[i]
  PROVE  \A k \in 0..Len(s) : q[k] = r[k]
<1>. DEFINE len == Len(s)
            P == {k \in 0..len : q[k] = r[k]}
<1>1. len \in Nat /\ Len(t) \in Nat /\ \A k \in 1..len : k \in 1..Len(t)
  OBVIOUS
<1>2. 0 \in P
  BY <1>1 DEF Runs
<1>3. ASSUME NEW k \in 1..len, k - 1 \in P
      PROVE  k \in P
  <2>1. q[k - 1] = r[k - 1] /\ k \in 0..len
    BY <1>1, <1>3
  <2>2. q[k] = st[<<q[k - 1], t[k]>>] /\ r[k] = st[<<r[k - 1], s[k]>>]
    BY <1>1 DEF Runs
  <2>. QED  BY <1>3, <2>1, <2>2
<1>. HIDE DEF P
<1>4. \A k \in 0..len : k \in P
  BY <1>1, <1>2, <1>3, Counts
<1>. QED  BY <1>4 DEF P

LEMMA RunsAppend ==
  ASSUME NEW A, NEW st, NEW base, NEW X, NEW s \in Seq(X), NEW x \in X,
         NEW r, NEW q, Runs(r, A, st, base, s), Runs(q, A, st, base, Append(s, x))
  PROVE  q[Len(Append(s, x))] = st[<<r[Len(s)], x>>]
<1>. DEFINE t == Append(s, x)
<1>1. /\ t \in Seq(X) /\ Len(s) \in Nat /\ Len(t) = Len(s) + 1 /\ t[Len(s) + 1] = x
      /\ \A i \in 1..Len(s) : s[i] = t[i]
  OBVIOUS
<1>2. Runs(q, A, st, base, t)
  OBVIOUS
<1>. HIDE DEF t
<1>3. \A k \in 0..Len(s) : q[k] = r[k]
  <2>1. Len(s) <= Len(t)
    BY <1>1
  <2>. QED  BY <1>1, <1>2, <2>1, RunsAgree
<1>4. q[Len(s)] = r[Len(s)]
  BY <1>1, <1>3
<1>5. q[Len(s) + 1] = st[<<q[Len(s)], x>>]
  <2>1. Len(s) + 1 \in 1..Len(t) /\ (Len(s) + 1) - 1 = Len(s)
    BY <1>1
  <2>. QED  BY <1>1, <1>2, <2>1 DEF Runs
<1>. QED  BY <1>1, <1>4, <1>5 DEF t

\* What holds of the empty sequence and of one item more holds of every sequence.
LEMMA SequenceInduction ==
  ASSUME NEW X, NEW P, <<>> \in P,
         \A s \in Seq(X) : \A x \in X : s \in P => Append(s, x) \in P
  PROVE  Seq(X) \subseteq P
<1>1. SUFFICES ASSUME NEW s \in Seq(X)
               PROVE  s \in P
  OBVIOUS
<1>. DEFINE pre(k) == SubSeq(s, 1, k)
            Q == {k \in 0..Len(s) : pre(k) \in P}
<1>2. Len(s) \in Nat /\ pre(0) = <<>> /\ pre(Len(s)) = s
  OBVIOUS
<1>3. \A k \in 1..Len(s) : /\ pre(k - 1) \in Seq(X) /\ s[k] \in X
                              /\ pre(k) = Append(pre(k - 1), s[k])
  OBVIOUS
<1>. HIDE DEF pre
<1>4. 0 \in Q
  BY <1>2
<1>5. ASSUME NEW k \in 1..Len(s), k - 1 \in Q
      PROVE  k \in Q
  <2>1. pre(k - 1) \in P /\ k \in 0..Len(s)
    BY <1>2, <1>5
  <2>2. pre(k - 1) \in Seq(X) /\ s[k] \in X /\ pre(k) = Append(pre(k - 1), s[k])
    BY <1>3
  <2>3. Append(pre(k - 1), s[k]) \in P
    BY <2>1, <2>2
  <2>. QED  BY <2>1, <2>2, <2>3
<1>6. \A k \in 0..Len(s) : k \in Q
  <2>. HIDE DEF Q
  <2>. QED  BY <1>2, <1>4, <1>5, Counts
<1>. QED  BY <1>2, <1>6

-----------------------------------------------------------------------------
(***************************************************************************)
(* The size of a prompt.                                                   *)
(***************************************************************************)
LEMMA SizeIs ==
  ASSUME NEW X, NEW size \in [X -> Nat]
  PROVE  /\ SizeOf(<<>>, size) = 0
         /\ \A s \in Seq(X) : SizeOf(s, size) \in Nat
         /\ \A s \in Seq(X), x \in X : SizeOf(Append(s, x), size) = SizeOf(s, size) + size[x]
<1>. DEFINE st == SizeStep(X, size)
<1>1. \A s \in Seq(X) : \E run : /\ Runs(run, Nat, st, 0, s)
                                 /\ SizeOf(s, size) = run[Len(s)]
  BY SizeRuns
<1>2. \A n \in Nat, x \in X : st[<<n, x>>] = n + size[x]
  BY DEF SizeStep
<1>. HIDE DEF st
<1>3. \A s \in Seq(X) : SizeOf(s, size) \in Nat
  BY <1>1 DEF Runs
<1>4. SizeOf(<<>>, size) = 0
  <2>1. <<>> \in Seq(X) /\ Len(<<>>) = 0
    OBVIOUS
  <2>. QED  BY <1>1, <2>1 DEF Runs
<1>5. ASSUME NEW s \in Seq(X), NEW x \in X
      PROVE  SizeOf(Append(s, x), size) = SizeOf(s, size) + size[x]
  <2>1. PICK r : Runs(r, Nat, st, 0, s) /\ SizeOf(s, size) = r[Len(s)]
    BY <1>1
  <2>2. Append(s, x) \in Seq(X)
    OBVIOUS
  <2>3. PICK q : /\ Runs(q, Nat, st, 0, Append(s, x))
                 /\ SizeOf(Append(s, x), size) = q[Len(Append(s, x))]
    BY <1>1, <2>2
  <2>4. q[Len(Append(s, x))] = st[<<r[Len(s)], x>>]
    BY <2>1, <2>3, RunsAppend
  <2>5. r[Len(s)] \in Nat
    BY <1>3, <2>1
  <2>. QED  BY <1>2, <2>1, <2>3, <2>4, <2>5
<1>. QED  BY <1>3, <1>4, <1>5

-----------------------------------------------------------------------------
(***************************************************************************)
(* Joining sequences: FlattenSeq is a run as well.                         *)
(***************************************************************************)
JoinStep(X) == [p \in Seq(X) \X Seq(X) |-> p[1] \o p[2]]

LEMMA JoinRuns ==
  ASSUME NEW X, NEW ss \in Seq(Seq(X))
  PROVE  \E run : /\ Runs(run, Seq(X), JoinStep(X), <<>>, ss)
                  /\ FlattenSeq(ss) = run[Len(ss)]
<1>. DEFINE len == Len(ss)
            st == JoinStep(X)
            Body(g, i) == IF i = 1 THEN ss[i] ELSE g[i - 1] \o ss[i]
            Flat(g) == g = [i \in 1..len |-> Body(g, i)]
            flat == CHOOSE g : Flat(g)
            To(g, n) == Runs(g, Seq(X), st, <<>>, SubSeq(ss, 1, n))
            P == {n \in Nat : \E g : To(g, n)}
<1>1. len \in Nat /\ \A k \in 1..len : ss[k] \in Seq(X)
  OBVIOUS
<1>2. \A s, t \in Seq(X) : st[<<s, t>>] = s \o t /\ s \o t \in Seq(X)
  <2>1. \A s, t \in Seq(X) : s \o t \in Seq(X)
    OBVIOUS
  <2>2. \A p \in Seq(X) \X Seq(X) : st[p] = p[1] \o p[2]
    BY DEF JoinStep
  <2>3. SUFFICES ASSUME NEW s \in Seq(X), NEW t \in Seq(X)
                 PROVE  st[<<s, t>>] = s \o t
    BY <2>1
  <2>4. <<s, t>> \in Seq(X) \X Seq(X) /\ <<s, t>>[1] = s /\ <<s, t>>[2] = t
    OBVIOUS
  <2>. QED  BY <2>2, <2>4
<1>3. <<>> \in Seq(X) /\ \A s \in Seq(X) : <<>> \o s = s
  OBVIOUS
<1>. HIDE DEF st
<1>4. \E run : Runs(run, Seq(X), st, <<>>, ss)
  <2>1. \A k \in 0..len : /\ Len(SubSeq(ss, 1, k)) = k
                          /\ \A i \in 1..k : SubSeq(ss, 1, k)[i] = ss[i]
    BY <1>1
  <2>2. 0 \in P
    <3>. DEFINE g == [i \in 0..0 |-> <<>>]
    <3>1. To(g, 0)
      BY <1>1, <1>3, <2>1 DEF Runs
    <3>. HIDE DEF g, To
    <3>. QED  BY <3>1
  <2>3. ASSUME NEW k \in 1..len, k - 1 \in P
        PROVE  k \in P
    <3>1. PICK g : To(g, k - 1)
      BY <2>3
    <3>. DEFINE h == [i \in 0..k |-> IF i = k THEN g[k - 1] \o ss[k] ELSE g[i]]
    <3>2. /\ g \in [0..(k - 1) -> Seq(X)] /\ g[0] = <<>>
          /\ \A i \in 1..(k - 1) : g[i] = st[<<g[i - 1], ss[i]>>]
      BY <1>1, <2>1, <3>1 DEF Runs
    <3>3. g[k - 1] \in Seq(X) /\ ss[k] \in Seq(X)
      BY <1>1, <3>2
    <3>4. h \in [0..k -> Seq(X)] /\ h[0] = <<>>
      BY <1>2, <3>2, <3>3
    <3>5. ASSUME NEW i \in 1..k
          PROVE  h[i] = st[<<h[i - 1], ss[i]>>]
      <4>1. h[i - 1] = g[i - 1]
        OBVIOUS
      <4>2. CASE i = k
        <5>1. h[k] = g[k - 1] \o ss[k]
          <6>1. k \in 0..k
            BY <1>1
          <6>. QED  BY <6>1
        <5>. HIDE DEF h
        <5>. QED  BY <1>2, <3>3, <4>1, <4>2, <5>1
      <4>3. CASE i # k
        <5>1. i \in 1..(k - 1) /\ h[i] = g[i]
          BY <4>3
        <5>. QED  BY <3>2, <4>1, <5>1
      <4>. QED  BY <4>2, <4>3
    <3>. HIDE DEF h
    <3>6. To(h, k)
      BY <1>1, <2>1, <3>4, <3>5 DEF Runs
    <3>. HIDE DEF To
    <3>. QED  BY <1>1, <3>6
  <2>4. len \in P
    <3>. HIDE DEF P
    <3>1. \A k \in 0..len : k \in P
      BY <1>1, <2>2, <2>3, Counts
    <3>. QED  BY <1>1, <3>1
  <2>5. SubSeq(ss, 1, len) = ss
    OBVIOUS
  <2>. QED  BY <2>4, <2>5
<1>5. PICK run : Runs(run, Seq(X), st, <<>>, ss)
  BY <1>4
<1>6. \A i \in 1..len : run[i] = run[i - 1] \o ss[i]
  <2>1. SUFFICES ASSUME NEW i \in 1..len
                 PROVE  run[i] = run[i - 1] \o ss[i]
    OBVIOUS
  <2>2. run[i - 1] \in Seq(X) /\ run[i] = st[<<run[i - 1], ss[i]>>]
    <3>1. i - 1 \in 0..len /\ run \in [0..len -> Seq(X)]
      BY <1>1, <1>5 DEF Runs
    <3>. QED  BY <1>5, <3>1 DEF Runs
  <2>. QED  BY <1>1, <1>2, <2>2
<1>7. CASE len = 0
  BY <1>5, <1>7 DEF Runs, FlattenSeq, st
<1>8. CASE len # 0
  <2>1. FlattenSeq(ss) = flat[len]
    BY <1>8 DEF FlattenSeq
  <2>. DEFINE g == [i \in 1..len |-> run[i]]
  <2>2. ASSUME NEW i \in 1..len
        PROVE  run[i] = Body(g, i)
    <3>1. run[i] = run[i - 1] \o ss[i]
      BY <1>6
    <3>2. CASE i = 1
      BY <1>1, <1>3, <1>5, <3>1, <3>2 DEF Runs
    <3>3. CASE i # 1
      <4>1. g[i - 1] = run[i - 1]
        BY <3>3
      <4>. HIDE DEF g
      <4>. QED  BY <3>1, <3>3, <4>1
    <3>. QED  BY <3>2, <3>3
  <2>3. Flat(g)
    <3>. HIDE DEF Body
    <3>. QED  BY <2>2
  <2>4. Flat(flat)
    <3>. HIDE DEF Flat, g
    <3>. QED  BY <2>3
  <2>5. \A i \in 1..len : flat[i] = Body(flat, i)
    <3>. HIDE DEF flat, Body
    <3>. QED  BY <2>4
  <2>. HIDE DEF flat
  <2>. DEFINE Q == {k \in 0..len : k = 0 \/ flat[k] = run[k]}
  <2>6. 0 \in Q
    BY <1>1
  <2>7. ASSUME NEW k \in 1..len, k - 1 \in Q
        PROVE  k \in Q
    <3>1. run[k] = run[k - 1] \o ss[k] /\ run[0] = <<>> /\ ss[k] \in Seq(X)
      BY <1>1, <1>5, <1>6 DEF Runs
    <3>2. k # 1 => flat[k - 1] = run[k - 1]
      BY <2>7
    <3>3. flat[k] = IF k = 1 THEN ss[k] ELSE flat[k - 1] \o ss[k]
      BY <2>5
    <3>4. flat[k] = run[k]
      <4>1. CASE k = 1
        <5>1. flat[k] = ss[k] /\ k - 1 = 0
          BY <3>3, <4>1
        <5>2. run[k] = <<>> \o ss[k]
          BY <3>1, <5>1
        <5>. QED  BY <1>3, <3>1, <5>1, <5>2
      <4>2. CASE k # 1
        BY <3>1, <3>2, <3>3, <4>2
      <4>. QED  BY <4>1, <4>2
    <3>. QED  BY <3>4
  <2>8. \A k \in 0..len : k \in Q
    <3>. HIDE DEF Q
    <3>. QED  BY <1>1, <2>6, <2>7, Counts
  <2>9. flat[len] = run[len]
    BY <1>1, <1>8, <2>8
  <2>. QED  BY <1>5, <2>1, <2>9 DEF st
<1>. QED  BY <1>7, <1>8

LEMMA JoinIs ==
  ASSUME NEW X
  PROVE  /\ FlattenSeq(<<>>) = <<>>
         /\ \A ss \in Seq(Seq(X)) : FlattenSeq(ss) \in Seq(X)
         /\ \A ss \in Seq(Seq(X)), s \in Seq(X) :
              FlattenSeq(Append(ss, s)) = FlattenSeq(ss) \o s
<1>. DEFINE st == JoinStep(X)
<1>1. \A ss \in Seq(Seq(X)) : \E run : /\ Runs(run, Seq(X), st, <<>>, ss)
                                       /\ FlattenSeq(ss) = run[Len(ss)]
  BY JoinRuns
<1>2. \A s, t \in Seq(X) : st[<<s, t>>] = s \o t
  <2>1. \A p \in Seq(X) \X Seq(X) : st[p] = p[1] \o p[2]
    BY DEF JoinStep
  <2>2. SUFFICES ASSUME NEW s \in Seq(X), NEW t \in Seq(X)
                 PROVE  st[<<s, t>>] = s \o t
    OBVIOUS
  <2>3. <<s, t>> \in Seq(X) \X Seq(X) /\ <<s, t>>[1] = s /\ <<s, t>>[2] = t
    OBVIOUS
  <2>. QED  BY <2>1, <2>3
<1>. HIDE DEF st
<1>3. \A ss \in Seq(Seq(X)) : FlattenSeq(ss) \in Seq(X)
  <2>1. \A ss \in Seq(Seq(X)) : Len(ss) \in 0..Len(ss)
    OBVIOUS
  <2>. QED  BY <1>1, <2>1 DEF Runs
<1>4. FlattenSeq(<<>>) = <<>>
  BY DEF FlattenSeq
<1>5. ASSUME NEW ss \in Seq(Seq(X)), NEW s \in Seq(X)
      PROVE  FlattenSeq(Append(ss, s)) = FlattenSeq(ss) \o s
  <2>1. PICK r : Runs(r, Seq(X), st, <<>>, ss) /\ FlattenSeq(ss) = r[Len(ss)]
    BY <1>1
  <2>2. Append(ss, s) \in Seq(Seq(X))
    OBVIOUS
  <2>3. PICK q : /\ Runs(q, Seq(X), st, <<>>, Append(ss, s))
                 /\ FlattenSeq(Append(ss, s)) = q[Len(Append(ss, s))]
    BY <1>1, <2>2
  <2>4. q[Len(Append(ss, s))] = st[<<r[Len(ss)], s>>]
    BY <2>1, <2>3, RunsAppend
  <2>5. r[Len(ss)] \in Seq(X)
    BY <1>3, <2>1
  <2>. QED  BY <1>2, <2>1, <2>3, <2>4, <2>5
<1>. QED  BY <1>3, <1>4, <1>5

LEMMA AppendToJoined ==
  ASSUME NEW X, NEW s \in Seq(X), NEW t \in Seq(X), NEW x \in X
  PROVE  s \o Append(t, x) = Append(s \o t, x)
<1>1. s \o t \in Seq(X) /\ Append(t, x) \in Seq(X)
  OBVIOUS
<1>. QED  OBVIOUS

LEMMA JoinOfJoined ==
  ASSUME NEW X, NEW a \in Seq(Seq(X))
  PROVE  \A b \in Seq(Seq(X)) : FlattenSeq(a \o b) = FlattenSeq(a) \o FlattenSeq(b)
<1>. DEFINE P == {b \in Seq(Seq(X)) : FlattenSeq(a \o b) = FlattenSeq(a) \o FlattenSeq(b)}
<1>1. <<>> \in P
  <2>1. a \o <<>> = a /\ <<>> \in Seq(Seq(X))
    OBVIOUS
  <2>2. FlattenSeq(a) \in Seq(X) /\ FlattenSeq(<<>>) = <<>>
    BY JoinIs
  <2>3. FlattenSeq(a) \o <<>> = FlattenSeq(a)
    BY <2>2
  <2>. QED  BY <2>1, <2>2, <2>3
<1>2. ASSUME NEW b \in Seq(Seq(X)), NEW s \in Seq(X), b \in P
      PROVE  Append(b, s) \in P
  <2>1. a \o Append(b, s) = Append(a \o b, s) /\ a \o b \in Seq(Seq(X))
    <3>1. a \o b \in Seq(Seq(X))
      OBVIOUS
    <3>. QED  BY <3>1, AppendToJoined
  <2>2. /\ FlattenSeq(Append(b, s)) = FlattenSeq(b) \o s
        /\ FlattenSeq(Append(a \o b, s)) = FlattenSeq(a \o b) \o s
        /\ FlattenSeq(a) \in Seq(X) /\ FlattenSeq(b) \in Seq(X)
    BY <2>1, JoinIs
  <2>3. (FlattenSeq(a) \o FlattenSeq(b)) \o s = FlattenSeq(a) \o (FlattenSeq(b) \o s)
    BY <2>2, ConcatAssociative
  <2>4. Append(b, s) \in Seq(Seq(X))
    OBVIOUS
  <2>. QED  BY <1>2, <2>1, <2>2, <2>3, <2>4
<1>. HIDE DEF P
<1>3. Seq(Seq(X)) \subseteq P
  BY <1>1, <1>2, SequenceInduction
<1>. QED  BY <1>3 DEF P

LEMMA JoinRange ==
  ASSUME NEW X
  PROVE  \A ss \in Seq(Seq(X)) :
           Range(FlattenSeq(ss)) = UNION {Range(ss[k]) : k \in DOMAIN ss}
<1>. DEFINE All(ss) == UNION {Range(ss[k]) : k \in DOMAIN ss}
            P == {ss \in Seq(Seq(X)) : Range(FlattenSeq(ss)) = All(ss)}
<1>1. <<>> \in P
  <2>1. Range(<<>>) = {} /\ All(<<>>) = {} /\ <<>> \in Seq(Seq(X))
    BY DEF Range
  <2>. QED  BY <2>1, JoinIs
<1>2. ASSUME NEW ss \in Seq(Seq(X)), NEW s \in Seq(X), ss \in P
      PROVE  Append(ss, s) \in P
  <2>1. FlattenSeq(ss) \in Seq(X) /\ FlattenSeq(Append(ss, s)) = FlattenSeq(ss) \o s
    BY JoinIs
  <2>2. \A t \in Seq(X) : Range(t \o s) = Range(t) \cup Range(s)
    BY RangeConcatenation
  <2>3. All(Append(ss, s)) = All(ss) \cup Range(s)
    <3>. DEFINE t == Append(ss, s)
    <3>1. /\ DOMAIN t = DOMAIN ss \cup {Len(ss) + 1} /\ t[Len(ss) + 1] = s
          /\ \A k \in DOMAIN ss : t[k] = ss[k]
      OBVIOUS
    <3>. HIDE DEF t
    <3>2. All(t) = All(ss) \cup Range(s)
      BY <3>1
    <3>. QED  BY <3>2 DEF t
  <2>4. Append(ss, s) \in Seq(Seq(X))
    OBVIOUS
  <2>. HIDE DEF All
  <2>. QED  BY <1>2, <2>1, <2>2, <2>3, <2>4
<1>3. Seq(Seq(X)) \subseteq P
  <2>. HIDE DEF P
  <2>. QED  BY <1>1, <1>2, SequenceInduction
<1>. QED  BY <1>3

-----------------------------------------------------------------------------
(***************************************************************************)
(* Segments, their numbers and their order in time.                        *)
(***************************************************************************)
SegTyped == seg \in Seq([start : Nat, cost : Nat \ {0}])

LEMMA IdsAre ==
  ASSUME SegTyped
  PROVE  /\ Ids = 1..Len(seg) /\ IsFiniteSet(Ids) /\ Ids \subseteq Nat
         /\ Cost \in [Ids -> Nat] /\ \A s \in Ids : seg[s].start \in Nat
<1>1. Len(seg) \in Nat /\ Ids = 1..Len(seg)
  BY DEF SegTyped, Ids
<1>2. IsFiniteSet(1..Len(seg))
  BY <1>1, FS_Interval
<1>3. \A s \in 1..Len(seg) : seg[s].start \in Nat /\ seg[s].cost \in Nat
  <2>1. \A s \in 1..Len(seg) : seg[s] \in [start : Nat, cost : Nat \ {0}]
    BY <1>1, ElementOfSeq DEF SegTyped
  <2>. QED  BY <2>1
<1>. QED  BY <1>1, <1>2, <1>3 DEF Cost

\* What lists a set is a sequence of its members, each once.
LEMMA ListIsSeq ==
  ASSUME NEW S, IsFiniteSet(S), NEW R, Orders(R, S), NEW f, Lists(f, R, S)
  PROVE  /\ f \in Seq(S) /\ Len(f) = Cardinality(S) /\ Range(f) = S
         /\ \A m, n \in 1..Len(f) : m # n => f[m] # f[n]
<1>1. Cardinality(S) \in Nat
  BY FS_CardinalityType
<1>2. f \in Seq(S) /\ Len(f) = Cardinality(S) /\ DOMAIN f = 1..Cardinality(S)
  BY <1>1 DEF Lists
<1>3. Range(f) = S
  BY <1>2 DEF Lists, Range
<1>4. ASSUME NEW m \in 1..Len(f), NEW n \in 1..Len(f), m # n
      PROVE  f[m] # f[n]
  <2>1. m < n \/ n < m
    BY <1>1, <1>2, <1>4
  <2>2. <<f[m], f[n]>> \in R \/ <<f[n], f[m]>> \in R
    BY <1>2, <2>1 DEF Lists
  <2>3. f[m] \in S /\ f[n] \in S
    BY <1>2
  <2>. QED  BY <2>2, <2>3 DEF Orders
<1>. QED  BY <1>2, <1>3, <1>4

LEMMA InTimeIs ==
  ASSUME SegTyped
  PROVE  /\ InTime \in Seq(Ids) /\ Len(InTime) = Cardinality(Ids) /\ Range(InTime) = Ids
         /\ \A m, n \in 1..Len(InTime) :
              /\ m # n => InTime[m] # InTime[n]
              /\ m < n => seg[InTime[m]].start <= seg[InTime[n]].start
<1>. DEFINE R == {p \in Ids \X Ids : Sooner(p[1], p[2])}
<1>1. Orders(R, Ids)
  <2>1. \A a, b \in Ids : <<a, b>> \in R <=> Sooner(a, b)
    OBVIOUS
  <2>. HIDE DEF R
  <2>2. \A x \in Ids : ~Sooner(x, x)
    BY IdsAre DEF Sooner
  <2>3. \A x, y, z \in Ids : Sooner(x, y) /\ Sooner(y, z) => Sooner(x, z)
    BY IdsAre DEF Sooner
  <2>4. \A x, y \in Ids : x # y => Sooner(x, y) \/ Sooner(y, x)
    BY IdsAre DEF Sooner
  <2>. QED  BY <2>1, <2>2, <2>3, <2>4 DEF Orders
<1>2. Lists(InTime, R, Ids)
  BY <1>1, IdsAre, InOrderIs DEF InTime
<1>3. /\ InTime \in Seq(Ids) /\ Len(InTime) = Cardinality(Ids) /\ Range(InTime) = Ids
      /\ \A m, n \in 1..Len(InTime) : m # n => InTime[m] # InTime[n]
  <2>. HIDE DEF R
  <2>. QED  BY <1>1, <1>2, IdsAre, ListIsSeq
<1>4. ASSUME NEW m \in 1..Len(InTime), NEW n \in 1..Len(InTime), m < n
      PROVE  seg[InTime[m]].start <= seg[InTime[n]].start
  <2>1. <<InTime[m], InTime[n]>> \in R
    <3>. HIDE DEF R
    <3>. QED  BY <1>2, <1>3, <1>4 DEF Lists
  <2>2. InTime[m] \in Ids /\ InTime[n] \in Ids /\ Sooner(InTime[m], InTime[n])
    BY <2>1
  <2>. QED  BY <2>2, IdsAre DEF Sooner
<1>. QED  BY <1>3, <1>4

(***************************************************************************)
(* The windows: what Cut does to a prompt and the edge of its window.      *)
(***************************************************************************)
LEMMA EdgeIs ==
  ASSUME NEW x \in Nat
  PROVE  /\ x \div WindowS \in Nat /\ EdgeAfter(x) \in Nat
         /\ (x \div WindowS) * WindowS <= x /\ x < EdgeAfter(x)
<1>1. WindowS \in Nat /\ WindowS > 0
  BY GroundingAssumption
<1>. DEFINE q == x \div WindowS
<1>2. q \in Int /\ q * WindowS <= x /\ x < (q + 1) * WindowS
  BY <1>1
<1>3. q >= 0
  BY <1>1
<1>. QED  BY <1>1, <1>2, <1>3 DEF EdgeAfter

LEMMA SameWindow ==
  ASSUME NEW x \in Nat, NEW y \in Nat, x <= y, y < EdgeAfter(x)
  PROVE  y \div WindowS = x \div WindowS
<1>. DEFINE p == x \div WindowS
            q == y \div WindowS
<1>1. /\ WindowS \in Nat /\ WindowS > 0 /\ p \in Nat /\ q \in Nat
      /\ p * WindowS <= x /\ x < (p + 1) * WindowS
      /\ q * WindowS <= y /\ y < (q + 1) * WindowS
      /\ y < (p + 1) * WindowS
  BY GroundingAssumption, EdgeIs DEF EdgeAfter
<1>. HIDE DEF p, q
<1>2. \A a, b \in Nat : a < b => (a + 1) * WindowS <= b * WindowS
  <2>1. SUFFICES ASSUME NEW a \in Nat, NEW b \in Nat, a < b
                 PROVE  (a + 1) * WindowS <= b * WindowS
    OBVIOUS
  <2>2. b = (a + 1) + (b - (a + 1)) /\ b - (a + 1) \in Nat
    BY <2>1
  <2>3. b * WindowS = (a + 1) * WindowS + (b - (a + 1)) * WindowS
    BY <1>1, <2>2
  <2>4. (b - (a + 1)) * WindowS \in Nat /\ (a + 1) * WindowS \in Nat
    BY <1>1, <2>2
  <2>. QED  BY <2>3, <2>4
<1>3. ~(q < p) /\ ~(p < q)
  <2>1. /\ p * WindowS \in Nat /\ (p + 1) * WindowS \in Nat
        /\ q * WindowS \in Nat /\ (q + 1) * WindowS \in Nat
    BY <1>1
  <2>2. q < p => (q + 1) * WindowS <= p * WindowS
    BY <1>1, <1>2
  <2>3. p < q => (p + 1) * WindowS <= q * WindowS
    BY <1>1, <1>2
  <2>. QED  BY <1>1, <2>1, <2>2, <2>3
<1>4. p = q
  BY <1>1, <1>3
<1>. QED  BY <1>4 DEF p, q

Cutting == [out : Seq(Seq(Ids)), cur : Seq(Ids), edge : Nat]
NoWindow == [out |-> <<>>, cur |-> <<>>, edge |-> WindowS]
CutStep == [p \in Cutting \X Ids |-> Cut(p[1], p[2])]

LEMMA CutIs ==
  ASSUME SegTyped
  PROVE  NoWindow \in Cutting /\ CutStep \in [Cutting \X Ids -> Cutting]
<1>1. NoWindow \in Cutting
  BY GroundingAssumption DEF NoWindow, Cutting
<1>2. ASSUME NEW acc \in Cutting, NEW s \in Ids
      PROVE  Cut(acc, s) \in Cutting
  <2>1. EdgeAfter(seg[s].start) \in Nat
    BY IdsAre, EdgeIs
  <2>2. /\ acc.out \in Seq(Seq(Ids)) /\ acc.cur \in Seq(Ids) /\ acc.edge \in Nat
        /\ Append(acc.out, acc.cur) \in Seq(Seq(Ids)) /\ Append(acc.cur, s) \in Seq(Ids)
        /\ <<s>> \in Seq(Ids)
    BY DEF Cutting
  <2>. QED  BY <2>1, <2>2 DEF Cutting, Cut
<1>. QED  BY <1>1, <1>2 DEF CutStep

LEMMA CutRuns ==
  ASSUME SegTyped, NEW items, items = InTime, items \in Seq(Ids)
  PROVE  \E run : /\ Runs(run, Cutting, CutStep, NoWindow, items)
                 /\ Windows = Flushed(run[Len(items)])
<1>. DEFINE Body(g, s) == IF s = {} THEN NoWindow
                          ELSE Cut(g[s \ {Max(s)}], items[Max(s)])
            D == SUBSET DOMAIN items
            Folds(g) == g = [s \in D |-> Body(g, s)]
            iter == CHOOSE g : Folds(g)
            st == CutStep
            len == Len(items)
<1>1. Windows = Flushed(iter[DOMAIN items])
  BY DEF Windows, FoldLeft, MapThenFoldSet, NoWindow
<1>2. NoWindow \in Cutting /\ st \in [Cutting \X Ids -> Cutting]
  BY CutIs
<1>3. PICK g : FoldsOver(g, Cutting, st, NoWindow, items)
  <2>. HIDE DEF st, Body, iter, Folds
  <2>. QED  BY <1>2, FoldExists
<1>4. DOMAIN items = 1..len /\ len \in Nat /\ \A k \in 1..len : items[k] \in Ids
  OBVIOUS
<1>5. \A y \in Cutting, x \in Ids : st[<<y, x>>] = Cut(y, x)
  BY DEF CutStep
<1>. HIDE DEF st
<1>6. ASSUME NEW s \in D
      PROVE  g[s] = Body(g, s)
  <2>1. CASE s = {}
    BY <1>3, <2>1 DEF FoldsOver, FoldBody
  <2>2. CASE s # {}
    <3>1. Max(s) \in DOMAIN items
      BY <1>4, <2>2, MaxOfSome
    <3>2. items[Max(s)] \in Ids /\ g[s \ {Max(s)}] \in Cutting
      BY <1>3, <1>4, <3>1 DEF FoldsOver
    <3>. QED  BY <1>3, <1>5, <2>2, <3>2 DEF FoldsOver, FoldBody
  <2>. QED  BY <2>1, <2>2
<1>7. Folds(g)
  <2>1. g = [s \in D |-> g[s]]
    BY <1>3 DEF FoldsOver
  <2>. HIDE DEF Body
  <2>. QED  BY <1>6, <2>1
<1>8. Folds(iter)
  <2>. HIDE DEF Folds
  <2>. QED  BY <1>7
<1>9. \A s \in D : iter[s] = Body(iter, s)
  <2>. HIDE DEF iter, Body
  <2>. QED  BY <1>8
<1>. HIDE DEF iter
<1>10. iter[{}] = NoWindow
  BY <1>9
<1>11. ASSUME NEW k \in 1..len, iter[1..(k - 1)] \in Cutting
       PROVE  iter[1..k] = st[<<iter[1..(k - 1)], items[k]>>]
  <2>1. 1..k \in D /\ 1..k # {} /\ Max(1..k) = k /\ (1..k) \ {k} = 1..(k - 1)
    BY <1>4, FirstPlaces
  <2>2. iter[1..k] = Cut(iter[1..(k - 1)], items[k])
    BY <1>9, <2>1
  <2>. QED  BY <1>4, <1>5, <1>11, <2>2
<1>. QED
  <2>1. RunEnds(iter[DOMAIN items], Cutting, st, NoWindow, items)
    <3>. HIDE DEF Body, D, Folds
    <3>1. \A k \in 1..Len(items) : iter[1..(k - 1)] \in Cutting =>
            iter[1..k] = st[<<iter[1..(k - 1)], items[k]>>]
      BY <1>11
    <3>. QED  BY <1>2, <1>10, <3>1, FoldRuns
  <2>. QED  BY <1>1, <2>1 DEF st, RunEnds

-----------------------------------------------------------------------------
(***************************************************************************)
(* What a step keeps, of what was read and what was made of it, holds at   *)
(* the end of the fold.                                                    *)
(***************************************************************************)
LEMMA RunHolds ==
  ASSUME NEW A, NEW st, NEW base, NEW X, NEW items \in Seq(X),
         NEW run, Runs(run, A, st, base, items), NEW J, <<<<>>, base>> \in J,
         \A pre \in Seq(X), acc \in A, x \in X :
           <<pre, acc>> \in J => <<Append(pre, x), st[<<acc, x>>]>> \in J
  PROVE  <<items, run[Len(items)]>> \in J /\ run[Len(items)] \in A
<1>. DEFINE len == Len(items)
            pre(k) == SubSeq(items, 1, k)
            Q == {k \in 0..len : <<pre(k), run[k]>> \in J}
<1>1. len \in Nat /\ pre(0) = <<>> /\ pre(len) = items
  OBVIOUS
<1>2. \A k \in 1..len : /\ pre(k - 1) \in Seq(X) /\ items[k] \in X
                        /\ pre(k) = Append(pre(k - 1), items[k])
  OBVIOUS
<1>. HIDE DEF pre
<1>3. \A k \in 0..len : run[k] \in A
  BY DEF Runs
<1>4. 0 \in Q
  BY <1>1 DEF Runs
<1>5. ASSUME NEW k \in 1..len, k - 1 \in Q
      PROVE  k \in Q
  <2>1. <<pre(k - 1), run[k - 1]>> \in J /\ k \in 0..len /\ k - 1 \in 0..len
    BY <1>1, <1>5
  <2>2. /\ pre(k - 1) \in Seq(X) /\ items[k] \in X /\ run[k - 1] \in A
        /\ pre(k) = Append(pre(k - 1), items[k])
    BY <1>2, <1>3, <2>1
  <2>3. run[k] = st[<<run[k - 1], items[k]>>]
    BY DEF Runs
  <2>4. <<Append(pre(k - 1), items[k]), st[<<run[k - 1], items[k]>>]>> \in J
    BY <2>1, <2>2
  <2>. QED  BY <2>1, <2>2, <2>3, <2>4
<1>6. \A k \in 0..len : k \in Q
  <2>. HIDE DEF Q
  <2>. QED  BY <1>1, <1>4, <1>5, Counts
<1>7. <<pre(len), run[len]>> \in J /\ run[len] \in A
  BY <1>1, <1>3, <1>6
<1>. QED  BY <1>1, <1>7

LEMMA FlushedIs ==
  ASSUME NEW X, NEW acc, acc.out \in Seq(Seq(X)), acc.cur \in Seq(X)
  PROVE  /\ Flushed(acc) \in Seq(Seq(X))
         /\ FlattenSeq(Flushed(acc)) = FlattenSeq(acc.out) \o acc.cur
         /\ Range(Flushed(acc)) \subseteq Range(acc.out) \cup {acc.cur}
<1>1. CASE acc.cur = <<>>
  <2>1. Flushed(acc) = acc.out
    BY <1>1 DEF Flushed
  <2>2. FlattenSeq(acc.out) \in Seq(X)
    BY JoinIs
  <2>3. FlattenSeq(acc.out) \o <<>> = FlattenSeq(acc.out)
    BY <2>2
  <2>. QED  BY <1>1, <2>1, <2>3
<1>2. CASE acc.cur # <<>>
  <2>1. Flushed(acc) = Append(acc.out, acc.cur)
    BY <1>2 DEF Flushed
  <2>2. Append(acc.out, acc.cur) \in Seq(Seq(X))
    OBVIOUS
  <2>3. Range(Append(acc.out, acc.cur)) \subseteq Range(acc.out) \cup {acc.cur}
    BY DEF Range
  <2>. QED  BY <2>1, <2>2, <2>3, JoinIs
<1>. QED  BY <1>1, <1>2

-----------------------------------------------------------------------------
(***************************************************************************)
(* Packed: nothing is lost or moved, and what is not alone fits.           *)
(***************************************************************************)
PackHolds(pre, acc, size) ==
  /\ FlattenSeq(acc.out) \o acc.cur = pre
  /\ SizeOf(acc.cur, size) = acc.size /\ FitsOrAlone(acc.cur, size)
  /\ \A w \in Range(acc.out) : FitsOrAlone(w, size)

LEMMA PackKeeps ==
  ASSUME NEW X, NEW size \in [X -> Nat], NEW pre \in Seq(X), NEW acc \in Packing(X),
         NEW x \in X, PackHolds(pre, acc, size)
  PROVE  PackHolds(Append(pre, x), Pack(acc, x, size), size)
<1>1. /\ acc.out \in Seq(Seq(X)) /\ acc.cur \in Seq(X) /\ acc.size \in Nat /\ size[x] \in Nat
      /\ Budget \in Nat
  BY GroundingAssumption DEF Packing
<1>2. FlattenSeq(acc.out) \in Seq(X)
  BY <1>1, JoinIs
<1>3. CASE acc.cur # <<>> /\ acc.size + size[x] > Budget
  <2>. DEFINE q == Pack(acc, x, size)
  <2>1. q.out = Append(acc.out, acc.cur) /\ q.cur = <<x>> /\ q.size = size[x]
    BY <1>3 DEF Pack
  <2>2. FlattenSeq(Append(acc.out, acc.cur)) = pre
    BY <1>1, JoinIs DEF PackHolds
  <2>3. SizeOf(<<x>>, size) = size[x] /\ Len(<<x>>) = 1
    <3>1. <<>> \in Seq(X) /\ Append(<<>>, x) = <<x>> /\ Len(<<x>>) = 1
      OBVIOUS
    <3>2. SizeOf(<<>>, size) = 0 /\ SizeOf(<<x>>, size) = SizeOf(<<>>, size) + size[x]
      BY <3>1, SizeIs
    <3>. QED  BY <1>1, <3>1, <3>2
  <2>4. Range(Append(acc.out, acc.cur)) \subseteq Range(acc.out) \cup {acc.cur}
    BY <1>1 DEF Range
  <2>5. pre \o <<x>> = Append(pre, x)
    OBVIOUS
  <2>6. \A w \in Range(Append(acc.out, acc.cur)) : FitsOrAlone(w, size)
    BY <2>4 DEF PackHolds
  <2>7. FitsOrAlone(<<x>>, size)
    BY <2>3 DEF FitsOrAlone
  <2>8. FlattenSeq(Append(acc.out, acc.cur)) \o <<x>> = Append(pre, x)
    BY <2>2, <2>5
  <2>. HIDE DEF q
  <2>9. PackHolds(Append(pre, x), q, size)
    BY <2>1, <2>3, <2>6, <2>7, <2>8, Zenon DEF PackHolds
  <2>. QED  BY <2>9 DEF q
<1>4. CASE ~(acc.cur # <<>> /\ acc.size + size[x] > Budget)
  <2>. DEFINE q == Pack(acc, x, size)
  <2>1. q.out = acc.out /\ q.cur = Append(acc.cur, x) /\ q.size = acc.size + size[x]
    BY <1>4 DEF Pack
  <2>2. SizeOf(Append(acc.cur, x), size) = acc.size + size[x]
    BY <1>1, SizeIs DEF PackHolds
  <2>3. FlattenSeq(acc.out) \o Append(acc.cur, x) = Append(FlattenSeq(acc.out) \o acc.cur, x)
    <3>. DEFINE f == FlattenSeq(acc.out)
                c == acc.cur
    <3>1. f \in Seq(X) /\ c \in Seq(X)
      BY <1>1, <1>2
    <3>. HIDE DEF f, c
    <3>2. f \o Append(c, x) = Append(f \o c, x)
      BY <3>1, AppendToJoined
    <3>. QED  BY <3>2 DEF f, c
  <2>4. acc.cur = <<>> => Len(Append(acc.cur, x)) = 1
    BY <1>1
  <2>5. FitsOrAlone(Append(acc.cur, x), size)
    BY <1>1, <1>4, <2>2, <2>4 DEF FitsOrAlone
  <2>. HIDE DEF q
  <2>6. PackHolds(Append(pre, x), q, size)
    BY <2>1, <2>2, <2>3, <2>5, Zenon DEF PackHolds
  <2>. QED  BY <2>6 DEF q
<1>. QED  BY <1>3, <1>4

LEMMA PackedIs ==
  ASSUME NEW X, NEW size \in [X -> Nat], NEW items \in Seq(X)
  PROVE  /\ Packed(items, size) \in Seq(Seq(X))
         /\ FlattenSeq(Packed(items, size)) = items
         /\ \A w \in Range(Packed(items, size)) : FitsOrAlone(w, size)
<1>. DEFINE A == Packing(X)
            st == PackStep(X, size)
            J == {j \in Seq(X) \X A : PackHolds(j[1], j[2], size)}
<1>1. PICK run : Runs(run, A, st, NoPack, items) /\ Packed(items, size) = Flushed(run[Len(items)])
  BY PackRuns
<1>. DEFINE end == run[Len(items)]
<1>2. <<<<>>, NoPack>> \in J
  <2>1. NoPack \in A /\ <<>> \in Seq(X) /\ <<>> \o <<>> = <<>>
    <3>1. NoPack \in A
      BY PackIs
    <3>2. <<>> \in Seq(X) /\ <<>> \o <<>> = <<>>
      BY ConcatEmptySeq
    <3>. QED  BY <3>1, <3>2
  <2>2. SizeOf(<<>>, size) = 0 /\ FlattenSeq(<<>>) = <<>> /\ Range(<<>>) = {}
    BY SizeIs, JoinIs DEF Range
  <2>3. PackHolds(<<>>, NoPack, size)
    BY <2>1, <2>2, GroundingAssumption DEF PackHolds, NoPack, FitsOrAlone
  <2>. QED  BY <2>1, <2>3
<1>3. ASSUME NEW pre \in Seq(X), NEW acc \in A, NEW x \in X, <<pre, acc>> \in J
      PROVE  <<Append(pre, x), st[<<acc, x>>]>> \in J
  <2>1. PackHolds(pre, acc, size)
    BY <1>3
  <2>2. st[<<acc, x>>] = Pack(acc, x, size) /\ st[<<acc, x>>] \in A
    BY PackIs DEF PackStep
  <2>3. PackHolds(Append(pre, x), Pack(acc, x, size), size)
    BY <2>1, PackKeeps
  <2>4. Append(pre, x) \in Seq(X)
    OBVIOUS
  <2>. HIDE DEF st, A
  <2>. QED  BY <2>2, <2>3, <2>4
<1>4. <<items, end>> \in J /\ end \in A
  <2>. HIDE DEF J, A, st
  <2>. QED  BY <1>1, <1>2, <1>3, RunHolds
<1>5. PackHolds(items, end, size) /\ end.out \in Seq(Seq(X)) /\ end.cur \in Seq(X)
  <2>1. end.out \in Seq(Seq(X)) /\ end.cur \in Seq(X)
    <3>. HIDE DEF end
    <3>. QED  BY <1>4 DEF Packing
  <2>. QED  BY <1>4, <2>1
<1>6. /\ Flushed(end) \in Seq(Seq(X)) /\ FlattenSeq(Flushed(end)) = FlattenSeq(end.out) \o end.cur
      /\ Range(Flushed(end)) \subseteq Range(end.out) \cup {end.cur}
  <2>. HIDE DEF end
  <2>. QED  BY <1>5, FlushedIs
<1>. HIDE DEF end
<1>. QED  BY <1>1, <1>5, <1>6 DEF PackHolds, end

-----------------------------------------------------------------------------
(***************************************************************************)
(* Windows: of segments in the order of time, none is lost or moved, and   *)
(* those of one prompt are of one window.                                  *)
(***************************************************************************)
Sorted(pre) == \A m, n \in 1..Len(pre) : m < n => seg[pre[m]].start <= seg[pre[n]].start
OneWindow(w) == \A a, b \in Range(w) : seg[a].start \div WindowS = seg[b].start \div WindowS
CutHolds(pre, acc) ==
  /\ FlattenSeq(acc.out) \o acc.cur = pre
  /\ \A w \in Range(acc.out) \cup {acc.cur} : OneWindow(w)
  /\ acc.cur = <<>> => acc.edge = WindowS
  /\ \A a \in Range(acc.cur) : \/ EdgeAfter(seg[a].start) = acc.edge
                               \/ acc.edge <= seg[a].start

\* Of a sorted sequence, all before the last is no later.
LEMMA SortedIs ==
  ASSUME SegTyped, NEW pre \in Seq(Ids), NEW s \in Ids, Sorted(Append(pre, s))
  PROVE  Sorted(pre) /\ \A a \in Range(pre) : seg[a].start <= seg[s].start
<1>. DEFINE t == Append(pre, s)
<1>1. /\ Len(pre) \in Nat /\ Len(t) = Len(pre) + 1 /\ t[Len(pre) + 1] = s
      /\ \A m \in 1..Len(pre) : t[m] = pre[m]
  OBVIOUS
<1>2. Sorted(t)
  OBVIOUS
<1>. HIDE DEF t
<1>3. Sorted(pre)
  <2>1. \A m \in 1..Len(pre) : m \in 1..Len(t)
    BY <1>1
  <2>. QED  BY <1>1, <1>2, <2>1 DEF Sorted
<1>4. ASSUME NEW a \in Range(pre)
      PROVE  seg[a].start <= seg[s].start
  <2>1. PICK m \in 1..Len(pre) : pre[m] = a
    BY <1>1 DEF Range
  <2>2. m \in 1..Len(t) /\ Len(pre) + 1 \in 1..Len(t) /\ m < Len(pre) + 1
    BY <1>1
  <2>. QED  BY <1>1, <1>2, <2>1, <2>2 DEF Sorted
<1>. QED  BY <1>3, <1>4

LEMMA CutKeeps ==
  ASSUME SegTyped, NEW pre \in Seq(Ids), NEW acc \in Cutting, NEW s \in Ids,
         Sorted(Append(pre, s)), CutHolds(pre, acc)
  PROVE  CutHolds(Append(pre, s), Cut(acc, s))
<1>. DEFINE start(a) == seg[a].start
            q == Cut(acc, s)
            f == FlattenSeq(acc.out)
<1>1. acc.out \in Seq(Seq(Ids)) /\ acc.cur \in Seq(Ids) /\ acc.edge \in Nat
  BY DEF Cutting
<1>2. f \in Seq(Ids)
  BY <1>1, JoinIs
<1>3. \A a \in Ids : start(a) \in Nat
  BY IdsAre
<1>4. Range(acc.cur) \subseteq Ids /\ Range(acc.cur) \subseteq Range(pre)
  <2>1. Range(acc.cur) \subseteq Ids
    BY <1>1, RangeOfSeq
  <2>2. Range(f \o acc.cur) = Range(f) \cup Range(acc.cur)
    <3>. HIDE DEF f
    <3>. QED  BY <1>1, <1>2, RangeConcatenation
  <2>. QED  BY <2>1, <2>2 DEF CutHolds
<1>5. \A a \in Range(acc.cur) : start(a) <= start(s)
  BY <1>4, SortedIs
<1>6. CASE start(s) >= acc.edge /\ acc.cur # <<>>
  <2>1. q.out = Append(acc.out, acc.cur) /\ q.cur = <<s>> /\ q.edge = EdgeAfter(start(s))
    BY <1>6 DEF Cut
  <2>2. FlattenSeq(Append(acc.out, acc.cur)) \o <<s>> = Append(pre, s)
    <3>1. FlattenSeq(Append(acc.out, acc.cur)) = pre
      BY <1>1, JoinIs DEF CutHolds
    <3>. QED  BY <3>1
  <2>3. Range(Append(acc.out, acc.cur)) \subseteq Range(acc.out) \cup {acc.cur}
    BY <1>1 DEF Range
  <2>4. Range(<<s>>) = {s} /\ <<s>> # <<>>
    BY DEF Range
  <2>5. OneWindow(<<s>>)
    BY <2>4 DEF OneWindow
  <2>6. \A w \in Range(Append(acc.out, acc.cur)) : OneWindow(w)
    BY <2>3 DEF CutHolds
  <2>. HIDE DEF q
  <2>7. CutHolds(Append(pre, s), q)
    BY <2>1, <2>2, <2>4, <2>5, <2>6 DEF CutHolds
  <2>. QED  BY <2>7 DEF q
<1>7. CASE ~(start(s) >= acc.edge /\ acc.cur # <<>>)
  <2>1. q.out = acc.out /\ q.cur = Append(acc.cur, s) /\ q.edge = acc.edge
    BY <1>7 DEF Cut
  <2>2. f \o Append(acc.cur, s) = Append(pre, s)
    <3>. DEFINE c == acc.cur
    <3>1. c \in Seq(Ids) /\ f \o c = pre
      BY <1>1 DEF CutHolds
    <3>. HIDE DEF f, c
    <3>2. f \o Append(c, s) = Append(f \o c, s)
      BY <1>2, <3>1, AppendToJoined
    <3>. QED  BY <3>1, <3>2 DEF c
  <2>3. Range(Append(acc.cur, s)) = Range(acc.cur) \cup {s} /\ Append(acc.cur, s) # <<>>
    <3>. DEFINE c == acc.cur
                t == Append(c, s)
    <3>1. c \in Seq(Ids)
      BY <1>1
    <3>. HIDE DEF c
    <3>2. /\ DOMAIN t = DOMAIN c \cup {Len(c) + 1} /\ t[Len(c) + 1] = s
          /\ \A k \in DOMAIN c : t[k] = c[k]
      BY <3>1
    <3>3. t # <<>>
      BY <3>1
    <3>. HIDE DEF t
    <3>4. Range(t) = Range(c) \cup {s}
      BY <3>2 DEF Range
    <3>. QED  BY <3>3, <3>4 DEF t, c
  <2>4. /\ \A a \in Range(acc.cur) : start(a) \div WindowS = start(s) \div WindowS
        /\ EdgeAfter(start(s)) = acc.edge \/ acc.edge <= start(s)
    <3>1. CASE acc.cur = <<>>
      <4>1. acc.edge = WindowS /\ Range(acc.cur) = {}
        BY <3>1 DEF CutHolds, Range
      <4>2. EdgeAfter(0) = WindowS /\ 0 \div WindowS = 0
        BY GroundingAssumption DEF EdgeAfter
      <4>3. start(s) < WindowS => EdgeAfter(start(s)) = EdgeAfter(0)
        <5>1. start(s) < WindowS => start(s) \div WindowS = 0 \div WindowS
          BY <1>3, <4>2, SameWindow
        <5>. QED  BY <5>1 DEF EdgeAfter
      <4>. QED  BY <1>1, <1>3, <4>1, <4>2, <4>3
    <3>2. CASE acc.cur # <<>>
      <4>1. start(s) < acc.edge
        BY <1>1, <1>3, <1>7, <3>2
      <4>2. ASSUME NEW a \in Range(acc.cur)
            PROVE  /\ start(s) \div WindowS = start(a) \div WindowS
                   /\ EdgeAfter(start(s)) = acc.edge
        <5>1. start(a) \in Nat /\ start(s) \in Nat /\ start(a) <= start(s)
          BY <1>3, <1>4, <1>5
        <5>2. EdgeAfter(start(a)) = acc.edge
          BY <1>1, <4>1, <5>1 DEF CutHolds
        <5>3. start(s) \div WindowS = start(a) \div WindowS
          BY <4>1, <5>1, <5>2, SameWindow
        <5>. QED  BY <5>2, <5>3 DEF EdgeAfter
      <4>3. Range(acc.cur) # {}
        <5>1. 1 \in DOMAIN acc.cur
          BY <1>1, <3>2
        <5>. QED  BY <5>1 DEF Range
      <4>. QED  BY <4>2, <4>3
    <3>. QED  BY <3>1, <3>2
  <2>5. OneWindow(Append(acc.cur, s))
    <3>1. \A a \in Range(Append(acc.cur, s)) : start(a) \div WindowS = start(s) \div WindowS
      BY <2>3, <2>4
    <3>. QED  BY <3>1 DEF OneWindow
  <2>6. \A w \in Range(acc.out) : OneWindow(w)
    BY DEF CutHolds
  <2>7. \A a \in Range(Append(acc.cur, s)) :
          EdgeAfter(start(a)) = acc.edge \/ acc.edge <= start(a)
    BY <2>3, <2>4 DEF CutHolds
  <2>. HIDE DEF q
  <2>8. CutHolds(Append(pre, s), q)
    BY <2>1, <2>2, <2>3, <2>5, <2>6, <2>7 DEF CutHolds
  <2>. QED  BY <2>8 DEF q
<1>. QED  BY <1>6, <1>7

LEMMA WindowsAre ==
  ASSUME SegTyped
  PROVE  /\ Windows \in Seq(Seq(Ids)) /\ FlattenSeq(Windows) = InTime
         /\ \A w \in Range(Windows) : OneWindow(w)
<1>. DEFINE J == {j \in Seq(Ids) \X Cutting : Sorted(j[1]) => CutHolds(j[1], j[2])}
<1>1. InTime \in Seq(Ids) /\ Sorted(InTime)
  BY InTimeIs DEF Sorted
<1>2. PICK run : /\ Runs(run, Cutting, CutStep, NoWindow, InTime)
                 /\ Windows = Flushed(run[Len(InTime)])
  BY <1>1, CutRuns
<1>. DEFINE end == run[Len(InTime)]
<1>3. <<<<>>, NoWindow>> \in J
  <2>1. NoWindow \in Cutting
    BY CutIs
  <2>2. <<>> \in Seq(Ids) /\ <<>> \o <<>> = <<>>
    BY ConcatEmptySeq
  <2>3. FlattenSeq(<<>>) = <<>> /\ Range(<<>>) = {}
    BY JoinIs DEF Range
  <2>4. CutHolds(<<>>, NoWindow)
    BY <2>2, <2>3 DEF CutHolds, NoWindow, OneWindow
  <2>. QED  BY <2>1, <2>2, <2>4
<1>4. ASSUME NEW pre \in Seq(Ids), NEW acc \in Cutting, NEW s \in Ids, <<pre, acc>> \in J
      PROVE  <<Append(pre, s), CutStep[<<acc, s>>]>> \in J
  <2>1. Sorted(pre) => CutHolds(pre, acc)
    BY <1>4
  <2>2. CutStep[<<acc, s>>] = Cut(acc, s) /\ CutStep[<<acc, s>>] \in Cutting
    BY CutIs DEF CutStep
  <2>3. Sorted(Append(pre, s)) => CutHolds(Append(pre, s), Cut(acc, s))
    BY <2>1, SortedIs, CutKeeps
  <2>4. Append(pre, s) \in Seq(Ids)
    OBVIOUS
  <2>. QED  BY <2>2, <2>3, <2>4
<1>5. <<InTime, end>> \in J /\ end \in Cutting
  <2>. HIDE DEF J
  <2>. QED  BY <1>1, <1>2, <1>3, <1>4, RunHolds
<1>6. CutHolds(InTime, end) /\ end.out \in Seq(Seq(Ids)) /\ end.cur \in Seq(Ids)
  <2>1. end.out \in Seq(Seq(Ids)) /\ end.cur \in Seq(Ids)
    <3>. HIDE DEF end
    <3>. QED  BY <1>5 DEF Cutting
  <2>. QED  BY <1>1, <1>5, <2>1
<1>7. /\ Flushed(end) \in Seq(Seq(Ids))
      /\ FlattenSeq(Flushed(end)) = FlattenSeq(end.out) \o end.cur
      /\ Range(Flushed(end)) \subseteq Range(end.out) \cup {end.cur}
  <2>. HIDE DEF end
  <2>. QED  BY <1>6, FlushedIs
<1>. HIDE DEF end
<1>. QED  BY <1>2, <1>6, <1>7 DEF CutHolds, end

-----------------------------------------------------------------------------
(***************************************************************************)
(* The prompts of the map stage: windows, and where one is too long, parts *)
(* of it.                                                                  *)
(***************************************************************************)
Packs(ww, size) == [k \in DOMAIN ww |-> Packed(ww[k], size)]

LEMMA PacksAre ==
  ASSUME NEW X, NEW size \in [X -> Nat], NEW ww \in Seq(Seq(X))
  PROVE  Packs(ww, size) \in Seq(Seq(Seq(X)))
<1>1. Len(ww) \in Nat /\ DOMAIN ww = 1..Len(ww) /\ \A k \in 1..Len(ww) : ww[k] \in Seq(X)
  OBVIOUS
<1>2. \A k \in 1..Len(ww) : Packed(ww[k], size) \in Seq(Seq(X))
  BY <1>1, PackedIs
<1>. QED  BY <1>1, <1>2 DEF Packs

LEMMA PacksKeepAll ==
  ASSUME NEW X, NEW size \in [X -> Nat]
  PROVE  \A ww \in Seq(Seq(X)) : FlattenSeq(FlattenSeq(Packs(ww, size))) = FlattenSeq(ww)
<1>. DEFINE P == {ww \in Seq(Seq(X)) :
                    FlattenSeq(FlattenSeq(Packs(ww, size))) = FlattenSeq(ww)}
<1>1. <<>> \in P
  <2>1. <<>> \in Seq(Seq(X)) /\ Packs(<<>>, size) = <<>>
    BY DEF Packs
  <2>. QED  BY <2>1, JoinIs
<1>2. ASSUME NEW ww \in Seq(Seq(X)), NEW w \in Seq(X), ww \in P
      PROVE  Append(ww, w) \in P
  <2>. DEFINE p == Packed(w, size)
              pp == Packs(ww, size)
              vv == Append(ww, w)
  <2>1. p \in Seq(Seq(X)) /\ FlattenSeq(p) = w
    BY PackedIs
  <2>2. pp \in Seq(Seq(Seq(X)))
    BY PacksAre
  <2>3. Packs(vv, size) = Append(pp, p)
    <3>1. /\ Len(vv) = Len(ww) + 1 /\ DOMAIN vv = 1..(Len(ww) + 1) /\ Len(ww) \in Nat
          /\ vv[Len(ww) + 1] = w /\ \A k \in 1..Len(ww) : vv[k] = ww[k]
      OBVIOUS
    <3>2. Len(pp) = Len(ww) /\ \A k \in 1..Len(ww) : pp[k] = Packed(ww[k], size)
      <4>1. DOMAIN pp = 1..Len(ww)
        BY DEF Packs
      <4>. QED  BY <2>2, <3>1, <4>1 DEF Packs
    <3>. HIDE DEF vv
    <3>3. Packs(vv, size) = [k \in 1..(Len(ww) + 1) |-> Packed(vv[k], size)]
      BY <3>1 DEF Packs
    <3>. HIDE DEF pp, p
    <3>4. /\ Append(pp, p) \in [1..(Len(ww) + 1) -> Seq(Seq(X))]
          /\ \A k \in 1..(Len(ww) + 1) :
               Append(pp, p)[k] = IF k <= Len(ww) THEN pp[k] ELSE p
      <4>. DEFINE S == Seq(Seq(X))
      <4>1. p \in S /\ pp \in Seq(S) /\ Len(pp) = Len(ww) /\ Len(ww) \in Nat
        BY <2>1, <2>2, <3>1, <3>2
      <4>. HIDE DEF S
      <4>2. /\ Append(pp, p) \in [1..(Len(ww) + 1) -> S]
            /\ \A k \in 1..(Len(ww) + 1) :
                 Append(pp, p)[k] = IF k <= Len(ww) THEN pp[k] ELSE p
        <5>1. /\ Append(pp, p) \in Seq(S) /\ Len(Append(pp, p)) = Len(ww) + 1
              /\ \A k \in 1..Len(ww) : Append(pp, p)[k] = pp[k]
              /\ Append(pp, p)[Len(ww) + 1] = p
          BY <4>1, AppendProperties
        <5>2. ASSUME NEW k \in 1..(Len(ww) + 1), ~(k <= Len(ww))
              PROVE  k = Len(ww) + 1
          BY <4>1, <5>2
        <5>3. ASSUME NEW k \in 1..(Len(ww) + 1), k <= Len(ww)
              PROVE  k \in 1..Len(ww)
          BY <4>1, <5>3
        <5>. DEFINE v == Append(pp, p)
        <5>4. v \in Seq(S) /\ Len(v) = Len(ww) + 1
          BY <5>1
        <5>5. \A k \in 1..(Len(ww) + 1) : v[k] = IF k <= Len(ww) THEN pp[k] ELSE p
          BY <5>1, <5>2, <5>3
        <5>. HIDE DEF v
        <5>6. v \in [1..(Len(ww) + 1) -> S]
          BY <5>4
        <5>. QED  BY <5>5, <5>6 DEF v
      <4>. QED  BY <4>2 DEF S
    <3>5. \A k \in 1..(Len(ww) + 1) : Append(pp, p)[k] = Packed(vv[k], size)
      <4>1. SUFFICES ASSUME NEW k \in 1..(Len(ww) + 1)
                     PROVE  Append(pp, p)[k] = Packed(vv[k], size)
        OBVIOUS
      <4>2. CASE k <= Len(ww)
        <5>1. k \in 1..Len(ww)
          BY <3>1, <4>2
        <5>. QED  BY <3>1, <3>2, <3>4, <4>2, <5>1
      <4>3. CASE ~(k <= Len(ww))
        <5>1. k = Len(ww) + 1
          BY <3>1, <4>3
        <5>. QED  BY <3>1, <3>4, <4>3, <5>1 DEF p
      <4>. QED  BY <4>2, <4>3
    <3>. QED  BY <3>3, <3>4, <3>5
  <2>4. FlattenSeq(Append(pp, p)) = FlattenSeq(pp) \o p /\ FlattenSeq(pp) \in Seq(Seq(X))
    <3>. HIDE DEF pp, p
    <3>. QED  BY <2>1, <2>2, JoinIs
  <2>5. FlattenSeq(FlattenSeq(pp) \o p) = FlattenSeq(FlattenSeq(pp)) \o FlattenSeq(p)
    <3>. HIDE DEF pp, p
    <3>. QED  BY <2>1, <2>4, JoinOfJoined
  <2>6. FlattenSeq(vv) = FlattenSeq(ww) \o w /\ vv \in Seq(Seq(X))
    BY JoinIs
  <2>. HIDE DEF vv, p
  <2>7. vv \in P
    BY <1>2, <2>1, <2>3, <2>4, <2>5, <2>6
  <2>. QED  BY <2>7 DEF vv
<1>3. Seq(Seq(X)) \subseteq P
  <2>. HIDE DEF P
  <2>. QED  BY <1>1, <1>2, SequenceInduction
<1>. QED  BY <1>3

LEMMA SizedIs ==
  ASSUME SegTyped
  PROVE  /\ Sized \in Seq(Seq(Ids)) /\ FlattenSeq(Sized) = InTime
         /\ \A w \in Range(Sized) : FitsOrAlone(w, Cost) /\ OneWindow(w)
<1>. DEFINE pp == Packs(Windows, Cost)
<1>1. /\ Windows \in Seq(Seq(Ids)) /\ FlattenSeq(Windows) = InTime /\ Cost \in [Ids -> Nat]
      /\ \A k \in DOMAIN Windows : Windows[k] \in Seq(Ids) /\ OneWindow(Windows[k])
  <2>1. \A k \in DOMAIN Windows : Windows[k] \in Range(Windows)
    BY DEF Range
  <2>2. Windows \in Seq(Seq(Ids))
    BY WindowsAre
  <2>3. \A k \in DOMAIN Windows : Windows[k] \in Seq(Ids)
    BY <2>2
  <2>. QED  BY <2>1, <2>2, <2>3, WindowsAre, IdsAre
<1>2. Sized = FlattenSeq(pp) /\ pp \in Seq(Seq(Seq(Ids)))
  <2>1. Sized = FlattenSeq(pp)
    BY DEF Sized, Packs
  <2>. QED  BY <1>1, <2>1, PacksAre
<1>3. Sized \in Seq(Seq(Ids)) /\ FlattenSeq(Sized) = InTime
  BY <1>1, <1>2, JoinIs, PacksKeepAll
<1>4. ASSUME NEW w \in Range(Sized)
      PROVE  FitsOrAlone(w, Cost) /\ OneWindow(w)
  <2>1. PICK k \in DOMAIN pp : w \in Range(pp[k])
    <3>. HIDE DEF pp
    <3>1. Range(Sized) = UNION {Range(pp[k]) : k \in DOMAIN pp}
      BY <1>2, JoinRange
    <3>. QED  BY <3>1
  <2>2. k \in DOMAIN Windows /\ pp[k] = Packed(Windows[k], Cost)
    BY DEF Packs
  <2>. DEFINE v == Windows[k]
              p == Packed(v, Cost)
  <2>3. v \in Seq(Ids) /\ OneWindow(v)
    BY <1>1, <2>2
  <2>. HIDE DEF v, pp
  <2>4. p \in Seq(Seq(Ids)) /\ FlattenSeq(p) = v /\ FitsOrAlone(w, Cost)
    BY <1>1, <2>1, <2>2, <2>3, PackedIs DEF v
  <2>. HIDE DEF p
  <2>5. Range(w) \subseteq Range(v)
    <3>1. Range(v) = UNION {Range(p[j]) : j \in DOMAIN p}
      BY <2>4, JoinRange
    <3>2. PICK j \in DOMAIN p : w = p[j]
      BY <2>1, <2>2 DEF Range, p, v
    <3>. QED  BY <3>1, <3>2
  <2>. QED  BY <2>3, <2>4, <2>5 DEF OneWindow
<1>. QED  BY <1>3, <1>4

-----------------------------------------------------------------------------
(***************************************************************************)
(* Excerpts: what is used of the budget is what the chosen segments cost,  *)
(* in whatever order they are put.                                         *)
(***************************************************************************)
Once(t) == \A m, n \in 1..Len(t) : m # n => t[m] # t[n]

LEMMA AppendOnce ==
  ASSUME NEW X, NEW s \in Seq(X), NEW x \in X
  PROVE  /\ Range(Append(s, x)) = Range(s) \cup {x}
         /\ Once(Append(s, x)) <=> Once(s) /\ x \notin Range(s)
<1>. DEFINE t == Append(s, x)
<1>1. /\ Len(t) = Len(s) + 1 /\ Len(s) \in Nat /\ t[Len(s) + 1] = x
      /\ \A m \in 1..Len(s) : t[m] = s[m]
      /\ DOMAIN t = 1..(Len(s) + 1) /\ DOMAIN s = 1..Len(s)
  BY AppendProperties
<1>. HIDE DEF t
<1>2. \A m \in 1..(Len(s) + 1) : m \in 1..Len(s) \/ m = Len(s) + 1
  BY <1>1
<1>3. \A m \in 1..Len(s) : m \in 1..(Len(s) + 1) /\ m # Len(s) + 1
  BY <1>1
<1>4. Len(s) + 1 \in 1..(Len(s) + 1)
  BY <1>1
<1>5. Range(t) = Range(s) \cup {x}
  BY <1>1, <1>2, <1>3, <1>4 DEF Range
<1>6. Once(t) => Once(s) /\ x \notin Range(s)
  BY <1>1, <1>3, <1>4 DEF Once, Range
<1>7. Once(s) /\ x \notin Range(s) => Once(t)
  BY <1>1, <1>2 DEF Once, Range
<1>. QED  BY <1>5, <1>6, <1>7 DEF t

\* A list without one of its places is as much shorter as that place counts.
Without(t, k, u, size) ==
  Once(u) /\ Range(u) = Range(t) \ {t[k]} /\ SizeOf(t, size) = SizeOf(u, size) + size[t[k]]

LEMMA SizeWithout ==
  ASSUME NEW X, NEW size \in [X -> Nat]
  PROVE  \A t \in Seq(X) : Once(t) =>
           \A k \in 1..Len(t) : \E u \in Seq(X) : Without(t, k, u, size)
<1>. DEFINE P == {t \in Seq(X) : Once(t) =>
                    \A k \in 1..Len(t) : \E u \in Seq(X) : Without(t, k, u, size)}
<1>1. <<>> \in P
  OBVIOUS
<1>2. ASSUME NEW s \in Seq(X), NEW x \in X, s \in P
      PROVE  Append(s, x) \in P
  <2>. DEFINE t == Append(s, x)
  <2>1. /\ t \in Seq(X) /\ Len(t) = Len(s) + 1 /\ Len(s) \in Nat /\ t[Len(s) + 1] = x
        /\ \A m \in 1..Len(s) : t[m] = s[m]
    BY AppendProperties
  <2>2. Range(t) = Range(s) \cup {x} /\ (Once(t) <=> Once(s) /\ x \notin Range(s))
    BY AppendOnce
  <2>3. SizeOf(t, size) = SizeOf(s, size) + size[x] /\ SizeOf(s, size) \in Nat /\ size[x] \in Nat
    BY SizeIs
  <2>. HIDE DEF t
  <2>4. ASSUME Once(t), NEW k \in 1..Len(t)
        PROVE  \E u \in Seq(X) : Without(t, k, u, size)
    <3>1. CASE k = Len(s) + 1
      BY <2>1, <2>2, <2>3, <2>4, <3>1 DEF Without
    <3>2. CASE k # Len(s) + 1
      <4>1. k \in 1..Len(s) /\ t[k] = s[k]
        BY <2>1, <2>4, <3>2
      <4>2. PICK u \in Seq(X) : Without(s, k, u, size)
        BY <1>2, <2>2, <2>4, <4>1
      <4>. DEFINE v == Append(u, x)
      <4>3. /\ v \in Seq(X) /\ Range(v) = Range(u) \cup {x}
            /\ Once(v) <=> Once(u) /\ x \notin Range(u)
        BY AppendOnce
      <4>4. /\ SizeOf(v, size) = SizeOf(u, size) + size[x] /\ SizeOf(u, size) \in Nat
            /\ size[s[k]] \in Nat
        <5>1. s[k] \in X
          BY <4>1
        <5>. QED  BY <5>1, SizeIs
      <4>. HIDE DEF v
      <4>5. s[k] \in Range(s)
        BY <4>1 DEF Range
      <4>6. Once(v) /\ Range(v) = Range(t) \ {t[k]}
        BY <2>2, <2>4, <4>1, <4>2, <4>3, <4>5 DEF Without
      <4>7. SizeOf(t, size) = SizeOf(v, size) + size[t[k]]
        BY <2>3, <4>1, <4>2, <4>4 DEF Without
      <4>. QED  BY <4>3, <4>6, <4>7 DEF Without
    <3>. QED  BY <3>1, <3>2
  <2>. QED  BY <2>1, <2>4 DEF t
<1>3. Seq(X) \subseteq P
  <2>. HIDE DEF P
  <2>. QED  BY <1>1, <1>2, SequenceInduction
<1>. QED  BY <1>3

Choosing == [chosen : SUBSET Ids, used : Nat, stop : BOOLEAN]
Tallied(acc) ==
  /\ acc.used <= Budget
  /\ \A t \in Seq(Ids) : Once(t) /\ Range(t) = acc.chosen => SizeOf(t, Cost) = acc.used

LEMMA NoneIs ==
  ASSUME SegTyped
  PROVE  None \in Choosing /\ Tallied(None)
<1>1. None \in Choosing /\ None.used = 0 /\ None.chosen = {} /\ 0 <= Budget
  BY GroundingAssumption DEF None, Choosing
<1>2. ASSUME NEW t \in Seq(Ids), Range(t) = {}
      PROVE  SizeOf(t, Cost) = 0
  <2>1. t = <<>>
    <3>1. SUFFICES ASSUME t # <<>>
                   PROVE  FALSE
      OBVIOUS
    <3>2. 1 \in DOMAIN t
      BY <3>1
    <3>. QED  BY <1>2, <3>2 DEF Range
  <2>. QED  BY <2>1, IdsAre, SizeIs
<1>. QED  BY <1>1, <1>2 DEF Tallied

\* The tally looks at the segments and at the sum, not at the stop.
LEMMA SameTally ==
  ASSUME NEW acc, NEW q, Tallied(acc), q.used = acc.used, q.chosen = acc.chosen
  PROVE  Tallied(q)
BY DEF Tallied

LEMMA IncludeIs ==
  ASSUME SegTyped, NEW acc \in Choosing, NEW s
  PROVE  Include(acc, s) \in Choosing /\ (Tallied(acc) => Tallied(Include(acc, s)))
<1>. DEFINE q == Include(acc, s)
<1>1. CASE s \notin Ids \/ s \in acc.chosen \/ acc.used + Cost[s] > Budget
  BY <1>1 DEF Include
<1>2. CASE ~(s \notin Ids \/ s \in acc.chosen \/ acc.used + Cost[s] > Budget)
  <2>1. q = [acc EXCEPT !.chosen = @ \cup {s}, !.used = @ + Cost[s]]
    BY <1>2 DEF Include
  <2>2. s \in Ids /\ s \notin acc.chosen /\ ~(acc.used + Cost[s] > Budget) /\ Cost \in [Ids -> Nat]
        /\ Cost[s] \in Nat /\ acc.used \in Nat /\ Budget \in Nat /\ acc.chosen \in SUBSET Ids
    BY <1>2, IdsAre, GroundingAssumption DEF Choosing
  <2>3. q \in Choosing /\ q.chosen = acc.chosen \cup {s} /\ q.used = acc.used + Cost[s]
    <3>. DEFINE c == Cost[s]
    <3>1. acc.chosen \cup {s} \in SUBSET Ids /\ acc.used + c \in Nat /\ c = Cost[s]
      BY <2>2
    <3>. HIDE DEF c, q
    <3>2. q = [acc EXCEPT !.chosen = @ \cup {s}, !.used = @ + c]
      BY <2>1, <3>1
    <3>3. q \in Choosing /\ q.chosen = acc.chosen \cup {s} /\ q.used = acc.used + c
      BY <3>1, <3>2 DEF Choosing
    <3>. QED  BY <3>1, <3>3
  <2>. HIDE DEF q
  <2>4. ASSUME Tallied(acc), NEW t \in Seq(Ids), Once(t), Range(t) = q.chosen
        PROVE  SizeOf(t, Cost) = q.used
    <3>1. PICK k \in 1..Len(t) : t[k] = s
      <4>1. s \in Range(t)
        BY <2>3, <2>4
      <4>. QED  BY <4>1 DEF Range
    <3>2. PICK u \in Seq(Ids) : Without(t, k, u, Cost)
      BY <2>2, <2>4, SizeWithout
    <3>3. Once(u) /\ Range(u) = acc.chosen
      BY <2>2, <2>3, <2>4, <3>1, <3>2 DEF Without
    <3>4. SizeOf(u, Cost) = acc.used
      BY <2>4, <3>3 DEF Tallied
    <3>. QED  BY <2>3, <3>1, <3>2, <3>4 DEF Without
  <2>5. q.used <= Budget
    BY <2>2, <2>3
  <2>6. Tallied(acc) => Tallied(q)
    BY <2>4, <2>5 DEF Tallied
  <2>. QED  BY <2>3, <2>6 DEF q
<1>. QED  BY <1>1, <1>2

LEMMA StopIs ==
  ASSUME NEW acc \in Choosing, NEW b \in BOOLEAN
  PROVE  /\ [acc EXCEPT !.stop = b] \in Choosing
         /\ Tallied(acc) => Tallied([acc EXCEPT !.stop = b])
<1>. DEFINE q == [acc EXCEPT !.stop = b]
<1>1. q \in Choosing /\ q.used = acc.used /\ q.chosen = acc.chosen
  BY DEF Choosing
<1>. HIDE DEF q
<1>. QED  BY <1>1, SameTally DEF q

LEMMA TryBestIs ==
  ASSUME SegTyped, NEW acc \in Choosing, NEW s, NEW sc
  PROVE  TryBest(acc, s, sc) \in Choosing /\ (Tallied(acc) => Tallied(TryBest(acc, s, sc)))
<1>. DEFINE a == Include(acc, s - 1)
            b == Include(a, s)
            near == Include(b, s + 1)
            full == near.used * 20 >= Budget * 19
<1>1. a \in Choosing /\ (Tallied(acc) => Tallied(a))
  BY IncludeIs
<1>. HIDE DEF a
<1>2. b \in Choosing /\ (Tallied(a) => Tallied(b))
  BY <1>1, IncludeIs
<1>. HIDE DEF b
<1>3. near \in Choosing /\ (Tallied(b) => Tallied(near))
  BY <1>2, IncludeIs
<1>4. \/ TryBest(acc, s, sc) = [acc EXCEPT !.stop = TRUE]
      \/ TryBest(acc, s, sc) = [near EXCEPT !.stop = full]
  BY DEF TryBest, a, b
<1>5. full \in BOOLEAN
  OBVIOUS
<1>. HIDE DEF near, full
<1>6. /\ [acc EXCEPT !.stop = TRUE] \in Choosing
      /\ Tallied(acc) => Tallied([acc EXCEPT !.stop = TRUE])
  BY StopIs
<1>7. /\ [near EXCEPT !.stop = full] \in Choosing
      /\ Tallied(near) => Tallied([near EXCEPT !.stop = full])
  BY <1>3, <1>5, StopIs
<1>. QED  BY <1>1, <1>2, <1>3, <1>4, <1>6, <1>7

LEMMA TryRecentIs ==
  ASSUME SegTyped, NEW acc \in Choosing, NEW s
  PROVE  TryRecent(acc, s) \in Choosing /\ (Tallied(acc) => Tallied(TryRecent(acc, s)))
<1>1. \/ TryRecent(acc, s) = [acc EXCEPT !.stop = TRUE]
      \/ TryRecent(acc, s) = Include(acc, s)
  BY DEF TryRecent
<1>2. /\ [acc EXCEPT !.stop = TRUE] \in Choosing
      /\ Tallied(acc) => Tallied([acc EXCEPT !.stop = TRUE])
  BY StopIs
<1>. QED  BY <1>1, <1>2, IncludeIs

BestStep(sc) == [p \in Choosing \X Ids |-> TryBest(p[1], p[2], sc)]
RecentStep == [p \in Choosing \X Ids |-> TryRecent(p[1], p[2])]

LEMMA StepsAre ==
  ASSUME SegTyped, NEW sc
  PROVE  /\ None \in Choosing /\ BestStep(sc) \in [Choosing \X Ids -> Choosing]
         /\ RecentStep \in [Choosing \X Ids -> Choosing]
<1>1. \A acc \in Choosing, s \in Ids : TryBest(acc, s, sc) \in Choosing
  BY TryBestIs
<1>2. \A acc \in Choosing, s \in Ids : TryRecent(acc, s) \in Choosing
  BY TryRecentIs
<1>. QED  BY <1>1, <1>2, NoneIs DEF BestStep, RecentStep

LEMMA BestRuns ==
  ASSUME SegTyped, NEW sc, NEW items, items = Ranked(sc), items \in Seq(Ids)
  PROVE  \E run : /\ Runs(run, Choosing, BestStep(sc), None, items)
                 /\ Best(sc) = run[Len(items)].chosen
<1>. DEFINE Body(g, s) == IF s = {} THEN None
                          ELSE TryBest(g[s \ {Max(s)}], items[Max(s)], sc)
            D == SUBSET DOMAIN items
            Folds(g) == g = [s \in D |-> Body(g, s)]
            iter == CHOOSE g : Folds(g)
            st == BestStep(sc)
            len == Len(items)
<1>1. Best(sc) = iter[DOMAIN items].chosen
  BY DEF Best, FoldLeft, MapThenFoldSet
<1>2. None \in Choosing /\ st \in [Choosing \X Ids -> Choosing]
  BY StepsAre
<1>3. PICK g : FoldsOver(g, Choosing, st, None, items)
  <2>. HIDE DEF st, Body, iter, Folds
  <2>. QED  BY <1>2, FoldExists
<1>4. DOMAIN items = 1..len /\ len \in Nat /\ \A k \in 1..len : items[k] \in Ids
  OBVIOUS
<1>5. \A y \in Choosing, x \in Ids : st[<<y, x>>] = TryBest(y, x, sc)
  BY DEF BestStep
<1>. HIDE DEF st
<1>6. ASSUME NEW s \in D
      PROVE  g[s] = Body(g, s)
  <2>1. CASE s = {}
    BY <1>3, <2>1 DEF FoldsOver, FoldBody
  <2>2. CASE s # {}
    <3>1. Max(s) \in DOMAIN items
      BY <1>4, <2>2, MaxOfSome
    <3>2. items[Max(s)] \in Ids /\ g[s \ {Max(s)}] \in Choosing
      BY <1>3, <1>4, <3>1 DEF FoldsOver
    <3>. QED  BY <1>3, <1>5, <2>2, <3>2 DEF FoldsOver, FoldBody
  <2>. QED  BY <2>1, <2>2
<1>7. Folds(g)
  <2>1. g = [s \in D |-> g[s]]
    BY <1>3 DEF FoldsOver
  <2>. HIDE DEF Body
  <2>. QED  BY <1>6, <2>1
<1>8. Folds(iter)
  <2>. HIDE DEF Folds
  <2>. QED  BY <1>7
<1>9. \A s \in D : iter[s] = Body(iter, s)
  <2>. HIDE DEF iter, Body
  <2>. QED  BY <1>8
<1>. HIDE DEF iter
<1>10. iter[{}] = None
  BY <1>9
<1>11. ASSUME NEW k \in 1..len, iter[1..(k - 1)] \in Choosing
       PROVE  iter[1..k] = st[<<iter[1..(k - 1)], items[k]>>]
  <2>1. 1..k \in D /\ 1..k # {} /\ Max(1..k) = k /\ (1..k) \ {k} = 1..(k - 1)
    BY <1>4, FirstPlaces
  <2>2. iter[1..k] = TryBest(iter[1..(k - 1)], items[k], sc)
    BY <1>9, <2>1
  <2>. QED  BY <1>4, <1>5, <1>11, <2>2
<1>. QED
  <2>1. RunEnds(iter[DOMAIN items], Choosing, st, None, items)
    <3>. HIDE DEF Body, D, Folds
    <3>1. \A k \in 1..Len(items) : iter[1..(k - 1)] \in Choosing =>
            iter[1..k] = st[<<iter[1..(k - 1)], items[k]>>]
      BY <1>11
    <3>. QED  BY <1>2, <1>10, <3>1, FoldRuns
  <2>. QED  BY <1>1, <2>1 DEF st, RunEnds

LEMMA RecentRuns ==
  ASSUME SegTyped, NEW items, items = LatestFirst, items \in Seq(Ids)
  PROVE  \E run : /\ Runs(run, Choosing, RecentStep, None, items)
                 /\ Recent = run[Len(items)].chosen
<1>. DEFINE Body(g, s) == IF s = {} THEN None
                          ELSE TryRecent(g[s \ {Max(s)}], items[Max(s)])
            D == SUBSET DOMAIN items
            Folds(g) == g = [s \in D |-> Body(g, s)]
            iter == CHOOSE g : Folds(g)
            st == RecentStep
            len == Len(items)
<1>1. Recent = iter[DOMAIN items].chosen
  BY DEF Recent, FoldLeft, MapThenFoldSet
<1>2. None \in Choosing /\ st \in [Choosing \X Ids -> Choosing]
  BY StepsAre
<1>3. PICK g : FoldsOver(g, Choosing, st, None, items)
  <2>. HIDE DEF st, Body, iter, Folds
  <2>. QED  BY <1>2, FoldExists
<1>4. DOMAIN items = 1..len /\ len \in Nat /\ \A k \in 1..len : items[k] \in Ids
  OBVIOUS
<1>5. \A y \in Choosing, x \in Ids : st[<<y, x>>] = TryRecent(y, x)
  BY DEF RecentStep
<1>. HIDE DEF st
<1>6. ASSUME NEW s \in D
      PROVE  g[s] = Body(g, s)
  <2>1. CASE s = {}
    BY <1>3, <2>1 DEF FoldsOver, FoldBody
  <2>2. CASE s # {}
    <3>1. Max(s) \in DOMAIN items
      BY <1>4, <2>2, MaxOfSome
    <3>2. items[Max(s)] \in Ids /\ g[s \ {Max(s)}] \in Choosing
      BY <1>3, <1>4, <3>1 DEF FoldsOver
    <3>. QED  BY <1>3, <1>5, <2>2, <3>2 DEF FoldsOver, FoldBody
  <2>. QED  BY <2>1, <2>2
<1>7. Folds(g)
  <2>1. g = [s \in D |-> g[s]]
    BY <1>3 DEF FoldsOver
  <2>. HIDE DEF Body
  <2>. QED  BY <1>6, <2>1
<1>8. Folds(iter)
  <2>. HIDE DEF Folds
  <2>. QED  BY <1>7
<1>9. \A s \in D : iter[s] = Body(iter, s)
  <2>. HIDE DEF iter, Body
  <2>. QED  BY <1>8
<1>. HIDE DEF iter
<1>10. iter[{}] = None
  BY <1>9
<1>11. ASSUME NEW k \in 1..len, iter[1..(k - 1)] \in Choosing
       PROVE  iter[1..k] = st[<<iter[1..(k - 1)], items[k]>>]
  <2>1. 1..k \in D /\ 1..k # {} /\ Max(1..k) = k /\ (1..k) \ {k} = 1..(k - 1)
    BY <1>4, FirstPlaces
  <2>2. iter[1..k] = TryRecent(iter[1..(k - 1)], items[k])
    BY <1>9, <2>1
  <2>. QED  BY <1>4, <1>5, <1>11, <2>2
<1>. QED
  <2>1. RunEnds(iter[DOMAIN items], Choosing, st, None, items)
    <3>. HIDE DEF Body, D, Folds
    <3>1. \A k \in 1..Len(items) : iter[1..(k - 1)] \in Choosing =>
            iter[1..k] = st[<<iter[1..(k - 1)], items[k]>>]
      BY <1>11
    <3>. QED  BY <1>2, <1>10, <3>1, FoldRuns
  <2>. QED  BY <1>1, <2>1 DEF st, RunEnds

LEMMA OrdersAre ==
  ASSUME SegTyped, NEW sc \in [Ids -> Scores]
  PROVE  /\ Ranked(sc) \in Seq(Ids) /\ LatestFirst \in Seq(Ids)
<1>1. /\ IsFiniteSet(Ids) /\ Ids \subseteq Nat /\ \A s \in Ids : sc[s] \in Nat
  BY IdsAre, GroundingAssumption
<1>2. Ranked(sc) \in Seq(Ids)
  <2>. DEFINE R == {p \in Ids \X Ids : Better(p[1], p[2], sc)}
  <2>1. \A a, b \in Ids : <<a, b>> \in R <=> Better(a, b, sc)
    OBVIOUS
  <2>2. Ranked(sc) = InOrder(Ids, R)
    BY DEF Ranked
  <2>. HIDE DEF R
  <2>3. \A x \in Ids : ~Better(x, x, sc)
    BY <1>1 DEF Better
  <2>4. \A x, y, z \in Ids : Better(x, y, sc) /\ Better(y, z, sc) => Better(x, z, sc)
    BY <1>1 DEF Better
  <2>5. \A x, y \in Ids : x # y => Better(x, y, sc) \/ Better(y, x, sc)
    BY <1>1 DEF Better
  <2>6. Orders(R, Ids)
    BY <2>1, <2>3, <2>4, <2>5 DEF Orders
  <2>. QED  BY <1>1, <2>2, <2>6, InOrderIs, ListIsSeq
<1>3. LatestFirst \in Seq(Ids)
  <2>. DEFINE R == {p \in Ids \X Ids : p[1] > p[2]}
  <2>1. \A a, b \in Ids : <<a, b>> \in R <=> a > b
    OBVIOUS
  <2>2. LatestFirst = InOrder(Ids, R)
    BY DEF LatestFirst
  <2>. HIDE DEF R
  <2>3. Orders(R, Ids)
    BY <1>1, <2>1 DEF Orders
  <2>. QED  BY <1>1, <2>2, <2>3, InOrderIs, ListIsSeq
<1>. QED  BY <1>2, <1>3

\* What a fold of steps that keep the tally chooses fits.
LEMMA ChoosingKeeps ==
  ASSUME SegTyped, NEW st, NEW items \in Seq(Ids), NEW run,
         Runs(run, Choosing, st, None, items),
         \A acc \in Choosing, s \in Ids : Tallied(acc) => Tallied(st[<<acc, s>>])
  PROVE  Tallied(run[Len(items)]) /\ run[Len(items)] \in Choosing
<1>1. \A k \in 1..Len(items) : st[<<run[k - 1], items[k]>>] = run[k]
  BY DEF Runs
<1>. DEFINE P == {k \in 0..Len(items) : Tallied(run[k])}
<1>3. Len(items) \in Nat /\ \A k \in 0..Len(items) : run[k] \in Choosing
  BY DEF Runs
<1>4. 0 \in P
  BY <1>3, NoneIs DEF Runs
<1>5. ASSUME NEW k \in 1..Len(items), k - 1 \in P
      PROVE  k \in P
  <2>1. items[k] \in Ids /\ k - 1 \in 0..Len(items) /\ k \in 0..Len(items)
    BY <1>3
  <2>. QED  BY <1>1, <1>3, <1>5, <2>1
<1>6. \A k \in 0..Len(items) : k \in P
  <2>. HIDE DEF P
  <2>. QED  BY <1>3, <1>4, <1>5, Counts
<1>7. Len(items) \in 0..Len(items)
  BY <1>3
<1>. QED  BY <1>3, <1>6, <1>7

LEMMA ChosenIs ==
  ASSUME SegTyped, NEW sc \in [Ids -> Scores]
  PROVE  /\ Chosen(sc) \subseteq Ids
         /\ \A t \in Seq(Ids) : Once(t) /\ Range(t) = Chosen(sc) => SizeOf(t, Cost) <= Budget
<1>1. PICK r : Runs(r, Choosing, BestStep(sc), None, Ranked(sc)) /\ Best(sc) = r[Len(Ranked(sc))].chosen
  BY OrdersAre, BestRuns
<1>2. PICK q : Runs(q, Choosing, RecentStep, None, LatestFirst) /\ Recent = q[Len(LatestFirst)].chosen
  BY OrdersAre, RecentRuns
<1>. DEFINE a == r[Len(Ranked(sc))]
            b == q[Len(LatestFirst)]
<1>3. \A acc \in Choosing, s \in Ids : Tallied(acc) => Tallied(BestStep(sc)[<<acc, s>>])
  BY TryBestIs DEF BestStep
<1>4. \A acc \in Choosing, s \in Ids : Tallied(acc) => Tallied(RecentStep[<<acc, s>>])
  BY TryRecentIs DEF RecentStep
<1>5. Tallied(a) /\ a \in Choosing
  BY <1>1, <1>3, OrdersAre, ChoosingKeeps
<1>6. Tallied(b) /\ b \in Choosing
  BY <1>2, <1>4, OrdersAre, ChoosingKeeps
<1>7. Chosen(sc) = a.chosen \/ Chosen(sc) = b.chosen
  BY <1>1, <1>2 DEF Chosen
<1>. HIDE DEF a, b
<1>. QED  BY <1>5, <1>6, <1>7 DEF Tallied, Choosing

LEMMA ExcerptsAre ==
  ASSUME SegTyped, NEW sc \in [Ids -> Scores]
  PROVE  SelectExcerpts(sc) \in Seq(Ids) /\ SizeOf(SelectExcerpts(sc), Cost) <= Budget
<1>. DEFINE R == {p \in Ids \X Ids : p[1] < p[2]}
            S == Chosen(sc)
            f == SelectExcerpts(sc)
<1>1. S \subseteq Ids /\ IsFiniteSet(S) /\ Ids \subseteq Nat
  BY ChosenIs, IdsAre, FS_Subset
<1>2. \A a, b \in Ids : <<a, b>> \in R <=> a < b
  OBVIOUS
<1>3. f = InOrder(S, R)
  BY DEF SelectExcerpts
<1>. HIDE DEF R, f
<1>4. Orders(R, S)
  <2>1. \A x \in S : x \in Ids /\ x \in Nat
    BY <1>1
  <2>2. \A x, y \in S : <<x, y>> \in R <=> x < y
    BY <1>2, <2>1
  <2>. HIDE DEF S
  <2>. QED  BY <2>1, <2>2 DEF Orders
<1>5. f \in Seq(S) /\ Range(f) = S /\ Once(f)
  BY <1>1, <1>3, <1>4, InOrderIs, ListIsSeq DEF Once
<1>6. f \in Seq(Ids)
  BY <1>1, <1>5
<1>. QED  BY <1>5, <1>6, ChosenIs DEF f

-----------------------------------------------------------------------------
(***************************************************************************)
(* Citations.  Backed: every number a bullet shows has its segment, and    *)
(* the model cited that segment.  The bullets of the notes and of the      *)
(* merged notes are backed, and what a retry may fall back on cites only   *)
(* the numbers of the prompt it repeats.                                   *)
(***************************************************************************)
Note == [bullets : SUBSET SUBSET Nat, size : Nat]

Shapes ==
  /\ SegTyped
  /\ prompts \in Seq(Seq(Ids)) /\ index \in Seq(Ids)
  /\ notes \in Seq(Note) /\ merged \in Seq(Note)
  /\ call.fallback \in SUBSET SUBSET SUBSET Nat
  /\ pc \in {"start", "answer"} => sources = {} /\ notes = <<>> /\ merged = <<>>

Backed(b) == \A m \in Visible(b) : m \in DOMAIN index /\ index[m] \in said
NotesBacked(ns) == \A k \in DOMAIN ns : \A b \in ns[k].bullets : Backed(b)

Within(replies, allowed) == \A bullets \in replies : MarkersIn(bullets) \subseteq allowed
FallbackWithin ==
  \/ call.fallback = {}
  \/ /\ pc = "map" /\ Len(notes) < Len(prompts)
     /\ Within(call.fallback, DOMAIN prompts[Len(notes) + 1])
  \/ /\ pc = "merge" /\ Len(merged) < Len(Groups)
     /\ Within(call.fallback, Allowed(Groups[Len(merged) + 1]))
  \/ pc = "final" /\ Within(call.fallback, Allowed(notes))

LEMMA MarkersOf ==
  ASSUME NEW bullets, NEW allowed
  PROVE  MarkersIn(bullets) \subseteq allowed <=>
           \A b \in bullets : \A m \in Visible(b) : m \in allowed
BY DEF MarkersIn, Visible

LEMMA AllowedOf ==
  ASSUME NEW texts, NEW m
  PROVE  m \in Allowed(texts) <=>
           \E k \in DOMAIN texts : \E b \in texts[k].bullets : m \in Visible(b)
<1>1. m \in Allowed(texts) <=> \E note \in Range(texts) : \E b \in note.bullets : m \in Visible(b)
  BY DEF Allowed, MarkersIn, Visible
<1>. QED  BY <1>1 DEF Range

LEMMA BackedOf ==
  ASSUME NEW ns, NotesBacked(ns), NEW bullets, MarkersIn(bullets) \subseteq Allowed(ns)
  PROVE  \A b \in bullets : Backed(b)
<1>1. SUFFICES ASSUME NEW b \in bullets, NEW m \in Visible(b)
               PROVE  m \in DOMAIN index /\ index[m] \in said
  BY DEF Backed
<1>2. m \in Allowed(ns)
  BY MarkersOf
<1>3. PICK k \in DOMAIN ns : \E c \in ns[k].bullets : m \in Visible(c)
  BY <1>2, AllowedOf
<1>. QED  BY <1>3 DEF NotesBacked, Backed

\* Of what a reply cites, the prompt's numbers are let through.
LEMMA StrippedIs ==
  ASSUME NEW bullets \in SUBSET SUBSET Nat, NEW allowed
  PROVE  /\ Stripped(bullets, allowed) \in SUBSET SUBSET Nat
         /\ MarkersIn(Stripped(bullets, allowed)) \subseteq allowed
<1>1. Stripped(bullets, allowed) \in SUBSET SUBSET Nat
  <2>1. ASSUME NEW c \in Stripped(bullets, allowed)
        PROVE  c \subseteq Nat
    <3>1. PICK b \in bullets : c \subseteq b
      BY <2>1 DEF Stripped
    <3>. QED  BY <3>1
  <2>. QED  BY <2>1
<1>2. ASSUME NEW c \in Stripped(bullets, allowed), NEW m \in Visible(c)
      PROVE  m \in allowed
  <2>1. m \in c /\ m <= MaxMarker
    BY <1>2 DEF Visible
  <2>2. m \in Visible({m})
    BY <2>1 DEF Visible
  <2>. QED  BY <2>1, <2>2 DEF Stripped
<1>. QED  BY <1>1, <1>2, MarkersOf

LEMMA UsableIs ==
  ASSUME NEW allowed, NEW o, Within(call.fallback, allowed),
         call.fallback \in SUBSET SUBSET SUBSET Nat, NEW t \in Replies(o)
  PROVE  /\ Usable(t, allowed, o) \in SUBSET SUBSET SUBSET Nat
         /\ Within(Usable(t, allowed, o), allowed)
<1>1. t.bullets \in SUBSET SUBSET Nat
  BY GroundingAssumption DEF Replies, Reply, Text
<1>. DEFINE r == Stripped(t.bullets, allowed)
<1>2. r \in SUBSET SUBSET Nat /\ MarkersIn(r) \subseteq allowed
  BY <1>1, StrippedIs
<1>. HIDE DEF r
<1>3. Usable(t, allowed, o) = {r} \/ Usable(t, allowed, o) = call.fallback
  BY DEF Usable, r
<1>. QED  BY <1>2, <1>3 DEF Within

LEMMA ResultsWithin ==
  ASSUME NEW allowed, NEW o, NEW c, Within(call.fallback, allowed),
         call.fallback \in SUBSET SUBSET SUBSET Nat, NEW bullets \in Results(allowed, o, c)
  PROVE  bullets \in SUBSET SUBSET Nat /\ MarkersIn(bullets) \subseteq allowed
<1>1. PICK t \in Replies(o) : bullets \in Taken(t, allowed, o, c)
  BY DEF Results
<1>2. t.bullets \in SUBSET SUBSET Nat
  BY GroundingAssumption DEF Replies, Reply, Text
<1>3. CASE Good(t, allowed, o, c)
  BY <1>1, <1>2, <1>3 DEF Taken, Good
<1>4. CASE ~Good(t, allowed, o, c)
  BY <1>1, <1>4, UsableIs DEF Taken, Within
<1>. QED  BY <1>3, <1>4

LEMMA GroupsAre ==
  ASSUME notes \in Seq(Note)
  PROVE  /\ Groups \in Seq(Seq(Range(notes))) /\ FlattenSeq(Groups) = notes
         /\ \A g \in Range(Groups) : FitsOrAlone(g, Length)
         /\ \A k \in DOMAIN Groups : Allowed(Groups[k]) \subseteq Allowed(notes)
<1>. DEFINE X == Range(notes)
<1>1. notes \in Seq(X) /\ Length \in [X -> Nat]
  <2>1. \A k \in 1..Len(notes) : notes[k] \in Note
    OBVIOUS
  <2>2. X \subseteq Note
    BY <2>1 DEF Range
  <2>3. Length \in [X -> Nat]
    BY <2>2 DEF Length, Note
  <2>4. notes \in Seq(X)
    BY DEF Range
  <2>. QED  BY <2>3, <2>4
<1>. HIDE DEF X
<1>2. /\ Groups \in Seq(Seq(X)) /\ FlattenSeq(Groups) = notes
      /\ \A g \in Range(Groups) : FitsOrAlone(g, Length)
  BY <1>1, PackedIs DEF Groups
<1>3. ASSUME NEW k \in DOMAIN Groups, NEW m \in Allowed(Groups[k])
      PROVE  m \in Allowed(notes)
  <2>1. PICK j \in DOMAIN Groups[k] : \E b \in Groups[k][j].bullets : m \in Visible(b)
    BY <1>3, AllowedOf
  <2>2. Groups[k][j] \in X
    <3>1. Groups[k] \in Seq(X)
      BY <1>2
    <3>. HIDE DEF Groups
    <3>. QED  BY <3>1
  <2>3. PICK i \in DOMAIN notes : Groups[k][j] = notes[i]
    BY <2>2 DEF X, Range
  <2>4. \E b \in notes[i].bullets : m \in Visible(b)
    BY <2>1, <2>3
  <2>. QED  BY <2>4, AllowedOf
<1>. QED  BY <1>2, <1>3 DEF X

-----------------------------------------------------------------------------
(***************************************************************************)
(* What the prompts hold while the map stage and an ask run; the groups of *)
(* a tier are computed anew from the notes (GroupsAre).                    *)
(***************************************************************************)
MapFits ==
  pc = "map" =>
    /\ FlattenSeq(prompts) = InTime
    /\ \A w \in Range(prompts) : FitsOrAlone(w, Cost) /\ OneWindow(w)
ExcerptsFit == pc = "answer" => SizeOf(prompts[1], Cost) <= Budget

GroundingInv ==
  /\ Shapes /\ MapFits /\ ExcerptsFit
  /\ NotesBacked(notes) /\ NotesBacked(merged) /\ FallbackWithin /\ CitationsAreSaid

\* A call runs, and its prompt shows these numbers.
Running(allowed) ==
  \/ pc = "map" /\ Len(notes) < Len(prompts) /\ allowed = DOMAIN prompts[Len(notes) + 1]
  \/ pc = "merge" /\ Len(merged) < Len(Groups) /\ allowed = Allowed(Groups[Len(merged) + 1])
  \/ pc = "final" /\ allowed = Allowed(notes)

LEMMA FallbackOf ==
  ASSUME FallbackWithin, NEW allowed, Running(allowed)
  PROVE  Within(call.fallback, allowed)
BY DEF FallbackWithin, Running, Within

\* What is made of the segments and of the notes changes with them only.
LEMMA SegKept ==
  ASSUME seg' = seg
  PROVE  /\ Ids' = Ids /\ Cost' = Cost /\ InTime' = InTime /\ SegTyped' = SegTyped
         /\ \A w : OneWindow(w)' = OneWindow(w)
<1>1. Ids' = Ids
  BY DEF Ids
<1>2. Cost' = Cost
  BY <1>1 DEF Cost
<1>3. InTime' = InTime
  BY <1>1 DEF InTime, Sooner
<1>. QED  BY <1>1, <1>2, <1>3 DEF SegTyped, OneWindow

LEMMA GroupsKept ==
  ASSUME notes' = notes
  PROVE  Groups' = Groups
BY DEF Groups, Length

\* The invariant after a step that leaves the segments and the prompts alone.
LEMMA FitsKept ==
  ASSUME Shapes, MapFits, ExcerptsFit, UNCHANGED <<seg, prompts>>,
         pc' \in {"map", "answer"} => pc' = pc
  PROVE  MapFits' /\ ExcerptsFit'
<1>1. Cost' = Cost /\ InTime' = InTime /\ \A w : OneWindow(w)' = OneWindow(w)
  BY SegKept
<1>2. MapFits'
  BY <1>1 DEF MapFits
<1>3. ExcerptsFit'
  BY <1>1 DEF ExcerptsFit
<1>. QED  BY <1>2, <1>3

LEMMA ReturnKeeps ==
  ASSUME GroundingInv, NEW p \in {"done", "failed"}, Return(p),
         \A c \in content' : c # {} /\ c \subseteq said
  PROVE  GroundingInv'
<1>1. Shapes'
  BY SegKept DEF GroundingInv, Shapes, Return, Nothing
<1>2. MapFits' /\ ExcerptsFit'
  BY DEF Return, MapFits, ExcerptsFit
<1>3. NotesBacked(notes)' /\ NotesBacked(merged)'
  BY DEF Return, NotesBacked
<1>4. FallbackWithin' /\ CitationsAreSaid'
  BY DEF Return, FallbackWithin, Nothing, CitationsAreSaid
<1>. QED  BY <1>1, <1>2, <1>3, <1>4 DEF GroundingInv

LEMMA RefusedKeeps ==
  ASSUME GroundingInv, NEW allowed, NEW o, NEW c, Running(allowed), Refused(allowed, o, c)
  PROVE  GroundingInv'
<1>1. PICK t \in Replies(o) : Again(t, allowed, o)
  BY DEF Refused
<1>. DEFINE r == Usable(t, allowed, o)
<1>2. r \in SUBSET SUBSET SUBSET Nat /\ Within(r, allowed)
  BY FallbackOf, UsableIs DEF GroundingInv, Shapes
<1>. HIDE DEF r
<1>3. CASE /\ call' = [attempt |-> 2, fallback |-> r]
           /\ UNCHANGED <<seg, pc, prompts, index, notes, merged, sources, content, said, verdict>>
  <2>1. Shapes'
    BY <1>2, <1>3, SegKept DEF GroundingInv, Shapes
  <2>2. MapFits' /\ ExcerptsFit'
    BY <1>3, FitsKept DEF GroundingInv
  <2>3. NotesBacked(notes)' /\ NotesBacked(merged)'
    BY <1>3 DEF GroundingInv, NotesBacked, Backed
  <2>4. FallbackWithin'
    <3>1. Groups' = Groups
      BY <1>3, GroupsKept
    <3>2. call'.fallback = r
      BY <1>3
    <3>. QED  BY <1>2, <1>3, <3>1, <3>2 DEF Running, FallbackWithin, Within
  <2>5. CitationsAreSaid'
    BY <1>3 DEF GroundingInv, CitationsAreSaid
  <2>. QED  BY <2>1, <2>2, <2>3, <2>4, <2>5 DEF GroundingInv
<1>4. CASE Return("failed") /\ UNCHANGED content
  BY <1>4, ReturnKeeps DEF GroundingInv, CitationsAreSaid
<1>. QED  BY <1>1, <1>3, <1>4 DEF Again, r

-----------------------------------------------------------------------------
(***************************************************************************)
(* One step at a time.                                                     *)
(***************************************************************************)
LEMMA EngineFailsKeeps ==
  ASSUME GroundingInv, EngineFails
  PROVE  GroundingInv'
BY ReturnKeeps DEF EngineFails, GroundingInv, CitationsAreSaid

LEMMA StartSummaryKeeps ==
  ASSUME GroundingInv, StartSummary
  PROVE  GroundingInv'
<1>1. SegTyped /\ call.fallback = {}
  BY DEF GroundingInv, Shapes, StartSummary, FallbackWithin
<1>2. /\ Sized \in Seq(Seq(Ids)) /\ FlattenSeq(Sized) = InTime
      /\ \A w \in Range(Sized) : FitsOrAlone(w, Cost) /\ OneWindow(w)
  BY <1>1, SizedIs
<1>3. prompts' = Sized /\ pc' = "map" /\ UNCHANGED <<seg, index, notes, merged, sources, call, content, said>>
  BY DEF StartSummary
<1>4. Ids' = Ids /\ Cost' = Cost /\ InTime' = InTime /\ SegTyped'
      /\ \A w : OneWindow(w)' = OneWindow(w)
  BY <1>1, <1>3, SegKept
<1>5. Shapes'
  BY <1>2, <1>3, <1>4 DEF GroundingInv, Shapes
<1>6. MapFits' /\ ExcerptsFit'
  BY <1>2, <1>3, <1>4 DEF MapFits, ExcerptsFit
<1>7. NotesBacked(notes)' /\ NotesBacked(merged)'
  BY <1>3 DEF GroundingInv, NotesBacked, Backed
<1>8. FallbackWithin' /\ CitationsAreSaid'
  BY <1>1, <1>3 DEF GroundingInv, FallbackWithin, CitationsAreSaid
<1>. QED  BY <1>5, <1>6, <1>7, <1>8 DEF GroundingInv

LEMMA TakeNotesKeeps ==
  ASSUME GroundingInv, pc = "map", NEW window \in Seq(Ids), NEW bullets \in SUBSET SUBSET Nat,
         MarkersIn(bullets) \subseteq DOMAIN window, TakeNotes(window, bullets)
  PROVE  GroundingInv'
<1>. DEFINE new == {Global(b) : b \in bullets}
            len == Len(index)
<1>1. PICK n \in Sizes : notes' = Append(notes, [bullets |-> new, size |-> n])
  BY DEF TakeNotes
<1>2. /\ index' = index \o window
      /\ said' = said \cup {window[m] : m \in MarkersIn(bullets) \cap DOMAIN window}
      /\ call' = Nothing
      /\ UNCHANGED <<seg, pc, prompts, merged, content>>
  BY DEF TakeNotes
<1>3. index \in Seq(Ids) /\ len \in Nat /\ notes \in Seq(Note) /\ n \in Nat
  BY GroundingAssumption DEF GroundingInv, Shapes
<1>4. /\ index' \in Seq(Ids)
      /\ \A m \in DOMAIN index : m \in DOMAIN index' /\ index'[m] = index[m]
      /\ \A m \in DOMAIN window : m + len \in DOMAIN index' /\ index'[m + len] = window[m]
  <2>1. /\ index \o window \in Seq(Ids) /\ Len(index \o window) = len + Len(window)
        /\ \A i \in 1..(len + Len(window)) :
             (index \o window)[i] = IF i <= len THEN index[i] ELSE window[i - len]
    BY <1>3, ConcatProperties
  <2>. DEFINE v == index \o window
  <2>2. v \in Seq(Ids) /\ Len(v) = len + Len(window) /\ Len(window) \in Nat /\ DOMAIN index = 1..len
        /\ DOMAIN window = 1..Len(window)
        /\ \A i \in 1..(len + Len(window)) : v[i] = IF i <= len THEN index[i] ELSE window[i - len]
    BY <1>3, <2>1
  <2>. HIDE DEF v, len
  <2>3. DOMAIN v = 1..(len + Len(window))
    BY <2>2
  <2>4. ASSUME NEW m \in DOMAIN index
        PROVE  m \in DOMAIN v /\ v[m] = index[m]
    BY <1>3, <2>2, <2>3
  <2>5. ASSUME NEW m \in DOMAIN window
        PROVE  m + len \in DOMAIN v /\ v[m + len] = window[m]
    <3>1. m \in 1..Len(window) /\ m + len \in 1..(len + Len(window)) /\ ~(m + len <= len)
          /\ (m + len) - len = m
      BY <1>3, <2>2
    <3>. QED  BY <2>2, <2>3, <3>1
  <2>. QED  BY <1>2, <2>2, <2>4, <2>5 DEF v
<1>. HIDE DEF len, new
<1>5. ASSUME NEW b, Backed(b)
      PROVE  Backed(b)'
  BY <1>2, <1>4, <1>5 DEF Backed
<1>6. ASSUME NEW b \in new
      PROVE  Backed(b)'
  <2>1. SUFFICES ASSUME NEW m \in Visible(b)
                 PROVE  m \in DOMAIN index' /\ index'[m] \in said'
    BY DEF Backed
  <2>2. PICK d \in bullets : b = Global(d)
    BY <1>6 DEF new
  <2>3. PICK k \in d : m = IF k \in Visible(d) THEN k + len ELSE k
    BY <2>1, <2>2 DEF Visible, Global, len
  <2>4. k \in Visible(d)
    BY <2>1, <2>3 DEF Visible
  <2>5. k \in MarkersIn(bullets) \cap DOMAIN window /\ m = k + len
    BY <2>2, <2>3, <2>4, MarkersOf
  <2>. QED  BY <1>2, <1>4, <2>5
<1>7. new \in SUBSET SUBSET Nat
  <2>1. ASSUME NEW b \in bullets
        PROVE  Global(b) \in SUBSET Nat
    BY <1>3 DEF Global, len
  <2>. QED  BY <2>1 DEF new
<1>8. notes' \in Seq(Note) /\ NotesBacked(notes)' /\ NotesBacked(merged)'
  <2>. DEFINE r == [bullets |-> new, size |-> n]
  <2>1. r \in Note /\ r.bullets = new
    BY <1>3, <1>7 DEF Note
  <2>. HIDE DEF r
  <2>2. /\ Append(notes, r) \in Seq(Note) /\ Append(notes, r)[Len(notes) + 1] = r
        /\ Len(Append(notes, r)) = Len(notes) + 1 /\ Len(notes) \in Nat
        /\ \A k \in 1..Len(notes) : Append(notes, r)[k] = notes[k]
    BY <1>3, <2>1, AppendProperties
  <2>3. notes' \in Seq(Note) /\ DOMAIN notes' = 1..(Len(notes) + 1) /\ DOMAIN notes = 1..Len(notes)
    BY <1>1, <1>3, <2>2 DEF r
  <2>4. ASSUME NEW k \in DOMAIN notes', NEW b \in notes'[k].bullets
        PROVE  Backed(b)'
    <3>1. CASE k = Len(notes) + 1
      BY <1>1, <1>6, <2>1, <2>2, <2>4, <3>1 DEF r
    <3>2. CASE k # Len(notes) + 1
      <4>1. k \in 1..Len(notes) /\ notes'[k] = notes[k]
        BY <1>1, <2>2, <2>3, <3>2 DEF r
      <4>2. Backed(b)
        BY <2>3, <2>4, <4>1 DEF GroundingInv, NotesBacked
      <4>. QED  BY <1>5, <4>2
    <3>. QED  BY <3>1, <3>2
  <2>5. NotesBacked(notes)'
    BY <2>4 DEF NotesBacked
  <2>6. NotesBacked(merged)'
    BY <1>2, <1>5 DEF GroundingInv, NotesBacked
  <2>. QED  BY <2>3, <2>5, <2>6
<1>9. Shapes'
  BY <1>2, <1>4, <1>8, SegKept DEF GroundingInv, Shapes, Nothing
<1>10. MapFits' /\ ExcerptsFit'
  BY <1>2, FitsKept DEF GroundingInv
<1>11. FallbackWithin'
  BY <1>2 DEF FallbackWithin, Nothing
<1>12. CitationsAreSaid'
  <2>1. sources' = sources \cup Some({Cited(b)' : b \in new})
    BY DEF TakeNotes, new
  <2>2. ASSUME NEW b \in new
        PROVE  Cited(b)' \subseteq said'
    BY <1>6 DEF Cited, Backed
  <2>. QED  BY <1>2, <2>1, <2>2 DEF GroundingInv, CitationsAreSaid, Some
<1>. QED  BY <1>8, <1>9, <1>10, <1>11, <1>12 DEF GroundingInv

LEMMA MapCallKeeps ==
  ASSUME GroundingInv, MapCall
  PROVE  GroundingInv'
<1>. DEFINE window == prompts[Len(notes) + 1]
            allowed == DOMAIN window
<1>1. pc = "map" /\ Running(allowed)
  BY DEF MapCall, Running
<1>2. \/ Refused(allowed, FALSE, TRUE)
      \/ \E bullets \in Results(allowed, FALSE, TRUE) : TakeNotes(window, bullets)
  BY DEF MapCall
<1>3. window \in Seq(Ids)
  BY DEF GroundingInv, Shapes, MapCall
<1>. HIDE DEF window
<1>4. CASE Refused(allowed, FALSE, TRUE)
  BY <1>1, <1>4, RefusedKeeps
<1>5. ASSUME NEW bullets \in Results(allowed, FALSE, TRUE), TakeNotes(window, bullets)
      PROVE  GroundingInv'
  <2>1. bullets \in SUBSET SUBSET Nat /\ MarkersIn(bullets) \subseteq allowed
    BY <1>1, FallbackOf, ResultsWithin DEF GroundingInv, Shapes
  <2>. QED  BY <1>1, <1>3, <1>5, <2>1, TakeNotesKeeps
<1>. QED  BY <1>2, <1>4, <1>5

LEMMA GotoKeeps ==
  ASSUME GroundingInv, NEW p \in {"reduce", "merge", "final"}, Goto(p), call.fallback = {},
         notes' \in {notes, merged}, merged' \in {merged, <<>>}
  PROVE  GroundingInv'
<1>1. pc' = p /\ UNCHANGED <<seg, prompts, index, sources, call, content, said>>
  BY DEF Goto
<1>2. Shapes'
  <2>. DEFINE S == Seq(Note)
  <2>1. notes \in S /\ merged \in S /\ <<>> \in S
    BY DEF GroundingInv, Shapes
  <2>. HIDE DEF S
  <2>2. notes' \in S /\ merged' \in S
    BY <2>1
  <2>3. notes' \in Seq(Note) /\ merged' \in Seq(Note)
    BY <2>2 DEF S
  <2>. QED  BY <1>1, <2>3, SegKept DEF GroundingInv, Shapes
<1>3. MapFits' /\ ExcerptsFit'
  BY <1>1 DEF MapFits, ExcerptsFit
<1>4. \A b : Backed(b)' = Backed(b)
  BY <1>1 DEF Backed
<1>5. NotesBacked(notes)' /\ NotesBacked(merged)'
  BY <1>4 DEF GroundingInv, NotesBacked
<1>6. FallbackWithin' /\ CitationsAreSaid'
  BY <1>1 DEF GroundingInv, FallbackWithin, CitationsAreSaid
<1>. QED  BY <1>2, <1>3, <1>5, <1>6 DEF GroundingInv

LEMMA MapDoneKeeps ==
  ASSUME GroundingInv, MapDone
  PROVE  GroundingInv'
<1>1. call.fallback = {}
  BY DEF GroundingInv, FallbackWithin, MapDone, Shapes
<1>. QED  BY <1>1, GotoKeeps DEF MapDone

LEMMA StartTierKeeps ==
  ASSUME GroundingInv, StartTier
  PROVE  GroundingInv'
<1>1. call.fallback = {}
  BY DEF GroundingInv, FallbackWithin, StartTier
<1>. QED  BY <1>1, GotoKeeps DEF StartTier

LEMMA EndTierKeeps ==
  ASSUME GroundingInv, EndTier
  PROVE  GroundingInv'
<1>1. call.fallback = {}
  <2>. DEFINE c == Len(Groups)
  <2>1. Len(merged) = c /\ Len(merged) \in Nat /\ pc = "merge"
    BY DEF GroundingInv, Shapes, EndTier
  <2>2. ~(Len(merged) < Len(Groups))
    BY <2>1
  <2>. QED  BY <2>1, <2>2 DEF GroundingInv, FallbackWithin
<1>2. PICK p \in {"final", "reduce"} : Goto(p)
  BY DEF EndTier
<1>. QED  BY <1>1, <1>2, GotoKeeps DEF EndTier

LEMMA MergeCallKeeps ==
  ASSUME GroundingInv, MergeCall
  PROVE  GroundingInv'
<1>. DEFINE k == Len(merged) + 1
            allowed == Allowed(Groups[k])
<1>1. pc = "merge" /\ Running(allowed)
  BY DEF MergeCall, Running
<1>2. \/ Refused(allowed, FALSE, FALSE)
      \/ \E bullets \in Results(allowed, FALSE, FALSE) : TakeMerged(bullets)
  BY DEF MergeCall
<1>3. CASE Refused(allowed, FALSE, FALSE)
  BY <1>1, <1>3, RefusedKeeps
<1>4. ASSUME NEW bullets \in Results(allowed, FALSE, FALSE), TakeMerged(bullets)
      PROVE  GroundingInv'
  <2>1. bullets \in SUBSET SUBSET Nat /\ MarkersIn(bullets) \subseteq allowed
    <3>1. Within(call.fallback, allowed) /\ call.fallback \in SUBSET SUBSET SUBSET Nat
      BY <1>1, FallbackOf DEF GroundingInv, Shapes
    <3>. HIDE DEF allowed
    <3>. QED  BY <3>1, <1>4, ResultsWithin
  <2>2. allowed \subseteq Allowed(notes)
    <3>1. notes \in Seq(Note) /\ merged \in Seq(Note) /\ Groups \in Seq(Seq(Range(notes)))
      BY GroupsAre DEF GroundingInv, Shapes
    <3>2. Len(merged) \in Nat /\ Len(merged) < Len(Groups) /\ DOMAIN Groups = 1..Len(Groups)
          /\ Len(Groups) \in Nat
      <4>1. Len(merged) < Len(Groups)
        BY DEF MergeCall
      <4>. HIDE DEF Groups
      <4>. QED  BY <3>1, <4>1
    <3>3. k \in DOMAIN Groups
      BY <3>2
    <3>. QED  BY <3>1, <3>3, GroupsAre
  <2>3. \A b \in bullets : Backed(b)
    BY <2>1, <2>2, BackedOf DEF GroundingInv
  <2>4. PICK n \in Sizes : merged' = Append(merged, [bullets |-> bullets, size |-> n])
    BY <1>4 DEF TakeMerged
  <2>5. call' = Nothing /\ UNCHANGED <<seg, pc, prompts, index, notes, sources, content, said>>
    BY <1>4 DEF TakeMerged
  <2>. DEFINE r == [bullets |-> bullets, size |-> n]
  <2>6. r \in Note /\ r.bullets = bullets /\ merged \in Seq(Note)
    BY <2>1, GroundingAssumption DEF Note, GroundingInv, Shapes
  <2>. HIDE DEF r
  <2>7. /\ merged' \in Seq(Note) /\ DOMAIN merged' = 1..(Len(merged) + 1)
        /\ DOMAIN merged = 1..Len(merged) /\ Len(merged) \in Nat
        /\ merged'[Len(merged) + 1] = r /\ \A i \in 1..Len(merged) : merged'[i] = merged[i]
    <3>1. /\ Append(merged, r) \in Seq(Note) /\ Append(merged, r)[Len(merged) + 1] = r
          /\ Len(Append(merged, r)) = Len(merged) + 1
          /\ \A i \in 1..Len(merged) : Append(merged, r)[i] = merged[i]
      BY <2>6, AppendProperties
    <3>. QED  BY <2>4, <2>6, <3>1 DEF r
  <2>8. \A b : Backed(b)' = Backed(b)
    BY <2>5 DEF Backed
  <2>9. NotesBacked(merged)'
    <3>1. ASSUME NEW i \in DOMAIN merged', NEW b \in merged'[i].bullets
          PROVE  Backed(b)
      <4>1. CASE i = Len(merged) + 1
        BY <2>3, <2>6, <2>7, <3>1, <4>1
      <4>2. CASE i # Len(merged) + 1
        <5>1. i \in DOMAIN merged /\ merged'[i] = merged[i]
          BY <2>7, <4>2
        <5>. QED  BY <3>1, <5>1 DEF GroundingInv, NotesBacked
      <4>. QED  BY <4>1, <4>2
    <3>. QED  BY <2>8, <3>1 DEF NotesBacked
  <2>10. NotesBacked(notes)'
    BY <2>5, <2>8 DEF GroundingInv, NotesBacked
  <2>11. Shapes'
    BY <1>1, <2>5, <2>7, SegKept DEF GroundingInv, Shapes, Nothing
  <2>12. MapFits' /\ ExcerptsFit'
    BY <2>5, FitsKept DEF GroundingInv
  <2>13. FallbackWithin' /\ CitationsAreSaid'
    BY <2>5 DEF GroundingInv, FallbackWithin, Nothing, CitationsAreSaid
  <2>. QED  BY <2>9, <2>10, <2>11, <2>12, <2>13 DEF GroundingInv
<1>. QED  BY <1>2, <1>3, <1>4

LEMMA FinalCallKeeps ==
  ASSUME GroundingInv, FinalCall
  PROVE  GroundingInv'
<1>1. pc = "final" /\ Running(Allowed(notes))
  BY DEF FinalCall, Running
<1>2. CASE Refused(Allowed(notes), TRUE, FALSE)
  BY <1>1, <1>2, RefusedKeeps
<1>3. ASSUME NEW bullets \in Results(Allowed(notes), TRUE, FALSE), TakeFinal(bullets)
      PROVE  GroundingInv'
  <2>1. MarkersIn(bullets) \subseteq Allowed(notes)
    BY <1>1, FallbackOf, ResultsWithin DEF GroundingInv, Shapes
  <2>2. \A b \in bullets : Cited(b) \subseteq said
    BY <2>1, BackedOf DEF GroundingInv, Backed, Cited
  <2>3. PICK kept \in SUBSET bullets, inherited \in SUBSET sources :
          content' = Some({Cited(b) : b \in kept}) \cup inherited
    BY <1>3 DEF TakeFinal
  <2>4. \A c \in content' : c # {} /\ c \subseteq said
    BY <2>2, <2>3 DEF Some, GroundingInv, CitationsAreSaid
  <2>. QED  BY <1>3, <2>4, ReturnKeeps DEF TakeFinal
<1>. QED  BY <1>2, <1>3 DEF FinalCall

LEMMA AnswerKeeps ==
  ASSUME GroundingInv, Answer
  PROVE  GroundingInv'
<1>1. /\ pc' = "done" /\ UNCHANGED <<seg, prompts, index, notes, merged, sources, call>>
      /\ sources = {} /\ notes = <<>> /\ merged = <<>> /\ call.fallback = {}
  BY DEF Answer, GroundingInv, Shapes, FallbackWithin
<1>2. PICK b \in Cites \cup {{}}, declines \in BOOLEAN :
        said' = Cited(b) /\ content' = IF declines THEN {} ELSE Some({Cited(b)})
  BY DEF Answer
<1>3. Shapes'
  BY <1>1, SegKept DEF GroundingInv, Shapes
<1>4. MapFits' /\ ExcerptsFit'
  BY <1>1 DEF MapFits, ExcerptsFit
<1>5. NotesBacked(notes)' /\ NotesBacked(merged)' /\ FallbackWithin'
  BY <1>1 DEF NotesBacked, FallbackWithin
<1>6. CitationsAreSaid'
  <2>1. \A c \in content' : c # {} /\ c \subseteq said'
    BY <1>2 DEF Some
  <2>. QED  BY <1>1, <2>1 DEF CitationsAreSaid
<1>. QED  BY <1>3, <1>4, <1>5, <1>6 DEF GroundingInv

LEMMA StartAskKeeps ==
  ASSUME GroundingInv, StartAsk
  PROVE  GroundingInv'
<1>1. PICK sc \in [Ids -> Scores] :
        prompts' = <<SelectExcerpts(sc)>> /\ index' = SelectExcerpts(sc)
  BY DEF StartAsk
<1>. DEFINE f == SelectExcerpts(sc)
<1>2. f \in Seq(Ids) /\ SizeOf(f, Cost) <= Budget
  BY ExcerptsAre DEF GroundingInv, Shapes
<1>3. prompts' = <<f>> /\ index' = f
  BY <1>1
<1>. HIDE DEF f
<1>4. /\ pc' = "answer" /\ UNCHANGED <<seg, notes, merged, sources, call, content, said>>
      /\ sources = {} /\ notes = <<>> /\ merged = <<>> /\ call.fallback = {}
  BY DEF StartAsk, GroundingInv, Shapes, FallbackWithin
<1>5. Ids' = Ids /\ Cost' = Cost /\ SegTyped'
  BY <1>4, SegKept DEF GroundingInv, Shapes
<1>6. Shapes'
  BY <1>2, <1>3, <1>4, <1>5 DEF GroundingInv, Shapes
<1>7. MapFits' /\ ExcerptsFit'
  BY <1>2, <1>3, <1>4, <1>5 DEF MapFits, ExcerptsFit
<1>8. NotesBacked(notes)' /\ NotesBacked(merged)'
  BY <1>4 DEF NotesBacked
<1>9. FallbackWithin' /\ CitationsAreSaid'
  BY <1>4 DEF GroundingInv, FallbackWithin, CitationsAreSaid
<1>. QED  BY <1>6, <1>7, <1>8, <1>9 DEF GroundingInv

-----------------------------------------------------------------------------
LEMMA GroundingInit == Init => GroundingInv
<1>. SUFFICES ASSUME Init PROVE GroundingInv
  OBVIOUS
<1>1. Shapes
  BY GroundingAssumption DEF Init, Shapes, SegTyped, Nothing
<1>2. MapFits /\ ExcerptsFit
  BY DEF Init, MapFits, ExcerptsFit
<1>3. NotesBacked(notes) /\ NotesBacked(merged)
  BY DEF Init, NotesBacked
<1>4. FallbackWithin /\ CitationsAreSaid
  BY DEF Init, FallbackWithin, Nothing, CitationsAreSaid
<1>. QED  BY <1>1, <1>2, <1>3, <1>4 DEF GroundingInv

LEMMA GroundingStep == GroundingInv /\ [Next]_gvars => GroundingInv'
<1>. SUFFICES ASSUME GroundingInv, [Next]_gvars
              PROVE  GroundingInv'
  OBVIOUS
<1>1. CASE EngineFails
  BY <1>1, EngineFailsKeeps
<1>2. CASE StartSummary
  BY <1>2, StartSummaryKeeps
<1>3. CASE MapCall
  BY <1>3, MapCallKeeps
<1>4. CASE MapDone
  BY <1>4, MapDoneKeeps
<1>5. CASE StartTier
  BY <1>5, StartTierKeeps
<1>6. CASE MergeCall
  BY <1>6, MergeCallKeeps
<1>7. CASE EndTier
  BY <1>7, EndTierKeeps
<1>8. CASE FinalCall
  BY <1>8, FinalCallKeeps
<1>9. CASE StartAsk
  BY <1>9, StartAskKeeps
<1>10. CASE Answer
  BY <1>10, AnswerKeeps
<1>11. CASE UNCHANGED gvars
  <2>1. UNCHANGED <<seg, pc, prompts, index, notes, merged, sources, call, content, said>>
    BY <1>11 DEF gvars
  <2>2. Shapes' /\ MapFits' /\ ExcerptsFit'
    BY <2>1, SegKept, FitsKept DEF GroundingInv, Shapes
  <2>3. NotesBacked(notes)' /\ NotesBacked(merged)'
    BY <2>1 DEF GroundingInv, NotesBacked, Backed
  <2>4. FallbackWithin' /\ CitationsAreSaid'
    BY <2>1, GroupsKept DEF GroundingInv, FallbackWithin, CitationsAreSaid
  <2>. QED  BY <2>2, <2>3, <2>4 DEF GroundingInv
<1>. QED
  BY <1>1, <1>2, <1>3, <1>4, <1>5, <1>6, <1>7, <1>8, <1>9, <1>10, <1>11 DEF Next, Work

LEMMA GroundingInvariant == Spec => []GroundingInv
BY GroundingInit, GroundingStep, PTL DEF Spec

(***************************************************************************)
(* Whatever the model answers, an item of a summary or an answer cites     *)
(* only segments that the model cited while they were in its prompt, and   *)
(* none is stored without a citation (_call_checked, _bullet_citations,    *)
(* _inherit, validate_citations).                                          *)
(***************************************************************************)
THEOREM NoCitationIsMadeUp == Spec => []CitationsAreSaid
<1>1. GroundingInv => CitationsAreSaid
  BY DEF GroundingInv
<1>. QED  BY <1>1, GroundingInvariant, PTL

(***************************************************************************)
(* Whatever the transcript, each of its segments is in exactly one prompt  *)
(* of the map stage, in the order of time and beside segments of its own   *)
(* window only; what is larger than the budget is a single segment or      *)
(* note; no note is skipped by a tier; and an ask's excerpts fit (windows, *)
(* the re-split by size, the reduce tiers, select_excerpts).               *)
(***************************************************************************)
THEOREM PromptsAreWhole == Spec => []PromptsFit
<1>1. GroundingInv => PromptsFit
  <2>. SUFFICES ASSUME GroundingInv PROVE PromptsFit
    OBVIOUS
  <2>1. notes \in Seq(Note) /\ MapFits /\ ExcerptsFit
    BY DEF GroundingInv, Shapes
  <2>2. FlattenSeq(Groups) = notes /\ \A g \in Range(Groups) : FitsOrAlone(g, Length)
    BY <2>1, GroupsAre
  <2>. QED  BY <2>1, <2>2 DEF PromptsFit, MapFits, OneWindow, ExcerptsFit
<1>. QED  BY <1>1, GroundingInvariant, PTL
====
