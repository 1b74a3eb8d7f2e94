----------------------- MODULE TranscriptionSpeechProofs -----------------------
(***************************************************************************)
(* What TLAPS proves of the speech that transcripts of TranscriptionWorker *)
(* hold, for any number of chunks, deferrals, overlaps, errors, deaths and *)
(* retries: its type, that a track comes in order, that speech is said     *)
(* once, that what is heard is kept, and that an on-demand job reads every *)
(* chunk of its session.                                                   *)
(***************************************************************************)
EXTENDS TranscriptionWorkerProofs, OrderLemmas

-----------------------------------------------------------------------------
(***************************************************************************)
(* What Picked gives: the members at the places of T, each place once, in  *)
(* the order of the keys and, of equal keys, of the places.                *)
(***************************************************************************)
Places(place, c, T, key) ==
  /\ place \in [1..c -> T]
  /\ \A n \in T : \E m \in 1..c : place[m] = n
  /\ \A m, n \in 1..c : m < n => Ahead(key, place[m], place[n])

LEMMA PickedIs ==
  ASSUME NEW s \in Seq(Speech), NEW T \in SUBSET DOMAIN s, NEW key \in [DOMAIN s -> Nat]
  PROVE  /\ Cardinality(T) \in Nat
         /\ \E place : /\ Places(place, Cardinality(T), T, key)
                       /\ Picked(s, T, key) = [n \in 1..Cardinality(T) |-> s[place[n]]]
<1>. DEFINE R == {p \in T \X T : Ahead(key, p[1], p[2])}
            c == Cardinality(T)
            nth(n) == CHOOSE m \in T : Cardinality({x \in T : Ahead(key, x, m)}) = n - 1
            place == [n \in 1..c |-> nth(n)]
<1>1. IsFiniteSet(T) /\ T \subseteq Nat /\ \A m \in T : key[m] \in Nat
  <2>1. DOMAIN s = 1..Len(s) /\ Len(s) \in Nat
    OBVIOUS
  <2>2. IsFiniteSet(1..Len(s))
    BY <2>1, FS_Interval
  <2>. QED  BY <2>1, <2>2, FS_Subset
<1>2. \A x, m \in T : <<x, m>> \in R <=> Ahead(key, x, m)
  OBVIOUS
<1>3. Orders(R, T)
  <2>. HIDE DEF R
  <2>. QED  BY <1>1, <1>2 DEF Orders, Ahead
<1>4. c \in Nat
  BY <1>1, FS_CardinalityType
<1>5. \A m \in T : {x \in T : Ahead(key, x, m)} = {x \in T : <<x, m>> \in R}
  BY <1>2
<1>6. \A n \in 1..c : nth(n) \in T /\ Rank(R, T, nth(n)) = n - 1
  <2>1. SUFFICES ASSUME NEW n \in 1..c
                 PROVE  nth(n) \in T /\ Rank(R, T, nth(n)) = n - 1
    OBVIOUS
  <2>2. n - 1 \in 0..(c - 1)
    <3>. HIDE DEF c
    <3>. QED  BY <1>4
  <2>3. PICK m \in T : Rank(R, T, m) = n - 1
    <3>. HIDE DEF R
    <3>. QED  BY <1>1, <1>3, <2>2, RankOnto
  <2>4. Cardinality({x \in T : Ahead(key, x, m)}) = n - 1
    BY <1>5, <2>3 DEF Rank
  <2>5. nth(n) \in T /\ Cardinality({x \in T : Ahead(key, x, nth(n))}) = n - 1
    <3>. HIDE DEF R, c
    <3>. QED  BY <2>4
  <2>. HIDE DEF nth
  <2>. QED  BY <1>5, <2>5 DEF Rank
<1>7. Places(place, c, T, key)
  <2>1. place \in [1..c -> T] /\ \A n \in 1..c : Rank(R, T, place[n]) = n - 1
    <3>. HIDE DEF nth, c, R
    <3>. QED  BY <1>6
  <2>. HIDE DEF place, nth, c
  <2>2. ASSUME NEW n \in T
        PROVE  \E m \in 1..c : place[m] = n
    <3>. DEFINE m == Rank(R, T, n) + 1
    <3>. HIDE DEF R
    <3>1. m \in 1..c /\ Rank(R, T, n) \in Nat
      BY <1>1, <1>3, <1>4, RankIs DEF c
    <3>2. place[m] \in T /\ Rank(R, T, place[m]) = Rank(R, T, n)
      BY <2>1, <3>1
    <3>3. place[m] = n
      <4>1. ~(Rank(R, T, place[m]) < Rank(R, T, n)) /\ ~(Rank(R, T, n) < Rank(R, T, place[m]))
        BY <3>1, <3>2
      <4>. HIDE DEF m
      <4>. QED  BY <1>1, <1>3, <3>2, <4>1, RankIs DEF Orders
    <3>. QED  BY <3>1, <3>3
  <2>3. ASSUME NEW m \in 1..c, NEW n \in 1..c, m < n
        PROVE  Ahead(key, place[m], place[n])
    <3>. HIDE DEF R
    <3>1. place[m] \in T /\ place[n] \in T /\ Rank(R, T, place[m]) = m - 1
          /\ Rank(R, T, place[n]) = n - 1
      BY <2>1
    <3>2. ~(Rank(R, T, place[n]) < Rank(R, T, place[m])) /\ place[m] # place[n]
      BY <1>4, <2>3, <3>1
    <3>3. <<place[m], place[n]>> \in R
      BY <1>1, <1>3, <3>1, <3>2, RankIs DEF Orders
    <3>. QED  BY <1>2, <3>1, <3>3
  <2>. QED  BY <2>1, <2>2, <2>3 DEF Places
<1>8. Picked(s, T, key) = [n \in 1..c |-> s[place[n]]]
  <2>1. Picked(s, T, key) = [n \in 1..c |-> s[nth(n)]]
    BY DEF Picked
  <2>2. \A n \in 1..c : place[n] = nth(n)
    <3>. HIDE DEF nth, c
    <3>. QED  OBVIOUS
  <2>. HIDE DEF nth, place, c
  <2>. QED  BY <2>1, <2>2
<1>. HIDE DEF place
<1>. QED  BY <1>4, <1>7, <1>8

LEMMA PickedHas ==
  ASSUME NEW s \in Seq(Speech), NEW T \in SUBSET DOMAIN s, NEW key \in [DOMAIN s -> Nat]
  PROVE  LET r == Picked(s, T, key) IN
         /\ r \in Seq(Speech)
         /\ \A x : x \in ToSet(r) <=> \E n \in T : x = s[n]
         /\ \A m, n \in DOMAIN r : m < n =>
              \E a, b \in T : r[m] = s[a] /\ r[n] = s[b] /\ Ahead(key, a, b)
<1>1. PICK place : /\ Places(place, Cardinality(T), T, key)
                   /\ Picked(s, T, key) = [n \in 1..Cardinality(T) |-> s[place[n]]]
  BY PickedIs
<1>2. PICK c \in Nat : c = Cardinality(T)
  BY PickedIs
<1>3. PICK r : r = [n \in 1..c |-> s[place[n]]]
  OBVIOUS
<1>4. /\ \A n \in 1..c : place[n] \in T
      /\ \A n \in T : \E m \in 1..c : place[m] = n
      /\ \A m, n \in 1..c : m < n => Ahead(key, place[m], place[n])
  BY <1>1, <1>2 DEF Places
<1>5. \A n \in T : s[n] \in Speech
  OBVIOUS
<1>6. DOMAIN r = 1..c /\ \A n \in 1..c : r[n] = s[place[n]]
  BY <1>3
<1>7. r \in Seq(Speech)
  <2>1. r \in [1..c -> Speech]
    BY <1>3, <1>4, <1>5
  <2>. QED  BY <2>1
<1>8. \A x : x \in ToSet(r) <=> \E n \in T : x = s[n]
  <2>1. \A n \in 1..c : r[n] \in {s[m] : m \in T}
    BY <1>4, <1>6
  <2>2. \A m \in T : \E n \in 1..c : r[n] = s[m]
    BY <1>4, <1>6
  <2>3. ToSet(r) = {r[n] : n \in 1..c}
    BY <1>6 DEF ToSet
  <2>. QED  BY <2>1, <2>2, <2>3
<1>9. \A m, n \in DOMAIN r : m < n =>
         \E a, b \in T : r[m] = s[a] /\ r[n] = s[b] /\ Ahead(key, a, b)
  BY <1>4, <1>6
<1>. QED  BY <1>1, <1>2, <1>3, <1>7, <1>8, <1>9

-----------------------------------------------------------------------------
(***************************************************************************)
(* Order.  d may follow c in what is said of a transcript: speech of one   *)
(* track comes by its time, and none twice but what G allows.              *)
(***************************************************************************)
Follows(c, d, G) == /\ c.kind = d.kind => c.at <= d.at
                    /\ c = d => c \in G
InRun(a, G) == \A m, n \in DOMAIN a : m < n => Follows(a[m], a[n], G)
Then(A, B, G) == \A c \in A, d \in B : Follows(c, d, G)

\* Picking speech of one track out of a run, by place or by time, leaves a run.
LEMMA PickedRuns ==
  ASSUME NEW s \in Seq(Speech), NEW T \in SUBSET DOMAIN s, NEW key \in [DOMAIN s -> Nat], NEW G,
         InRun(s, G),
         \/ \A n \in DOMAIN s : key[n] = 0
         \/ \A n \in DOMAIN s : key[n] = s[n].at
  PROVE  InRun(Picked(s, T, key), G)
<1>1. PICK r : r = Picked(s, T, key)
  OBVIOUS
<1>2. SUFFICES ASSUME NEW m \in DOMAIN r, NEW n \in DOMAIN r, m < n
               PROVE  Follows(r[m], r[n], G)
  BY <1>1 DEF InRun
<1>3. PICK a \in T, b \in T : r[m] = s[a] /\ r[n] = s[b] /\ Ahead(key, a, b)
  <2>1. \A i, j \in DOMAIN Picked(s, T, key) : i < j =>
           \E a, b \in T : /\ Picked(s, T, key)[i] = s[a] /\ Picked(s, T, key)[j] = s[b]
                          /\ Ahead(key, a, b)
    BY PickedHas, Zenon
  <2>. QED  BY <1>1, <1>2, <2>1
<1>4. a \in Nat /\ b \in Nat /\ s[a] \in Speech /\ s[b] \in Speech
  OBVIOUS
<1>5. CASE a < b
  BY <1>3, <1>4, <1>5 DEF InRun
<1>6. CASE ~(a < b)
  <2>1. key[a] < key[b]
    BY <1>3, <1>6 DEF Ahead
  <2>2. s[a].at < s[b].at
    BY <2>1
  <2>. QED  BY <1>3, <1>4, <2>2 DEF Follows, Speech
<1>. QED  BY <1>5, <1>6

LEMMA CatHas ==
  ASSUME NEW S, NEW a \in Seq(S), NEW b \in Seq(S)
  PROVE  a \o b \in Seq(S) /\ ToSet(a \o b) = ToSet(a) \cup ToSet(b)
<1>1. PICK r : r = a \o b
  OBVIOUS
<1>2. /\ r \in Seq(S) /\ Len(r) = Len(a) + Len(b) /\ Len(a) \in Nat /\ Len(b) \in Nat
      /\ DOMAIN r = 1..(Len(a) + Len(b)) /\ DOMAIN a = 1..Len(a) /\ DOMAIN b = 1..Len(b)
      /\ \A n \in 1..Len(a) : r[n] = a[n]
      /\ \A n \in 1..(Len(a) + Len(b)) : n > Len(a) => r[n] = b[n - Len(a)]
  BY <1>1
<1>3. ASSUME NEW n \in DOMAIN r
      PROVE  r[n] \in ToSet(a) \cup ToSet(b)
  <2>1. CASE n <= Len(a)
    BY <1>2, <2>1 DEF ToSet
  <2>2. CASE n > Len(a)
    <3>1. n - Len(a) \in DOMAIN b /\ r[n] = b[n - Len(a)]
      BY <1>2, <2>2
    <3>. QED  BY <3>1 DEF ToSet
  <2>. QED  BY <1>2, <2>1, <2>2
<1>4. ASSUME NEW n \in DOMAIN a
      PROVE  a[n] \in ToSet(r)
  BY <1>2 DEF ToSet
<1>5. ASSUME NEW n \in DOMAIN b
      PROVE  b[n] \in ToSet(r)
  <2>1. Len(a) + n \in DOMAIN r /\ r[Len(a) + n] = b[n]
    BY <1>2
  <2>. QED  BY <2>1 DEF ToSet
<1>6. ToSet(r) = ToSet(a) \cup ToSet(b)
  <2>1. ToSet(r) \subseteq ToSet(a) \cup ToSet(b)
    BY <1>3 DEF ToSet
  <2>2. ToSet(a) \subseteq ToSet(r)
    BY <1>4 DEF ToSet
  <2>3. ToSet(b) \subseteq ToSet(r)
    BY <1>5 DEF ToSet
  <2>. QED  BY <2>1, <2>2, <2>3
<1>. QED  BY <1>1, <1>2, <1>6

LEMMA CatRuns ==
  ASSUME NEW a \in Seq(Speech), NEW b \in Seq(Speech), NEW G,
         InRun(a, G), InRun(b, G), Then(ToSet(a), ToSet(b), G)
  PROVE  InRun(a \o b, G)
<1>1. PICK r : r = a \o b
  OBVIOUS
<1>2. /\ Len(a) \in Nat /\ Len(b) \in Nat
      /\ DOMAIN r = 1..(Len(a) + Len(b)) /\ DOMAIN a = 1..Len(a) /\ DOMAIN b = 1..Len(b)
      /\ \A n \in 1..Len(a) : r[n] = a[n]
      /\ \A n \in 1..(Len(a) + Len(b)) : n > Len(a) => r[n] = b[n - Len(a)]
  BY <1>1
<1>3. SUFFICES ASSUME NEW m \in DOMAIN r, NEW n \in DOMAIN r, m < n
               PROVE  Follows(r[m], r[n], G)
  BY <1>1 DEF InRun
<1>4. CASE n <= Len(a)
  <2>1. m \in DOMAIN a /\ n \in DOMAIN a /\ r[m] = a[m] /\ r[n] = a[n]
    BY <1>2, <1>3, <1>4
  <2>. QED  BY <1>3, <2>1 DEF InRun
<1>5. CASE m <= Len(a) /\ n > Len(a)
  <2>1. r[m] \in ToSet(a) /\ r[n] \in ToSet(b)
    BY <1>2, <1>5 DEF ToSet
  <2>. QED  BY <2>1 DEF Then
<1>6. CASE m > Len(a)
  <2>1. PICK i \in DOMAIN b, j \in DOMAIN b : i < j /\ r[m] = b[i] /\ r[n] = b[j]
    <3>1. /\ m - Len(a) \in DOMAIN b /\ n - Len(a) \in DOMAIN b /\ m - Len(a) < n - Len(a)
          /\ r[m] = b[m - Len(a)] /\ r[n] = b[n - Len(a)]
      BY <1>2, <1>3, <1>6
    <3>. QED  BY <3>1
  <2>. QED  BY <2>1 DEF InRun
<1>. QED  BY <1>2, <1>3, <1>4, <1>5, <1>6

LEMMA ToSetIs ==
  /\ ToSet(<<>>) = {} /\ \A x : ToSet(<<x>>) = {x}
  /\ \A G : InRun(<<>>, G) /\ \A x : InRun(<<x>>, G)
<1>1. ToSet(<<>>) = {}
  BY DEF ToSet
<1>2. \A x : ToSet(<<x>>) = {x}
  BY DEF ToSet
<1>3. \A G : InRun(<<>>, G)
  BY DEF InRun
<1>4. \A G, x : InRun(<<x>>, G)
  BY DEF InRun
<1>. QED  BY <1>1, <1>2, <1>3, <1>4

-----------------------------------------------------------------------------
(***************************************************************************)
(* A transcript at work: what is in its table, s, what the worker has in   *)
(* hand for it, o, and what the tracks t defer come in this order, and     *)
(* before what a track t.done has yet to hear.                             *)
(***************************************************************************)
TrackType == [done : [Kind -> Nat], pending : [Kind -> Seq(Speech)], tail : [Kind -> Overlap]]
Held(t) == UNION {ToSet(t.pending[k]) : k \in Kind}
Below(A, done) == \A c \in A : c.at < done[c.kind]
TracksHold(t, G) == \A k \in Kind : /\ InRun(t.pending[k], G)
                                    /\ \A c \in ToSet(t.pending[k]) : c.kind = k
Lane(s, o, t, G) ==
  /\ InRun(s, G) /\ InRun(o, G) /\ TracksHold(t, G)
  /\ Then(ToSet(s), ToSet(o), G) /\ Then(ToSet(s) \cup ToSet(o), Held(t), G)
  /\ Below(ToSet(s) \cup ToSet(o) \cup Held(t), t.done)
TailHolds(t) == \A k \in Kind : t.tail[k].how # "nothing" => t.done[k] > 0

LEMMA ToSetType ==
  ASSUME NEW S, NEW a \in Seq(S)
  PROVE  ToSet(a) \subseteq S
BY DEF ToSet

LEMMA HeldType ==
  ASSUME NEW t \in TrackType
  PROVE  /\ Held(t) \subseteq Speech
         /\ \A k \in Kind : t.pending[k] \in Seq(Speech) /\ t.done[k] \in Nat
                            /\ ToSet(t.pending[k]) \subseteq Speech
<1>1. \A k \in Kind : t.pending[k] \in Seq(Speech) /\ t.done[k] \in Nat
  BY DEF TrackType
<1>2. \A k \in Kind : ToSet(t.pending[k]) \subseteq Speech
  BY <1>1, ToSetType
<1>. QED  BY <1>1, <1>2 DEF Held

\* More may be allowed twice.
LEMMA LaneAllows ==
  ASSUME NEW s, NEW o, NEW t, NEW G, NEW H, G \subseteq H, Lane(s, o, t, G)
  PROVE  Lane(s, o, t, H)
BY DEF Lane, TracksHold, InRun, Then, Follows

(***************************************************************************)
(* A track hears a chunk: the overlap's speech again, which G allows       *)
(* twice, and new speech.                                                  *)
(***************************************************************************)
LEMMA HearIs ==
  ASSUME NEW t \in TrackType, NEW k \in Kind, NEW speech \in Seq(Speech),
         NEW u, u = Hear(t, k, speech)
  PROVE  /\ u \in TrackType /\ u.tail = t.tail
         /\ \A j \in Kind :
              /\ u.pending[j] = IF j = k THEN t.pending[k] \o speech ELSE t.pending[j]
              /\ u.done[j] = IF j = k THEN t.done[k] + 1 ELSE t.done[j]
         /\ Held(u) = Held(t) \cup ToSet(speech)
<1>1. t.pending[k] \in Seq(Speech) /\ t.done[k] + 1 \in Nat
  BY HeldType
<1>2. t.pending[k] \o speech \in Seq(Speech)
        /\ ToSet(t.pending[k] \o speech) = ToSet(t.pending[k]) \cup ToSet(speech)
  BY <1>1, CatHas
<1>3. /\ u.tail = t.tail
      /\ u.pending = [t.pending EXCEPT ![k] = t.pending[k] \o speech]
      /\ u.done = [t.done EXCEPT ![k] = t.done[k] + 1]
  BY DEF Hear, TrackType
<1>4. \A j \in Kind :
        /\ u.pending[j] = IF j = k THEN t.pending[k] \o speech ELSE t.pending[j]
        /\ u.done[j] = IF j = k THEN t.done[k] + 1 ELSE t.done[j]
  BY <1>3 DEF TrackType
<1>5. u \in TrackType
  <2>1. PICK p, d : p = t.pending[k] \o speech /\ d = t.done[k] + 1
    OBVIOUS
  <2>2. u = [t EXCEPT !.pending[k] = p, !.done[k] = d]
    BY <2>1 DEF Hear
  <2>3. PICK pending \in [Kind -> Seq(Speech)] : pending = [t.pending EXCEPT ![k] = p]
    BY <1>2, <2>1 DEF TrackType
  <2>4. PICK done \in [Kind -> Nat] : done = [t.done EXCEPT ![k] = d]
    BY <1>1, <2>1 DEF TrackType
  <2>5. u = [t EXCEPT !.pending = pending, !.done = done]
    BY <2>2, <2>3, <2>4
  <2>. QED  BY <2>5 DEF TrackType
<1>6. Held(u) = Held(t) \cup ToSet(speech)
  <2>1. \A j \in Kind : u.pending[j] = IF j = k THEN t.pending[k] \o speech ELSE t.pending[j]
    BY <1>4
  <2>2. \A j \in Kind : ToSet(u.pending[j]) = ToSet(t.pending[j]) \cup
                                                IF j = k THEN ToSet(speech) ELSE {}
    BY <1>2, <2>1
  <2>. QED  BY <2>2 DEF Held
<1>. QED  BY <1>3, <1>4, <1>5, <1>6

LEMMA HearLane ==
  ASSUME NEW s \in Seq(Speech), NEW t \in TrackType, NEW G, Lane(s, <<>>, t, G),
         NEW k \in Kind, NEW speech \in Seq(Speech), InRun(speech, G),
         \A c \in ToSet(speech) : /\ c.kind = k /\ c.at <= t.done[k] /\ c.at + 1 >= t.done[k]
                                  /\ c.at = t.done[k] \/ c \in G,
         NEW u, u = Hear(t, k, speech)
  PROVE  Lane(s, <<>>, u, G)
<1>. DEFINE P == t.pending[k]
            N == ToSet(speech)
<1>1. PICK d \in Nat : d = t.done[k]
  BY HeldType
<1>2. N \subseteq Speech
  BY ToSetType
<1>3. \A c \in N : c.kind = k /\ c.at \in Nat /\ c.at <= d /\ c.at + 1 >= d
                   /\ (c.at = d \/ c \in G)
  BY <1>1, <1>2 DEF Speech
<1>4. ToSet(s) \subseteq Speech /\ Held(t) \subseteq Speech
  BY HeldType, ToSetType
<1>5. \A c \in ToSet(s) \cup Held(t) : c.kind = k => c.at \in Nat /\ c.at < d
  BY <1>1, <1>4 DEF Lane, Below, Speech
<1>6. Then(ToSet(s) \cup Held(t), N, G)
  <2>1. SUFFICES ASSUME NEW c \in ToSet(s) \cup Held(t), NEW n \in N
                 PROVE  Follows(c, n, G)
    BY DEF Then
  <2>2. CASE c.kind # k
    BY <1>3, <2>2 DEF Follows
  <2>3. CASE c.kind = k
    <3>1. c.at \in Nat /\ c.at < d /\ n.at \in Nat /\ n.at + 1 >= d /\ (n.at = d \/ n \in G)
      BY <1>3, <1>5, <2>3
    <3>. QED  BY <1>1, <3>1 DEF Follows
  <2>. QED  BY <2>2, <2>3
<1>7. Held(u) = Held(t) \cup N
  BY HearIs
<1>8. \A j \in Kind : /\ u.pending[j] = IF j = k THEN P \o speech ELSE t.pending[j]
                      /\ u.done[j] = IF j = k THEN d + 1 ELSE t.done[j]
  BY <1>1, HearIs
<1>9. P \in Seq(Speech) /\ ToSet(P) \subseteq Held(t)
  BY HeldType DEF Held
<1>10. InRun(P \o speech, G)
  <2>1. Then(ToSet(P), N, G)
    BY <1>6, <1>9 DEF Then
  <2>2. InRun(P, G)
    BY DEF Lane, TracksHold
  <2>. HIDE DEF P
  <2>. QED  BY <1>2, <1>9, <2>1, <2>2, CatRuns
<1>11. TracksHold(u, G)
  <2>1. ToSet(P \o speech) = ToSet(P) \cup N
    <3>. HIDE DEF P
    <3>. QED  BY <1>9, CatHas
  <2>2. \A c \in ToSet(P) : c.kind = k
    BY DEF Lane, TracksHold
  <2>. HIDE DEF P, N
  <2>. QED  BY <1>3, <1>8, <1>10, <2>1, <2>2 DEF Lane, TracksHold
<1>12. Below(ToSet(s) \cup Held(u), u.done)
  <2>1. SUFFICES ASSUME NEW c \in ToSet(s) \cup Held(t) \cup N
                 PROVE  c.at < u.done[c.kind]
    BY <1>7 DEF Below
  <2>2. c \in Speech /\ c.kind \in Kind /\ c.at \in Nat
    BY <1>2, <1>4 DEF Speech
  <2>3. CASE c.kind = k
    <3>1. c.at <= d
      BY <1>1, <1>3, <1>5, <2>3
    <3>. QED  BY <1>1, <1>8, <2>2, <2>3, <3>1
  <2>4. CASE c.kind # k
    <3>1. c \in ToSet(s) \cup Held(t)
      BY <1>3, <2>4
    <3>. QED  BY <1>8, <2>2, <2>4, <3>1 DEF Lane, Below
  <2>. QED  BY <2>3, <2>4
<1>13. Then(ToSet(s), Held(u), G)
  BY <1>6, <1>7, ToSetIs DEF Lane, Then
<1>. QED  BY <1>11, <1>12, <1>13, ToSetIs DEF Lane, Then

(***************************************************************************)
(* Attribution of one track: the first of its pending speech q is judged,  *)
(* and what is no bleed comes out in the order of its times.               *)
(***************************************************************************)
Members(q, J) == {q[n] : n \in J}
FirstOf(q, J) == J \subseteq DOMAIN q /\ \A m \in J, n \in DOMAIN q \ J : m < n

LEMMA JudgementsFirst ==
  ASSUME NEW t \in TrackType, NEW k \in Kind, NEW J \in Judgements(t, k)
  PROVE  FirstOf(t.pending[k], J)
<1>1. PICK q \in Seq(Speech) : q = t.pending[k]
  BY HeldType
<1>2. PICK m \in 0..Len(q) : J = 1..m
  BY <1>1 DEF Judgements
<1>3. DOMAIN q = 1..Len(q) /\ Len(q) \in Nat
  OBVIOUS
<1>. QED  BY <1>1, <1>2, <1>3 DEF FirstOf

Runs(q, G) == q \in Seq(Speech) /\ InRun(q, G)
Gives(q, J, bleed, G) ==
  /\ Runs(Attributed(q, J, bleed), G)
  /\ ToSet(Attributed(q, J, bleed)) = Members(q, J) \ bleed

LEMMA AttributedIs ==
  ASSUME NEW q, NEW G, Runs(q, G), NEW J, FirstOf(q, J), NEW bleed
  PROVE  Gives(q, J, bleed, G)
<1>. q \in Seq(Speech) /\ InRun(q, G) /\ J \subseteq DOMAIN q
  BY DEF Runs, FirstOf
<1>. DEFINE T == Unbled(q, J, bleed)
            key == [n \in DOMAIN q |-> q[n].at]
<1>1. T \in SUBSET DOMAIN q
  BY DEF Unbled
<1>2. key \in [DOMAIN q -> Nat] /\ \A n \in DOMAIN q : key[n] = q[n].at
  <2>1. \A n \in DOMAIN q : q[n] \in Speech
    OBVIOUS
  <2>. QED  BY <2>1 DEF Speech
<1>3. Attributed(q, J, bleed) = Picked(q, T, key)
  BY DEF Attributed
<1>. HIDE DEF key
<1>4. /\ Picked(q, T, key) \in Seq(Speech)
      /\ \A x : x \in ToSet(Picked(q, T, key)) <=> \E n \in T : x = q[n]
  <2>. HIDE DEF T
  <2>. QED  BY <1>1, <1>2, PickedHas
<1>5. InRun(Picked(q, T, key), G)
  <2>. HIDE DEF T
  <2>. QED  BY <1>1, <1>2, PickedRuns
<1>6. ToSet(Picked(q, T, key)) = Members(q, J) \ bleed
  <2>1. \A x : (\E n \in T : x = q[n]) <=> x \in Members(q, J) \ bleed
    BY DEF Unbled, Members
  <2>. HIDE DEF T
  <2>. QED  BY <1>4, <2>1
<1>. QED  BY <1>3, <1>4, <1>5, <1>6 DEF Gives, Runs

\* Keeping some of a run by place.
LEMMA KeptIs ==
  ASSUME NEW s \in Seq(Speech), NEW T \in SUBSET DOMAIN s, NEW G, InRun(s, G)
  PROVE  LET r == Kept(s, T) IN
         /\ r \in Seq(Speech) /\ InRun(r, G)
         /\ \A x : x \in ToSet(r) <=> \E n \in T : x = s[n]
<1>. DEFINE key == [n \in DOMAIN s |-> 0]
<1>1. key \in [DOMAIN s -> Nat] /\ \A n \in DOMAIN s : key[n] = 0
  OBVIOUS
<1>2. Kept(s, T) = Picked(s, T, key)
  BY DEF Kept
<1>. HIDE DEF key
<1>3. /\ Picked(s, T, key) \in Seq(Speech)
      /\ \A x : x \in ToSet(Picked(s, T, key)) <=> \E n \in T : x = s[n]
  BY <1>1, PickedHas
<1>4. InRun(Picked(s, T, key), G)
  BY <1>1, PickedRuns
<1>. QED  BY <1>2, <1>3, <1>4

Judging(t, k, J, bleed, o, v) ==
  /\ v = [t EXCEPT !.pending[k] = Kept(t.pending[k], DOMAIN t.pending[k] \ J)]
  /\ o = Attributed(t.pending[k], J, bleed)

Judged(s, t, k, J, G, bleed, o, v) ==
  /\ o \in Seq(Speech) /\ Lane(s, o, v, G)
  /\ v \in TrackType /\ v.done = t.done /\ v.tail = t.tail
  /\ ToSet(o) = Members(t.pending[k], J) \ bleed
  /\ Held(t) = Members(t.pending[k], J) \cup Held(v)

LEMMA AttributeLane ==
  ASSUME NEW s \in Seq(Speech), NEW t \in TrackType, NEW G, Lane(s, <<>>, t, G),
         NEW k \in Kind, NEW J, FirstOf(t.pending[k], J),
         NEW bleed, NEW o, NEW v, Judging(t, k, J, bleed, o, v)
  PROVE  Judged(s, t, k, J, G, bleed, o, v)
<1>. /\ v = [t EXCEPT !.pending[k] = Kept(t.pending[k], DOMAIN t.pending[k] \ J)]
     /\ o = Attributed(t.pending[k], J, bleed)
  BY DEF Judging
<1>1. /\ InRun(s, G) /\ TracksHold(t, G) /\ Then(ToSet(s), Held(t), G)
      /\ Below(ToSet(s) \cup Held(t), t.done)
  BY ToSetIs DEF Lane, Then
<1>2. PICK q, T :
        /\ q \in Seq(Speech) /\ q = t.pending[k] /\ InRun(q, G) /\ T = DOMAIN q \ J /\ FirstOf(q, J)
        /\ \A c \in ToSet(q) : c.kind = k
  BY <1>1, HeldType DEF TracksHold
<1>3. o \in Seq(Speech) /\ InRun(o, G) /\ ToSet(o) = Members(q, J) \ bleed
  <2>1. Runs(q, G) /\ FirstOf(q, J)
    BY <1>2 DEF Runs
  <2>2. Gives(q, J, bleed, G)
    BY <2>1, AttributedIs
  <2>3. o = Attributed(q, J, bleed)
    BY <1>2
  <2>. QED  BY <2>2, <2>3 DEF Gives, Runs
<1>4. PICK r \in Seq(Speech) : r = Kept(q, T) /\ InRun(r, G) /\ ToSet(r) = Members(q, T)
  <2>1. T \in SUBSET DOMAIN q
    BY <1>2
  <2>2. /\ Kept(q, T) \in Seq(Speech) /\ InRun(Kept(q, T), G)
        /\ \A x : x \in ToSet(Kept(q, T)) <=> \E n \in T : x = q[n]
    BY <1>2, <2>1, KeptIs
  <2>. QED  BY <2>2 DEF Members
<1>5. ToSet(q) = Members(q, J) \cup ToSet(r)
  BY <1>2, <1>4 DEF ToSet, Members, FirstOf
<1>6. /\ v \in TrackType /\ v.done = t.done /\ v.tail = t.tail
      /\ \A j \in Kind : v.pending[j] = IF j = k THEN r ELSE t.pending[j]
  <2>1. v = [t EXCEPT !.pending[k] = r]
    BY <1>2, <1>4
  <2>2. PICK pending : pending = [t.pending EXCEPT ![k] = r]
    OBVIOUS
  <2>3. /\ pending \in [Kind -> Seq(Speech)]
        /\ \A j \in Kind : pending[j] = IF j = k THEN r ELSE t.pending[j]
    BY <2>2 DEF TrackType
  <2>4. v = [t EXCEPT !.pending = pending]
    BY <2>1, <2>2
  <2>. QED  BY <2>3, <2>4 DEF TrackType
<1>7. Held(t) = Members(q, J) \cup Held(v)
  <2>1. \A x, j : j \in Kind =>
          (x \in ToSet(t.pending[j]) <=> x \in ToSet(v.pending[j]) \/ (j = k /\ x \in Members(q, J)))
    BY <1>2, <1>5, <1>6
  <2>2. \A x : x \in Held(t) <=> \E j \in Kind : x \in ToSet(t.pending[j])
    BY DEF Held
  <2>3. \A x : x \in Held(v) <=> \E j \in Kind : x \in ToSet(v.pending[j])
    BY DEF Held
  <2>4. \A x : x \in Held(t) <=> x \in Held(v) \/ x \in Members(q, J)
    BY <2>1, <2>2, <2>3
  <2>. QED  BY <2>4
<1>8. TracksHold(v, G)
  <2>1. \A c \in ToSet(r) : c.kind = k
    BY <1>2, <1>5
  <2>. QED  BY <1>1, <1>4, <1>6, <2>1 DEF TracksHold
<1>9. Then(ToSet(o), Held(v), G)
  <2>1. SUFFICES ASSUME NEW c \in ToSet(o), NEW j \in Kind, NEW d \in ToSet(v.pending[j])
                 PROVE  Follows(c, d, G)
    BY DEF Then, Held
  <2>2. c \in Members(q, J) /\ c.kind = k
    BY <1>2, <1>3, <1>5
  <2>3. CASE j # k
    <3>1. d.kind = j
      BY <1>8, <2>1 DEF TracksHold
    <3>. QED  BY <2>2, <2>3, <3>1 DEF Follows
  <2>4. CASE j = k
    <3>1. d \in Members(q, T)
      BY <1>4, <1>6, <2>1, <2>4
    <3>2. PICK m \in J : c = q[m]
      BY <2>2 DEF Members
    <3>3. PICK n \in T : d = q[n]
      BY <3>1 DEF Members
    <3>4. m \in DOMAIN q /\ n \in DOMAIN q /\ m < n
      BY <1>2 DEF FirstOf
    <3>. QED  BY <1>2, <3>2, <3>3, <3>4 DEF InRun
  <2>. QED  BY <2>3, <2>4
<1>10. Then(ToSet(s), ToSet(o), G) /\ Then(ToSet(s) \cup ToSet(o), Held(v), G)
  BY <1>1, <1>3, <1>7, <1>9 DEF Then
<1>11. Below(ToSet(s) \cup ToSet(o) \cup Held(v), v.done)
  BY <1>1, <1>3, <1>6, <1>7 DEF Below
<1>12. Lane(s, o, v, G)
  BY <1>1, <1>3, <1>8, <1>10, <1>11 DEF Lane
<1>. QED  BY <1>2, <1>3, <1>6, <1>7, <1>12 DEF Judged

\* What comes out of the tracks t when they are flushed.
Rest(t, bleed) == LET p == t.pending[Mic] IN
  Kept(p, Unbled(p, DOMAIN p, bleed)) \o t.pending[System]

LEMMA FlushLane ==
  ASSUME NEW s \in Seq(Speech), NEW t \in TrackType, NEW G, Lane(s, <<>>, t, G), NEW bleed,
         NEW v, v.done = t.done, \A k \in Kind : v.pending[k] = <<>>,
         NEW o, o = Rest(t, bleed)
  PROVE  /\ o \in Seq(Speech) /\ Lane(s, o, v, G) /\ ToSet(o) \subseteq Held(t)
         /\ Held(t) \subseteq ToSet(o) \cup {c \in bleed : c.kind = Mic}
<1>1. PICK p : p = t.pending[Mic]
  OBVIOUS
<1>2. /\ InRun(s, G) /\ TracksHold(t, G) /\ Then(ToSet(s), Held(t), G)
      /\ Below(ToSet(s) \cup Held(t), t.done)
  BY ToSetIs DEF Lane, Then
<1>3. Kind = {Mic, System} /\ Mic # System
  BY WorkerAssumption
<1>4. PICK q \in Seq(Speech) : q = t.pending[System]
  BY <1>3, HeldType
<1>5. p \in Seq(Speech) /\ InRun(p, G) /\ InRun(q, G)
  BY <1>1, <1>2, <1>3, <1>4, HeldType DEF TracksHold
<1>6. PICK T : T = Unbled(p, DOMAIN p, bleed)
  OBVIOUS
<1>7. T \in SUBSET DOMAIN p /\ \A n \in DOMAIN p : n \in T <=> p[n] \notin bleed
  BY <1>6 DEF Unbled
<1>8. PICK a \in Seq(Speech) : /\ a = Kept(p, T) /\ InRun(a, G)
                               /\ \A x : x \in ToSet(a) <=> \E n \in T : x = p[n]
  BY <1>5, <1>7, KeptIs
<1>9. ToSet(a) \subseteq ToSet(p) /\ \A c \in ToSet(p) : c \in ToSet(a) \/ c \in bleed
  <2>1. \A x : x \in ToSet(p) <=> \E n \in DOMAIN p : x = p[n]
    BY DEF ToSet
  <2>. QED  BY <1>7, <1>8, <2>1
<1>10. (\A c \in ToSet(p) : c.kind = Mic) /\ (\A c \in ToSet(q) : c.kind = System)
  BY <1>1, <1>2, <1>3, <1>4 DEF TracksHold
<1>11. o = a \o q
  BY <1>1, <1>4, <1>6, <1>8 DEF Rest
<1>12. o \in Seq(Speech) /\ ToSet(o) = ToSet(a) \cup ToSet(q)
  <2>1. a \o q \in Seq(Speech) /\ ToSet(a \o q) = ToSet(a) \cup ToSet(q)
    BY <1>4, <1>8, CatHas
  <2>. QED  BY <1>11, <2>1
<1>13. InRun(o, G)
  <2>1. Then(ToSet(a), ToSet(q), G)
    BY <1>3, <1>9, <1>10 DEF Then, Follows
  <2>. QED  BY <1>4, <1>5, <1>8, <1>11, <2>1, CatRuns
<1>14. \A x : x \in Held(t) <=> x \in ToSet(p) \/ x \in ToSet(q)
  BY <1>1, <1>3, <1>4 DEF Held
<1>15. Held(v) = {} /\ TracksHold(v, G)
  BY ToSetIs DEF Held, TracksHold
<1>16. ToSet(o) \subseteq Held(t)
  BY <1>9, <1>12, <1>14
<1>17. \A c \in Held(t) : c \in ToSet(o) \/ (c.kind = Mic /\ c \in bleed)
  BY <1>9, <1>10, <1>12, <1>14
<1>18. Lane(s, o, v, G)
  BY <1>2, <1>13, <1>15, <1>16 DEF Lane, Then, Below
<1>. QED  BY <1>12, <1>16, <1>17, <1>18

LEMMA AppendIs ==
  ASSUME NEW s \in Seq(Speech), NEW c \in Speech
  PROVE  /\ Append(s, c) \in Seq(Speech) /\ ToSet(Append(s, c)) = ToSet(s) \cup {c}
         /\ \A G : InRun(s, G) /\ Then(ToSet(s), {c}, G) => InRun(Append(s, c), G)
<1>1. PICK r : r = Append(s, c)
  OBVIOUS
<1>2. /\ r \in Seq(Speech) /\ Len(s) \in Nat /\ DOMAIN s = 1..Len(s) /\ DOMAIN r = 1..(Len(s) + 1)
      /\ \A n \in 1..Len(s) : r[n] = s[n]
      /\ r[Len(s) + 1] = c
  BY <1>1
<1>3. ToSet(r) = ToSet(s) \cup {c}
  <2>1. \A n \in DOMAIN r : r[n] \in ToSet(s) \cup {c}
    <3>1. SUFFICES ASSUME NEW n \in DOMAIN r PROVE r[n] \in ToSet(s) \cup {c}
      OBVIOUS
    <3>2. n \in DOMAIN s \/ n = Len(s) + 1
      BY <1>2
    <3>. QED  BY <1>2, <3>2 DEF ToSet
  <2>2. \A n \in DOMAIN s : s[n] \in ToSet(r)
    BY <1>2 DEF ToSet
  <2>3. c \in ToSet(r)
    <3>1. Len(s) + 1 \in DOMAIN r
      BY <1>2
    <3>. QED  BY <1>2, <3>1 DEF ToSet
  <2>. QED  BY <2>1, <2>2, <2>3 DEF ToSet
<1>4. ASSUME NEW G, InRun(s, G), Then(ToSet(s), {c}, G)
      PROVE  InRun(r, G)
  <2>1. SUFFICES ASSUME NEW m \in DOMAIN r, NEW n \in DOMAIN r, m < n
                 PROVE  Follows(r[m], r[n], G)
    BY DEF InRun
  <2>2. m \in DOMAIN s /\ r[m] = s[m] /\ s[m] \in ToSet(s)
    <3>1. m \in DOMAIN s
      BY <1>2, <2>1
    <3>. QED  BY <1>2, <3>1 DEF ToSet
  <2>3. CASE n \in DOMAIN s
    BY <1>2, <1>4, <2>1, <2>2, <2>3 DEF InRun
  <2>4. CASE n \notin DOMAIN s
    <3>1. r[n] = c
      BY <1>2, <2>4
    <3>. QED  BY <1>4, <2>2, <3>1 DEF Then
  <2>. QED  BY <2>3, <2>4
<1>. QED  BY <1>1, <1>2, <1>3, <1>4

LEMMA TailIs ==
  ASSUME NEW o \in Seq(Speech), o # <<>>
  PROVE  /\ Head(o) \in Speech /\ Tail(o) \in Seq(Speech)
         /\ ToSet(o) = {Head(o)} \cup ToSet(Tail(o))
         /\ \A G : InRun(o, G) => InRun(Tail(o), G) /\ Then({Head(o)}, ToSet(Tail(o)), G)
<1>1. PICK r, h : r = Tail(o) /\ h = Head(o)
  OBVIOUS
<1>2. /\ r \in Seq(Speech) /\ Len(o) \in Nat \ {0} /\ DOMAIN o = 1..Len(o)
      /\ DOMAIN r = 1..(Len(o) - 1) /\ h = o[1] /\ h \in Speech
      /\ \A n \in 1..(Len(o) - 1) : r[n] = o[n + 1]
  BY <1>1
<1>3. ToSet(o) = {h} \cup ToSet(r)
  <2>1. \A n \in DOMAIN o : o[n] \in {h} \cup ToSet(r)
    <3>1. SUFFICES ASSUME NEW n \in DOMAIN o PROVE o[n] \in {h} \cup ToSet(r)
      OBVIOUS
    <3>2. CASE n = 1
      BY <1>2, <3>2
    <3>3. CASE n # 1
      <4>1. n - 1 \in DOMAIN r /\ r[n - 1] = o[n]
        BY <1>2, <3>3
      <4>. QED  BY <4>1 DEF ToSet
    <3>. QED  BY <3>2, <3>3
  <2>2. \A n \in DOMAIN r : r[n] \in ToSet(o)
    <3>1. \A n \in DOMAIN r : n + 1 \in DOMAIN o /\ r[n] = o[n + 1]
      BY <1>2
    <3>. QED  BY <3>1 DEF ToSet
  <2>3. h \in ToSet(o)
    BY <1>2 DEF ToSet
  <2>. QED  BY <2>1, <2>2, <2>3 DEF ToSet
<1>4. ASSUME NEW G, InRun(o, G)
      PROVE  InRun(r, G) /\ Then({h}, ToSet(r), G)
  <2>1. \A n \in DOMAIN r : n \in Nat /\ 1 \in DOMAIN o /\ n + 1 \in DOMAIN o /\ r[n] = o[n + 1]
                              /\ 1 < n + 1
    BY <1>2
  <2>2. InRun(r, G)
    <3>1. SUFFICES ASSUME NEW m \in DOMAIN r, NEW n \in DOMAIN r, m < n
                   PROVE  Follows(r[m], r[n], G)
      BY DEF InRun
    <3>2. m + 1 < n + 1
      BY <2>1, <3>1
    <3>. QED  BY <1>4, <2>1, <3>2 DEF InRun
  <2>3. \A n \in DOMAIN r : Follows(h, r[n], G)
    BY <1>2, <1>4, <2>1 DEF InRun
  <2>. QED  BY <2>2, <2>3 DEF Then, ToSet
<1>. QED  BY <1>1, <1>2, <1>3, <1>4

LEMMA EmitLane ==
  ASSUME NEW s \in Seq(Speech), NEW o \in Seq(Speech), o # <<>>,
         NEW t, NEW G, Lane(s, o, t, G)
  PROVE  /\ Lane(Append(s, Head(o)), Tail(o), t, G)
         /\ ToSet(Append(s, Head(o))) \cup ToSet(Tail(o)) = ToSet(s) \cup ToSet(o)
<1>1. PICK h \in Speech, r \in Seq(Speech) : /\ h = Head(o) /\ r = Tail(o)
                                             /\ ToSet(o) = {h} \cup ToSet(r)
                                             /\ InRun(r, G) /\ Then({h}, ToSet(r), G)
  BY TailIs DEF Lane
<1>2. PICK a : /\ a = Append(s, h) /\ ToSet(a) = ToSet(s) \cup {h}
               /\ Then(ToSet(s), {h}, G) => InRun(a, G)
  BY AppendIs DEF Lane
<1>3. Then(ToSet(s), {h}, G) /\ Then(ToSet(s), ToSet(r), G)
  BY <1>1 DEF Lane, Then
<1>4. ToSet(a) \cup ToSet(r) = ToSet(s) \cup ToSet(o)
  BY <1>1, <1>2
<1>5. Then(ToSet(a), ToSet(r), G)
  BY <1>1, <1>2, <1>3 DEF Then
<1>. QED  BY <1>1, <1>2, <1>3, <1>4, <1>5 DEF Lane

\* What the worker had in hand is lost.
LEMMA DropLane ==
  ASSUME NEW s, NEW o, NEW t, NEW G, Lane(s, o, t, G)
  PROVE  Lane(s, <<>>, t, G)
BY ToSetIs DEF Lane, Then, Below

-----------------------------------------------------------------------------
(***************************************************************************)
(* The invariant.  A transcript is in service while its job is open and    *)
(* this process has reconciled it; one that is not has no track here.      *)
(***************************************************************************)
InService(i) ==
  /\ IsOpen(i)
  /\ \/ Up
     \/ boot.pc \in {"next", "job", "queue"} /\ i \notin boot.todo
Fresh(i) == segment[i] = <<>> /\ read[i] = {} /\ heard[i] = {} /\ again[i] = {}
Out(i) == IF wk.pc = "emit" /\ wk.id = i THEN wk.out ELSE <<>>
Gathered(i) == ToSet(segment[i]) \cup ToSet(Out(i)) \cup Held(track[i])

\* c is among S, or what S has of it is the system's copy.
SaidIn(c, S) == c \in S \/ \E d \in S : CopyOf(c, d)
Covers(S, H) == \A c \in H : SaidIn(c, S)

Flushes(i) == Closing /\ wk.verdict = "completed" /\ wk.id = i
Speaks(w) == /\ w.kind \in Kind /\ w.chunk \in Nat /\ w.out \in Seq(Speech)
             /\ w.pc = "emit" => w.out # <<>>
SpeechTypes ==
  /\ segment \in [Id -> Seq(Speech)]
  /\ track \in [Id -> TrackType]
  /\ Speaks(wk)
  /\ read \in [Id -> SUBSET (Kind \X Nat)]
  /\ heard \in [Id -> SUBSET Speech] /\ again \in [Id -> SUBSET Speech]
  /\ crashes \in 0..MaxCrashes /\ errors \in 0..MaxErrors

Row(i) ==
  /\ InRun(segment[i], again[i]) /\ TailHolds(track[i])
  /\ InService(i) => /\ Lane(segment[i], Out(i), track[i], again[i])
                     /\ Covers(Gathered(i), heard[i])
  /\ Settled(i) => Covers(ToSet(segment[i]), heard[i])
  /\ job[i].state = "absent" => Fresh(i) /\ track[i] = NoTrack
  /\ ~Up => track[i] = NoTrack
  /\ boot.pc = "queue" /\ boot.id = i => Fresh(i)
  /\ Flushes(i) => Held(track[i]) = {}

SpeechHolds == SpeechTypes /\ \A i \in Id : Row(i)

LEMMA NoTrackIs ==
  /\ NoTrack \in TrackType /\ Held(NoTrack) = {} /\ TailHolds(NoTrack)
  /\ \A s, G : s = <<>> => InRun(s, G) /\ Lane(s, <<>>, NoTrack, G)
<1>1. /\ NoTrack.done = [k \in Kind |-> 0] /\ NoTrack.pending = [k \in Kind |-> <<>>]
      /\ NoTrack.tail = [k \in Kind |-> NoTail]
  BY DEF NoTrack
<1>2. NoTrack \in TrackType
  BY DEF NoTrack, TrackType, Overlap, NoTail
<1>3. Held(NoTrack) = {}
  BY <1>1, ToSetIs DEF Held
<1>4. TailHolds(NoTrack)
  BY <1>1 DEF TailHolds, NoTail
<1>5. ASSUME NEW s, NEW G, s = <<>>
      PROVE  InRun(s, G) /\ Lane(s, <<>>, NoTrack, G)
  <2>1. TracksHold(NoTrack, G)
    BY <1>1, ToSetIs DEF TracksHold
  <2>. QED  BY <1>3, <1>5, <2>1, ToSetIs DEF Lane, Then, Below
<1>. QED  BY <1>2, <1>3, <1>4, <1>5

\* What the worker holds when it idles or goes on.
LEMMA SpeaksIs ==
  /\ Speaks(Idle)
  /\ \A w : Shaped(w) /\ Speaks(w) =>
       /\ \A pc : pc # "emit" => Speaks([w EXCEPT !.pc = pc])
       /\ \A i : Speaks([w EXCEPT !.id = i])
       /\ \A pc, v : pc # "emit" => Speaks([w EXCEPT !.pc = pc, !.verdict = v])
       /\ \A out \in Seq(Speech) : \A next : next # "emit" => Speaks(EmitThen(w, out, next))
  /\ \A pc, s : pc # "emit" => Speaks([Idle EXCEPT !.pc = pc, !.session = s])
  /\ \A pc, i, s : \A k \in Kind : \A c \in Nat : pc # "emit" =>
       /\ Speaks([Idle EXCEPT !.pc = pc, !.id = i, !.session = s, !.kind = k, !.chunk = c])
       /\ Speaks([Idle EXCEPT !.pc = pc, !.id = i, !.kind = k, !.chunk = c])
<1>1. Mic \in Kind /\ Speaks(Idle)
  BY WorkerAssumption DEF Speaks, Idle
<1>2. ASSUME NEW w, Shaped(w), Speaks(w)
      PROVE  /\ \A pc : pc # "emit" => Speaks([w EXCEPT !.pc = pc])
             /\ \A i : Speaks([w EXCEPT !.id = i])
             /\ \A pc, v : pc # "emit" => Speaks([w EXCEPT !.pc = pc, !.verdict = v])
  BY <1>2 DEF Speaks, Shaped
<1>3. ASSUME NEW w, Shaped(w), Speaks(w), NEW out \in Seq(Speech), NEW next, next # "emit"
      PROVE  Speaks(EmitThen(w, out, next))
  <2>1. PICK pc, e : pc = (IF out = <<>> THEN next ELSE "emit") /\ e = EmitThen(w, out, next)
    OBVIOUS
  <2>2. e.pc = pc /\ e.out = out /\ e.kind = w.kind /\ e.chunk = w.chunk
    BY <1>3, <2>1 DEF EmitThen, Shaped
  <2>. QED  BY <1>3, <2>1, <2>2 DEF Speaks
<1>4. \A pc, s : pc # "emit" => Speaks([Idle EXCEPT !.pc = pc, !.session = s])
  BY <1>1 DEF Speaks, Idle
<1>5. ASSUME NEW pc, pc # "emit", NEW i, NEW s, NEW k \in Kind, NEW c \in Nat
      PROVE  /\ Speaks([Idle EXCEPT !.pc = pc, !.id = i, !.session = s, !.kind = k, !.chunk = c])
             /\ Speaks([Idle EXCEPT !.pc = pc, !.id = i, !.kind = k, !.chunk = c])
  BY <1>5 DEF Speaks, Idle
<1>. QED  BY <1>1, <1>2, <1>3, <1>4, <1>5

-----------------------------------------------------------------------------
(***************************************************************************)
(* What a step leaves of a transcript it does not speak of.                *)
(***************************************************************************)
Untouched(i) ==
  /\ segment'[i] = segment[i] /\ track'[i] = track[i] /\ read'[i] = read[i]
  /\ heard'[i] = heard[i] /\ again'[i] = again[i]
Elsewhere(i) == \A j \in Id \ {i} : Untouched(j) /\ Out(j)' = Out(j)

\* Nothing new is said, and no chunk heard.
Keeps(i) == /\ Gathered(i)' \subseteq Gathered(i) /\ Elsewhere(i)
            /\ track'[i].done = track[i].done /\ track'[i].tail = track[i].tail

Begins(i) == job[i].state = "absent" /\ job'[i].state \notin {"absent", "completed"}
JobGoesOn(i) == \/ job'[i].state = job[i].state
                \/ IsOpen(i) /\ IsOpen(i)'
                \/ IsOpen(i) /\ job'[i].state = "failed"
                \/ Begins(i)

LEMMA RowKeeps ==
  ASSUME NEW i \in Id, Row(i), Untouched(i), Up, UNCHANGED boot, Out(i)' = Out(i),
         JobGoesOn(i), Begins(i) => Out(i) = <<>>, Flushes(i)' => Flushes(i)
  PROVE  Row(i)'
<1>1. Up' /\ boot'.pc # "queue"
  BY DEF Up
<1>2. InRun(segment[i], again[i])' /\ TailHolds(track[i])'
  BY DEF Row, Untouched
<1>3. ASSUME InService(i)'
      PROVE  Lane(segment[i], Out(i), track[i], again[i])' /\ Covers(Gathered(i), heard[i])'
  <2>1. IsOpen(i) \/ Begins(i)
    BY <1>3 DEF InService, JobGoesOn, IsOpen, Open
  <2>2. CASE IsOpen(i)
    <3>1. Lane(segment[i], Out(i), track[i], again[i]) /\ Covers(Gathered(i), heard[i])
      BY <2>2 DEF Row, InService
    <3>2. Gathered(i)' = Gathered(i)
      BY DEF Gathered, Untouched
    <3>. QED  BY <3>1, <3>2 DEF Untouched
  <2>3. CASE Begins(i)
    <3>1. segment'[i] = <<>> /\ track'[i] = NoTrack /\ heard'[i] = {} /\ Out(i)' = <<>>
      BY <2>3 DEF Row, Begins, Fresh, Untouched
    <3>2. Lane(segment'[i], <<>>, NoTrack, again'[i])
      BY <3>1, NoTrackIs
    <3>. QED  BY <3>1, <3>2 DEF Covers
  <2>. QED  BY <2>1, <2>2, <2>3
<1>4. Settled(i)' => Covers(ToSet(segment[i]), heard[i])'
  <2>1. Settled(i)' => Settled(i)
    BY DEF Settled, JobGoesOn, Begins, IsOpen, Open
  <2>. QED  BY <2>1 DEF Row, Untouched
<1>5. job'[i].state = "absent" => Fresh(i)' /\ track'[i] = NoTrack
  <2>1. job'[i].state = "absent" => job[i].state = "absent"
    BY DEF JobGoesOn, Begins, IsOpen, Open
  <2>. QED  BY <2>1 DEF Row, Fresh, Untouched
<1>6. Flushes(i)' => Held(track[i])' = {}
  BY DEF Row, Untouched
<1>. QED  BY <1>1, <1>2, <1>3, <1>4, <1>5, <1>6 DEF Row

LEMMA TypesKeep ==
  ASSUME SpeechTypes, UNCHANGED <<segment, track, past>>, Speaks(wk)',
         crashes' \in 0..MaxCrashes, errors' \in 0..MaxErrors
  PROVE  SpeechTypes'
BY DEF SpeechTypes, past

\* Nothing of what is said is at stake.
LEMMA SilentKeeps ==
  ASSUME SpeechHolds, UNCHANGED <<store, track, past, wk, boot, crashes, errors>>
  PROVE  SpeechHolds'
<1>1. SpeechTypes'
  BY TypesKeep DEF SpeechHolds, SpeechTypes, store
<1>2. ASSUME NEW i \in Id
      PROVE  Row(i)'
  <2>1. Row(i)
    BY DEF SpeechHolds
  <2>. QED  BY <2>1 DEF Row, store, past, Up, InService, IsOpen, Out, Gathered, Settled, Fresh,
                        Flushes, Closing
<1>. QED  BY <1>1, <1>2 DEF SpeechHolds

(***************************************************************************)
(* The invariant, action by action.                                        *)
(***************************************************************************)
LEMMA WorksUp ==
  ASSUME Control, WorkerStep \/ EngineFails \/ WorkerError
  PROVE  Up /\ UNCHANGED boot
<1>1. ~Up => wk.pc = "idle"
  BY ControlParts DEF BootHolds, Idle
<1>. QED  BY <1>1 DEF WorkerStep, EngineFails, WorkerError, TakeChunk, TakeStop, TakeStep,
     Transcribe, Retry, Emit, Account, Advance, Finalise, Report, Settle, SettleJob, At

\* What the worker works on is open.
LEMMA WorksOn ==
  ASSUME Control, wk.pc \notin {"idle", "finalise"}
  PROVE  wk.id \in Id /\ IsOpen(wk.id) /\ job[wk.id].state \notin {"absent"} \cup Ended
BY ControlParts DEF WorkHolds, IsOpen, Open, Ended

\* Rows, jobs and the worker move, and no speech does.
LEMMA RowsKeep ==
  ASSUME SpeechHolds, Up, UNCHANGED <<segment, track, past, boot, crashes>>, Speaks(wk)',
         UNCHANGED errors \/ errors' \in 0..MaxErrors,
         wk.pc # "emit" \/ UNCHANGED wk, wk'.pc # "emit" \/ UNCHANGED wk,
         \A i \in Id : JobGoesOn(i) /\ (Begins(i) => Out(i) = <<>>) /\ (Flushes(i)' => Flushes(i))
  PROVE  SpeechHolds'
<1>1. SpeechTypes'
  BY TypesKeep DEF SpeechHolds, SpeechTypes
<1>2. \A i \in Id : Out(i)' = Out(i)
  BY DEF Out
<1>3. \A i \in Id : Untouched(i)
  BY DEF Untouched, past
<1>4. \A i \in Id : Row(i)
  BY DEF SpeechHolds
<1>5. \A i \in Id : Row(i)'
  BY <1>2, <1>3, <1>4, RowKeeps
<1>. QED  BY <1>1, <1>5 DEF SpeechHolds

LEMMA NextIsNew ==
  ASSUME Control, NEW i \in Id, NEW s, NEW mode, NEW ts, NEW js \in {"failed", "running", "queued"},
         CreateTranscript(i, s, mode, ts, js)
  PROVE  /\ UNCHANGED segment
         /\ \A j \in Id : JobGoesOn(j) /\ (Begins(j) => Out(j) = <<>>)
<1>1. OnlyRow(i) /\ job'[i].state = js
  BY ControlParts, RowOps
<1>2. job[i].state = "absent"
  BY ControlParts DEF CreateTranscript, IsNext, Id, TablesHold, Exists
<1>3. UNCHANGED segment
  BY DEF CreateTranscript
<1>4. \A j \in Id : JobGoesOn(j) /\ (Begins(j) => j = i)
  BY <1>1, <1>2 DEF JobGoesOn, Begins, OnlyRow
<1>5. Out(i) = <<>>
  BY <1>2, WorksOn DEF Out
<1>. QED  BY <1>3, <1>4, <1>5

\* Capture and requests.
LEMMA ObserversSpeak ==
  ASSUME Control, SpeechHolds,
         \/ Capture \/ ListLive
         \/ \E s \in Session : BeginLive(s) \/ OnStopped(s)
         \/ \E w \in Source : OnChunk(w) \/ PushChunk(w)
         \/ \E r \in Request : RequestStep(r) \/ \E s \in Session : CheckRequest(r, s)
  PROVE  SpeechHolds'
<1>1. CASE \/ Capture \/ ListLive
           \/ \E s \in Session : OnStopped(s)
           \/ \E w \in Source : OnChunk(w) \/ PushChunk(w)
           \/ \E r \in Request : PushRequested(r) \/ \E s \in Session : CheckRequest(r, s)
  <2>1. UNCHANGED <<store, track, past, wk, boot, crashes, errors>>
    BY <1>1 DEF Capture, ListLive, OnStopped, OnChunk, PushChunk, PushRequested, CheckRequest,
                memory
  <2>. QED  BY <2>1, SilentKeeps
<1>2. ASSUME NEW i \in Id, NEW s, NEW mode, NEW ts, NEW js \in {"failed", "running", "queued"},
             CreateTranscript(i, s, mode, ts, js), Up,
             UNCHANGED <<track, past, wk, boot, crashes, errors>>
      PROVE  SpeechHolds'
  <2>1. /\ UNCHANGED segment
        /\ \A j \in Id : JobGoesOn(j) /\ (Begins(j) => Out(j) = <<>>)
    BY <1>2, NextIsNew
  <2>2. Speaks(wk)'
    BY <1>2 DEF SpeechHolds, SpeechTypes
  <2>3. \A j \in Id : Flushes(j)' => Flushes(j)
    BY <1>2 DEF Flushes, Closing
  <2>. QED  BY <1>2, <2>1, <2>2, <2>3, RowsKeep
<1>3. ASSUME NEW s \in Session, BeginLive(s)
      PROVE  SpeechHolds'
  <2>1. Up /\ UNCHANGED <<track, past, wk, boot, crashes, errors>>
    BY <1>3 DEF BeginLive, LockHolderFree
  <2>2. \/ UNCHANGED store
        \/ \E i \in Id : CreateTranscript(i, s, "live", "failed", "failed")
        \/ \E i \in Id : CreateTranscript(i, s, "live", "live", "running")
    BY <1>3 DEF BeginLive
  <2>. QED  BY <1>2, <2>1, <2>2, SilentKeeps
<1>4. ASSUME NEW r \in Request, CreateRequested(r)
      PROVE  SpeechHolds'
  <2>1. Up
    BY <1>4, ControlParts DEF BootHolds, CreateRequested
  <2>2. UNCHANGED <<track, past, wk, boot, crashes, errors>>
    BY <1>4 DEF CreateRequested, memory
  <2>3. \E i \in Id : CreateTranscript(i, request[r].session, "on_demand", "pending", "queued")
    BY <1>4 DEF CreateRequested
  <2>. QED  BY <1>2, <2>1, <2>2, <2>3
<1>. QED  BY <1>1, <1>3, <1>4 DEF RequestStep

\* The worker between its steps: it takes an item, counts, says how it stands, ends.
LEMMA QuietSpeaks ==
  ASSUME Control, SpeechHolds,
         \/ TakeChunk \/ TakeStop \/ Account \/ Advance \/ Report \/ Settle \/ EngineFails
  PROVE  SpeechHolds'
<1>1. Up /\ UNCHANGED <<boot, segment, track, past, crashes, errors>>
  <2>1. Up /\ UNCHANGED boot
    BY WorksUp DEF WorkerStep
  <2>. QED  BY <2>1 DEF TakeChunk, TakeStop, Account, Advance, Report, Settle, EngineFails,
                     SetJobState, UpdateJob, SetState, store
<1>2. wk.pc # "emit"
  BY DEF TakeChunk, TakeStop, Account, Advance, Report, Settle, EngineFails, At
<1>3. Speaks(wk) /\ Shaped(wk)
  BY ControlParts DEF SpeechHolds, SpeechTypes
<1>4. Speaks(wk)' /\ (wk'.pc # "emit" \/ UNCHANGED wk)
  <2>1. CASE TakeChunk
    <3>1. Head(liveQ) \in Item
      BY <2>1, ControlParts, HeadHas DEF TakeChunk, LiveTypes
    <3>2. Head(liveQ).kind \in Kind /\ Head(liveQ).chunk \in Nat
      BY <3>1 DEF Item
    <3>. QED  BY <1>3, <2>1, <3>2, SpeaksIs DEF TakeChunk, Idle
  <2>2. CASE TakeStop
    BY <2>2, SpeaksIs DEF TakeStop, Idle
  <2>3. CASE Account \/ Advance \/ Report
    <3>1. wk' = Idle \/ wk' = [Idle EXCEPT !.pc = "finalise", !.session = wk.session]
      BY <2>3 DEF Account, Advance, Report
    <3>2. /\ Speaks(Idle) /\ wk'.pc \in {"idle", "finalise"}
          /\ \A s : Speaks([Idle EXCEPT !.pc = "finalise", !.session = s])
      BY <3>1, SpeaksIs, RestIs
    <3>. QED  BY <3>1, <3>2 DEF Speaks
  <2>4. CASE Settle \/ EngineFails
    <3>1. \/ wk' = [wk EXCEPT !.pc = "job"]
          \/ wk' = [wk EXCEPT !.pc = "settle", !.verdict = "failed"]
      BY <2>4 DEF Settle, EngineFails
    <3>2. Speaks(wk)'
      <4>1. /\ Speaks([wk EXCEPT !.pc = "job"])
            /\ Speaks([wk EXCEPT !.pc = "settle", !.verdict = "failed"])
        BY <1>3, SpeaksIs
      <4>. QED  BY <3>1, <4>1 DEF Speaks
    <3>3. wk'.pc # "emit"
      BY <1>3, <3>1 DEF Shaped
    <3>. QED  BY <3>2, <3>3
  <2>. QED  BY <2>1, <2>2, <2>3, <2>4
<1>5. \A i \in Id : JobGoesOn(i) /\ ~Begins(i)
  <2>1. UNCHANGED job
        \/ /\ wk.pc \notin {"idle", "finalise"}
           /\ \E js \in {"running"} \cup {job[wk.id].state} : \E p :
                 UpdateJob(wk.id, [job[wk.id] EXCEPT !.state = js])
                 \/ UpdateJob(wk.id, [job[wk.id] EXCEPT !.progress = p])
    BY DEF TakeChunk, TakeStop, Account, Advance, Report, Settle, EngineFails,
           SetJobState, SetState, store, At
  <2>2. CASE UNCHANGED job
    BY <2>2 DEF JobGoesOn, Begins
  <2>3. ASSUME wk.pc \notin {"idle", "finalise"}, NEW js \in {"running"} \cup {job[wk.id].state},
               NEW p, \/ UpdateJob(wk.id, [job[wk.id] EXCEPT !.state = js])
                      \/ UpdateJob(wk.id, [job[wk.id] EXCEPT !.progress = p])
        PROVE  \A i \in Id : JobGoesOn(i) /\ ~Begins(i)
    <3>1. wk.id \in Id /\ IsOpen(wk.id) /\ job[wk.id].state # "absent"
      BY <2>3, WorksOn
    <3>2. PICK i, j : i \in Id /\ i = wk.id /\ UpdateJob(i, j) /\ j.state \in Open
      <4>1. job[wk.id] \in [state : JobState, progress : Nat, total : Nat]
        BY <3>1, ControlParts DEF TableTypes
      <4>2. [job[wk.id] EXCEPT !.state = js].state \in Open
            /\ [job[wk.id] EXCEPT !.progress = p].state \in Open
        BY <3>1, <4>1 DEF IsOpen, Open
      <4>. QED  BY <2>3, <3>1, <4>2
    <3>3. OnlyRow(i) /\ job'[i] = j
      BY <3>2, ControlParts, RowOps
    <3>4. IsOpen(i) /\ IsOpen(i)'
      BY <3>1, <3>2, <3>3 DEF IsOpen
    <3>. QED  BY <3>1, <3>2, <3>3, <3>4 DEF OnlyRow, JobGoesOn, Begins, IsOpen
  <2>. QED  BY <2>1, <2>2, <2>3
<1>6. \A i \in Id : Flushes(i)' => Flushes(i)
  <2>1. CASE TakeChunk \/ TakeStop \/ Account \/ Advance \/ Report
    <3>1. UNCHANGED wk \/ wk'.pc \in {"idle", "transcribe", "finalise"}
      <4>1. CASE TakeChunk \/ TakeStop
        BY <4>1 DEF TakeChunk, TakeStop, Idle
      <4>2. CASE Account \/ Advance \/ Report
        <5>1. wk' = Idle \/ wk' = [Idle EXCEPT !.pc = "finalise", !.session = wk.session]
          BY <4>2 DEF Account, Advance, Report
        <5>. QED  BY <5>1, RestIs
      <4>. QED  BY <2>1, <4>1, <4>2
    <3>. QED  BY <3>1 DEF Flushes, Closing
  <2>2. CASE Settle
    <3>1. wk' = [wk EXCEPT !.pc = "job"] /\ wk.pc = "settle"
      BY <2>2 DEF Settle, At
    <3>. QED  BY <1>3, <3>1 DEF Flushes, Closing, Shaped
  <2>3. CASE EngineFails
    <3>1. wk' = [wk EXCEPT !.pc = "settle", !.verdict = "failed"]
      BY <2>3 DEF EngineFails
    <3>2. wk'.verdict = "failed"
      BY <1>3, <3>1 DEF Shaped
    <3>. QED  BY <3>2 DEF Flushes
  <2>. QED  BY <2>1, <2>2, <2>3
<1>. QED  BY <1>1, <1>2, <1>4, <1>5, <1>6, RowsKeep

\* One transcript moves while the process is up, and the others stay.
LEMMA OneRow ==
  ASSUME SpeechHolds, Up, UNCHANGED boot, SpeechTypes', NEW r \in Id, Row(r)',
         \A i \in Id \ {r} : /\ Untouched(i) /\ job'[i].state = job[i].state
                             /\ Out(i)' = Out(i) /\ (Flushes(i)' => Flushes(i))
  PROVE  SpeechHolds'
<1>1. \A i \in Id : Row(i)
  BY DEF SpeechHolds
<1>2. \A i \in Id \ {r} : Row(i)'
  BY <1>1, RowKeeps DEF JobGoesOn, Begins
<1>. QED  BY <1>2 DEF SpeechHolds

LEMMA OpenRow ==
  ASSUME NEW r, Up, UNCHANGED boot, IsOpen(r)',
         Lane(segment[r], Out(r), track[r], again[r])', Covers(Gathered(r), heard[r])',
         TailHolds(track[r])', Flushes(r)' => Held(track[r])' = {}
  PROVE  Row(r)'
<1>1. Up' /\ boot'.pc = "up"
  BY DEF Up
<1>2. job'[r].state \notin {"absent", "completed"}
  BY DEF IsOpen, Open
<1>3. InRun(segment[r], again[r])'
  BY DEF Lane
<1>. QED  BY <1>1, <1>2, <1>3 DEF Row, Settled

LEMMA RowServed ==
  ASSUME SpeechHolds, Up, NEW r \in Id, IsOpen(r)
  PROVE  /\ Lane(segment[r], Out(r), track[r], again[r]) /\ Covers(Gathered(r), heard[r])
         /\ TailHolds(track[r]) /\ (Flushes(r) => Held(track[r]) = {})
         /\ segment[r] \in Seq(Speech) /\ track[r] \in TrackType
         /\ heard[r] \in SUBSET Speech /\ again[r] \in SUBSET Speech
<1>1. Row(r) /\ InService(r)
  BY DEF SpeechHolds, InService
<1>. QED  BY <1>1 DEF SpeechHolds, SpeechTypes, Row

\* One segment is appended.
LEMMA EmitSpeaks ==
  ASSUME Control, SpeechHolds, Emit
  PROVE  SpeechHolds' /\ Keeps(wk.id)
<1>1. PICK i, o, s : i = wk.id /\ o = wk.out /\ s = segment[i]
  OBVIOUS
<1>2. /\ wk.pc = "emit" /\ AppendSegment(i, Head(o)) /\ wk' = EmitThen(wk, Tail(o), wk.next)
      /\ UNCHANGED <<track, boot, past, crashes, errors>>
  BY <1>1 DEF Emit, At
<1>3. Up
  BY WorksUp DEF WorkerStep
<1>4. /\ i \in Id /\ IsOpen(i) /\ Out(i) = o /\ o \in Seq(Speech) /\ o # <<>>
      /\ wk.next \in {"retry", "account", "advance", "settle"} /\ Shaped(wk) /\ Speaks(wk)
  BY <1>1, <1>2, WorksOn, ControlParts DEF Out, SpeechHolds, SpeechTypes, Speaks, WorkHolds
<1>5. /\ Lane(s, o, track[i], again[i]) /\ Covers(Gathered(i), heard[i])
      /\ TailHolds(track[i]) /\ (Flushes(i) => Held(track[i]) = {}) /\ s \in Seq(Speech)
  BY <1>1, <1>3, <1>4, RowServed
<1>6. PICK h \in Speech, r \in Seq(Speech), a \in Seq(Speech) :
        h = Head(o) /\ r = Tail(o) /\ a = Append(s, h)
  BY <1>4, <1>5, TailIs, AppendIs
<1>7. Lane(a, r, track[i], again[i]) /\ ToSet(a) \cup ToSet(r) = ToSet(s) \cup ToSet(o)
  BY <1>4, <1>5, <1>6, EmitLane
<1>8. /\ segment'[i] = a /\ (\A j \in Id \ {i} : segment'[j] = segment[j])
      /\ segment' \in [Id -> Seq(Speech)] /\ UNCHANGED job
  <2>1. segment' = [segment EXCEPT ![i] = a] /\ UNCHANGED job
    BY <1>1, <1>2, <1>6 DEF AppendSegment
  <2>. QED  BY <1>4, <1>6, <2>1 DEF SpeechHolds, SpeechTypes
<1>9. /\ Speaks(wk)' /\ wk'.pc = (IF r = <<>> THEN wk.next ELSE "emit") /\ wk'.id = i
      /\ wk'.out = r /\ wk'.next = wk.next /\ wk'.verdict = wk.verdict
  <2>1. PICK e : e = EmitThen(wk, r, wk.next)
    OBVIOUS
  <2>2. Speaks(e)
    BY <1>4, <1>6, <2>1, SpeaksIs
  <2>3. wk.next \in WorkerPc
    BY <1>4 DEF WorkerPc
  <2>4. /\ e.pc = (IF r = <<>> THEN wk.next ELSE "emit") /\ e.id = i /\ e.out = r
        /\ e.next = wk.next /\ e.verdict = wk.verdict
    BY <1>1, <1>4, <2>1, <2>3, EmitThenIs
  <2>5. wk' = e
    BY <1>2, <1>6, <2>1
  <2>. QED  BY <2>2, <2>4, <2>5 DEF Speaks
<1>10. SpeechTypes'
  BY <1>2, <1>8, <1>9 DEF SpeechHolds, SpeechTypes, past
<1>11. Out(i)' = r
  BY <1>4, <1>9 DEF Out
<1>12. \A j \in Id : Flushes(j)' => Flushes(j)
  BY <1>1, <1>2, <1>4, <1>9 DEF Flushes, Closing
<1>13. Gathered(i)' = Gathered(i)
  BY <1>1, <1>2, <1>4, <1>7, <1>8, <1>11 DEF Gathered
<1>14. Row(i)'
  <2>1. Lane(segment[i], Out(i), track[i], again[i])'
    BY <1>2, <1>7, <1>8, <1>11 DEF past
  <2>2. Covers(Gathered(i), heard[i])'
    BY <1>2, <1>5, <1>13 DEF past
  <2>3. IsOpen(i)'
    BY <1>4, <1>8 DEF IsOpen
  <2>. QED  BY <1>2, <1>3, <1>4, <1>5, <1>12, <2>1, <2>2, <2>3, OpenRow
<1>15. \A j \in Id \ {i} : Untouched(j) /\ job'[j].state = job[j].state /\ Out(j)' = Out(j)
  BY <1>1, <1>2, <1>8, <1>9 DEF Untouched, Out, past
<1>16. Keeps(i)
  BY <1>2, <1>13, <1>15 DEF Keeps, Elsewhere
<1>17. SpeechHolds'
  BY <1>2, <1>3, <1>4, <1>10, <1>12, <1>14, <1>15, OneRow
<1>. QED  BY <1>1, <1>16, <1>17

\* A job ends, and what it said is what its transcript holds.
LEMMA SettleJobSpeaks ==
  ASSUME Control, SpeechHolds, SettleJob
  PROVE  SpeechHolds'
<1>1. PICK i : i = wk.id
  OBVIOUS
<1>2. /\ wk.pc = "job" /\ SetJobState(i, wk.verdict) /\ wk' = Idle
      /\ UNCHANGED <<segment, track, boot, past, crashes, errors>>
  BY <1>1 DEF SettleJob, At, SetJobState, UpdateJob
<1>3. Up
  BY WorksUp DEF WorkerStep
<1>4. i \in Id /\ IsOpen(i) /\ Out(i) = <<>> /\ wk.verdict \in Ended
  BY <1>1, <1>2, WorksOn, ControlParts DEF Out, Shaped
<1>5. OnlyRow(i) /\ job'[i].state = wk.verdict
  BY <1>2, <1>4, ControlParts, RowOps
<1>6. Speaks(wk)' /\ wk'.pc = "idle"
  <2>1. Speaks(Idle) /\ Idle.pc = "idle"
    BY SpeaksIs DEF Idle
  <2>. QED  BY <1>2, <2>1 DEF Speaks
<1>7. \A j \in Id : ~Flushes(j)' /\ Out(j)' = <<>> /\ Out(j) = <<>>
  BY <1>2, <1>6 DEF Flushes, Closing, Out
<1>8. SpeechTypes'
  BY <1>2, <1>6, TypesKeep DEF SpeechHolds, SpeechTypes
<1>9. \A j \in Id : Untouched(j)
  BY <1>2 DEF Untouched, past
<1>10. Row(i)'
  <2>1. CASE wk.verdict = "failed"
    <3>1. JobGoesOn(i) /\ ~Begins(i)
      BY <1>4, <1>5, <2>1 DEF JobGoesOn, Begins, IsOpen, Open
    <3>2. Row(i)
      BY <1>4 DEF SpeechHolds
    <3>. QED  BY <1>2, <1>3, <1>4, <1>7, <1>9, <3>1, <3>2, RowKeeps
  <2>2. CASE wk.verdict = "completed"
    <3>1. Flushes(i)
      BY <1>1, <1>2, <2>2 DEF Flushes, Closing
    <3>2. /\ InRun(segment[i], again[i]) /\ TailHolds(track[i])
          /\ Covers(Gathered(i), heard[i]) /\ Held(track[i]) = {}
      BY <1>3, <1>4, <3>1, RowServed DEF Lane
    <3>3. Gathered(i) = ToSet(segment[i])
      BY <1>4, <3>2, ToSetIs DEF Gathered
    <3>4. ~IsOpen(i)' /\ job'[i].state # "absent" /\ Up' /\ boot'.pc = "up"
      BY <1>2, <1>3, <1>5, <2>2 DEF IsOpen, Open, Up
    <3>5. segment'[i] = segment[i] /\ track'[i] = track[i] /\ again'[i] = again[i]
          /\ heard'[i] = heard[i]
      BY <1>4, <1>9 DEF Untouched
    <3>6. Covers(ToSet(segment[i]), heard[i])'
      BY <3>2, <3>3, <3>5
    <3>7. InRun(segment[i], again[i])' /\ TailHolds(track[i])'
      BY <3>2, <3>5
    <3>8. ~InService(i)' /\ ~Flushes(i)'
      BY <1>4, <1>7, <3>4 DEF InService
    <3>. QED  BY <3>4, <3>6, <3>7, <3>8 DEF Row
  <2>. QED  BY <1>4, <2>1, <2>2 DEF Ended
<1>. QED  BY <1>2, <1>3, <1>4, <1>5, <1>7, <1>8, <1>9, <1>10, OneRow DEF OnlyRow

\* What the worker had in hand is lost, and so is what was heard of it.
LEMMA WorkerErrorSpeaks ==
  ASSUME Control, SpeechHolds, WorkerError
  PROVE  SpeechHolds'
<1>1. PICK i, o, s : i = wk.id /\ o = wk.out /\ s = segment[i]
  OBVIOUS
<1>2. /\ UNCHANGED <<store, track, boot, read, again, crashes>> /\ wk' = Idle
      /\ errors < MaxErrors /\ errors' = errors + 1
      /\ heard' = IF wk.pc = "emit"
                    THEN [heard EXCEPT ![i] = {c \in @ : \A d \in ToSet(o) :
                                                           c # d /\ ~CopyOf(c, d)}]
                    ELSE heard
  BY <1>1 DEF WorkerError, At
<1>3. Up
  BY WorksUp
<1>4. Speaks(wk)' /\ wk'.pc = "idle"
  <2>1. Speaks(Idle) /\ Idle.pc = "idle"
    BY SpeaksIs DEF Idle
  <2>. QED  BY <1>2, <2>1 DEF Speaks
<1>5. errors' \in 0..MaxErrors
  BY <1>2, WorkerAssumption DEF SpeechHolds, SpeechTypes
<1>6. \A j \in Id : ~Flushes(j)' /\ Out(j)' = <<>> /\ job'[j] = job[j]
  BY <1>2, <1>4 DEF Flushes, Closing, Out, store
<1>7. CASE wk.pc # "emit"
  <2>1. \A j \in Id : JobGoesOn(j) /\ ~Begins(j)
    BY <1>6 DEF JobGoesOn, Begins
  <2>. QED  BY <1>2, <1>3, <1>4, <1>5, <1>6, <1>7, <2>1, RowsKeep DEF store, past
<1>8. CASE wk.pc = "emit"
  <2>1. i \in Id /\ IsOpen(i) /\ Out(i) = o
    BY <1>1, <1>8, WorksOn DEF Out
  <2>2. /\ Lane(s, o, track[i], again[i]) /\ Covers(Gathered(i), heard[i])
        /\ TailHolds(track[i]) /\ heard[i] \in SUBSET Speech
    BY <1>1, <1>3, <2>1, RowServed
  <2>3. PICK H : H = {c \in heard[i] : \A d \in ToSet(o) : c # d /\ ~CopyOf(c, d)}
    OBVIOUS
  <2>4. /\ heard'[i] = H /\ \A j \in Id \ {i} : heard'[j] = heard[j]
        /\ heard' \in [Id -> SUBSET Speech]
    BY <1>2, <1>8, <2>1, <2>2, <2>3 DEF SpeechHolds, SpeechTypes
  <2>5. SpeechTypes'
    BY <1>2, <1>4, <1>5, <2>4 DEF SpeechHolds, SpeechTypes, store
  <2>6. Gathered(i) = ToSet(s) \cup ToSet(o) \cup Held(track[i])
    BY <1>1, <2>1 DEF Gathered
  <2>7. Gathered(i)' = ToSet(s) \cup Held(track[i])
    BY <1>1, <1>2, <1>6, <2>1, ToSetIs DEF Gathered, store
  <2>8. Covers(Gathered(i), heard[i])'
    <3>1. \A c \in H : SaidIn(c, Gathered(i)) /\ \A d \in ToSet(o) : c # d /\ ~CopyOf(c, d)
      BY <2>2, <2>3 DEF Covers
    <3>2. \A c \in H : SaidIn(c, Gathered(i)')
      BY <2>6, <2>7, <3>1 DEF SaidIn
    <3>. QED  BY <2>4, <3>2 DEF Covers
  <2>9. Lane(segment[i], Out(i), track[i], again[i])'
    BY <1>1, <1>2, <1>6, <2>1, <2>2, DropLane DEF store
  <2>10. Row(i)'
    BY <1>2, <1>3, <1>6, <2>1, <2>2, <2>8, <2>9, OpenRow DEF IsOpen
  <2>11. \A j \in Id \ {i} : Untouched(j) /\ Out(j) = <<>>
    BY <1>1, <1>2, <2>4 DEF Untouched, store, Out
  <2>. QED  BY <1>2, <1>3, <1>6, <2>1, <2>5, <2>10, <2>11, OneRow
<1>. QED  BY <1>7, <1>8

\* The process dies: its tracks are gone, the tables stay.
LEMMA CrashSpeaks ==
  ASSUME Control, SpeechHolds, Crash
  PROVE  SpeechHolds'
<1>1. /\ UNCHANGED <<store, errors, past>> /\ track' = [i \in Id |-> NoTrack] /\ wk' = Idle
      /\ boot' = Boot("scan") /\ crashes < MaxCrashes /\ crashes' = crashes + 1
  BY DEF Crash
<1>2. ~Up' /\ boot'.pc = "scan"
  BY <1>1 DEF Boot, Up
<1>3. \A i \in Id : track'[i] = NoTrack
  BY <1>1
<1>4. SpeechTypes'
  <2>1. Speaks(wk)'
    BY <1>1, SpeaksIs DEF Speaks
  <2>2. track' \in [Id -> TrackType]
    BY <1>1, NoTrackIs
  <2>3. crashes' \in 0..MaxCrashes
    BY <1>1, WorkerAssumption DEF SpeechHolds, SpeechTypes
  <2>. QED  BY <1>1, <2>1, <2>2, <2>3 DEF SpeechHolds, SpeechTypes, store, past
<1>5. ASSUME NEW i \in Id
      PROVE  Row(i)'
  <2>1. Row(i)
    BY DEF SpeechHolds
  <2>2. ~InService(i)'
    BY <1>2 DEF InService
  <2>3. ~Flushes(i)'
    BY <1>1, RestIs DEF Flushes, Closing
  <2>4. TailHolds(track[i])'
    BY <1>3, NoTrackIs
  <2>. QED  BY <1>1, <1>2, <1>3, <2>1, <2>2, <2>3, <2>4 DEF Row, store, past, Settled, Fresh
<1>. QED  BY <1>4, <1>5 DEF SpeechHolds

\* The next process reconciles: a job that is served again starts from nothing.
LEMMA BootSpeaks ==
  ASSUME Control, SpeechHolds, BootStep
  PROVE  SpeechHolds'
<1>1. /\ UNCHANGED <<track, wk, crashes, errors>> /\ ~Up /\ wk.pc = "idle"
      /\ boot.pc \in {"scan", "next", "job", "queue"}
  <2>1. UNCHANGED <<track, wk, crashes, errors>> /\ boot.pc \in {"scan", "next", "job", "queue"}
    BY DEF BootStep, BootScan, ReconcileLive, ReconcileLiveJob, ReconcileOnDemand,
           ReconcileOnDemandJob, Requeue, memory
  <2>. QED  BY <2>1, ControlParts DEF BootHolds, Idle, Up
<1>2. \A i \in Id : /\ Row(i) /\ ~Flushes(i)' /\ Out(i) = <<>> /\ Out(i)' = <<>>
                    /\ track[i] = NoTrack /\ track'[i] = NoTrack
  <2>1. \A i \in Id : Row(i)
    BY DEF SpeechHolds
  <2>2. \A i \in Id : ~Flushes(i)' /\ Out(i) = <<>> /\ Out(i)' = <<>>
    BY <1>1 DEF Flushes, Closing, Out
  <2>. QED  BY <1>1, <2>1, <2>2 DEF Row
<1>3. Speaks(wk)'
  BY <1>1 DEF SpeechHolds, SpeechTypes
\* A row that keeps its speech and, if it is in service then, was so.
<1>4. ASSUME NEW i \in Id, Untouched(i), InService(i)' => InService(i), Settled(i)' => Settled(i),
             job'[i].state = "absent" => job[i].state = "absent",
             boot'.pc = "queue" => boot'.id # i
      PROVE  Row(i)'
  <2>1. Gathered(i)' = Gathered(i)
    BY <1>2, <1>4 DEF Gathered, Untouched
  <2>. QED  BY <1>2, <1>4, <2>1 DEF Row, Untouched, Fresh
<1>5. \A i \in boot.todo : i \in Id /\ (boot.pc # "scan" => IsOpen(i) /\ ~InService(i))
  BY <1>1, ControlParts DEF BootHolds, BootTypes, InService
<1>6. CASE BootScan
  <2>1. UNCHANGED <<store, past>> /\ boot'.pc = "next" /\ boot'.todo = OpenJobs
    BY <1>6 DEF BootScan, Boot
  <2>2. \A i \in Id : Untouched(i) /\ job'[i] = job[i]
    BY <1>1, <2>1 DEF Untouched, store, past
  <2>3. \A i \in Id : ~InService(i)'
    BY <2>1, <2>2 DEF InService, IsOpen, OpenJobs, Up
  <2>4. \A i \in Id : Row(i)'
    BY <1>4, <2>1, <2>2, <2>3 DEF Settled
  <2>. QED  BY <1>1, <1>3, <2>1, <2>4, TypesKeep DEF SpeechHolds, SpeechTypes, store
<1>7. CASE Requeue
  <2>1. UNCHANGED <<store, past>> /\ boot.pc = "next" /\ boot.todo = {} /\ boot'.pc = "up"
    BY <1>7 DEF Requeue, Boot
  <2>2. \A i \in Id : Untouched(i) /\ job'[i] = job[i]
    BY <1>1, <2>1 DEF Untouched, store, past
  <2>3. \A i \in Id : InService(i)' => InService(i)
    BY <2>1, <2>2 DEF InService, IsOpen
  <2>4. \A i \in Id : Row(i)'
    BY <1>4, <2>1, <2>2, <2>3 DEF Settled
  <2>. QED  BY <1>1, <1>3, <2>1, <2>4, TypesKeep DEF SpeechHolds, SpeechTypes, store
<1>8. CASE ReconcileLive
  <2>1. PICK i \in boot.todo : /\ SetState(i, "interrupted_live", FALSE)
                               /\ boot' = [boot EXCEPT !.pc = "job", !.id = i]
    BY <1>8 DEF ReconcileLive
  <2>2. /\ UNCHANGED <<segment, job, past>> /\ boot.pc = "next"
        /\ boot'.pc = "job" /\ boot'.todo = boot.todo
    BY <1>8, <2>1, ControlParts DEF ReconcileLive, SetState, BootTypes
  <2>3. \A j \in Id : Untouched(j) /\ job'[j] = job[j]
    BY <1>1, <2>2 DEF Untouched, past
  <2>4. \A j \in Id : InService(j)' => InService(j)
    BY <2>2, <2>3 DEF InService, IsOpen, Up
  <2>5. \A j \in Id : Row(j)'
    BY <1>4, <2>2, <2>3, <2>4 DEF Settled
  <2>. QED  BY <1>1, <1>3, <2>2, <2>5, TypesKeep DEF SpeechHolds, SpeechTypes
<1>9. CASE ReconcileLiveJob
  <2>1. PICK i : i = boot.id
    OBVIOUS
  <2>2. /\ SetJobState(i, "failed") /\ UNCHANGED <<segment, past>> /\ boot.pc = "job"
        /\ boot'.pc = "next" /\ boot'.todo = boot.todo \ {i}
    BY <1>9, <2>1, ControlParts DEF ReconcileLiveJob, BootTypes, SetJobState, UpdateJob
  <2>3. i \in boot.todo /\ i \in Id
    BY <1>5, <2>1, <2>2, ControlParts DEF BootHolds
  <2>4. OnlyRow(i) /\ job'[i].state = "failed"
    BY <2>2, <2>3, ControlParts, RowOps
  <2>5. \A j \in Id : Untouched(j)
    BY <1>1, <2>2 DEF Untouched, past
  <2>6. \A j \in Id : j # i => job'[j] = job[j] /\ (InService(j)' => InService(j))
    BY <2>2, <2>4 DEF InService, IsOpen, Up, OnlyRow
  <2>7. \A j \in Id : InService(j)' => InService(j)
    BY <2>4, <2>6 DEF InService, IsOpen, Open
  <2>8. \A j \in Id : /\ Settled(j)' => Settled(j)
                      /\ job'[j].state = "absent" => job[j].state = "absent"
    BY <2>4, <2>6 DEF Settled
  <2>9. \A j \in Id : Row(j)'
    BY <1>4, <2>2, <2>5, <2>7, <2>8
  <2>. QED  BY <1>1, <1>3, <2>2, <2>9, TypesKeep DEF SpeechHolds, SpeechTypes
<1>10. CASE ReconcileOnDemand
  <2>1. PICK i \in boot.todo :
          /\ DeleteSegments(i) /\ boot' = [boot EXCEPT !.pc = "queue", !.id = i]
          /\ read' = [read EXCEPT ![i] = {}] /\ heard' = [heard EXCEPT ![i] = {}]
          /\ again' = [again EXCEPT ![i] = {}]
    BY <1>10 DEF ReconcileOnDemand
  <2>2. /\ boot.pc = "next" /\ boot'.pc = "queue" /\ boot'.todo = boot.todo /\ boot'.id = i
        /\ UNCHANGED job
    BY <1>10, <2>1, ControlParts DEF ReconcileOnDemand, BootTypes, DeleteSegments
  <2>3. i \in Id /\ IsOpen(i)
    BY <1>5, <2>2
  <2>4. Fresh(i)' /\ SpeechTypes'
    <3>1. segment' = [segment EXCEPT ![i] = <<>>]
      BY <2>1 DEF DeleteSegments
    <3>2. Fresh(i)'
      BY <2>1, <2>3, <3>1 DEF Fresh, SpeechHolds, SpeechTypes
    <3>3. <<>> \in Seq(Speech)
      OBVIOUS
    <3>4. /\ segment' \in [Id -> Seq(Speech)] /\ read' \in [Id -> SUBSET (Kind \X Nat)]
          /\ heard' \in [Id -> SUBSET Speech] /\ again' \in [Id -> SUBSET Speech]
      BY <2>1, <2>3, <3>1, <3>3 DEF SpeechHolds, SpeechTypes
    <3>. QED  BY <1>1, <1>3, <3>2, <3>4 DEF SpeechHolds, SpeechTypes
  <2>5. \A j \in Id : j # i => Untouched(j)
    BY <1>1, <2>1, <2>3 DEF Untouched, DeleteSegments, SpeechHolds, SpeechTypes
  <2>6. \A j \in Id : InService(j)' => InService(j)
    BY <2>2 DEF InService, IsOpen, Up
  <2>7. Row(i)'
    <3>1. ~InService(i)'
      BY <2>2 DEF InService, Up
    <3>2. InRun(segment[i], again[i])' /\ TailHolds(track[i])'
      BY <1>2, <2>3, <2>4, NoTrackIs DEF Fresh
    <3>. QED  BY <1>2, <2>2, <2>3, <2>4, <3>1, <3>2 DEF Row, Settled, IsOpen, Open
  <2>8. \A j \in Id : j # i => Row(j)'
    BY <1>4, <2>2, <2>5, <2>6 DEF Settled
  <2>. QED  BY <2>4, <2>7, <2>8 DEF SpeechHolds
<1>11. CASE ReconcileOnDemandJob
  <2>1. PICK i, j : i = boot.id /\ j = [job[i] EXCEPT !.state = "queued", !.progress = 0]
    OBVIOUS
  <2>2. /\ UpdateJob(i, j) /\ UNCHANGED <<segment, past>> /\ boot.pc = "queue"
        /\ boot'.pc = "next" /\ boot'.todo = boot.todo \ {i}
    BY <1>11, <2>1, ControlParts DEF ReconcileOnDemandJob, BootTypes, UpdateJob
  <2>3. i \in boot.todo /\ i \in Id
    BY <1>5, <2>1, <2>2, ControlParts DEF BootHolds
  <2>4. OnlyRow(i) /\ job'[i].state = "queued"
    <3>1. job[i] \in [state : JobState, progress : Nat, total : Nat]
      BY <2>3, ControlParts DEF TableTypes
    <3>2. j.state = "queued"
      BY <2>1, <3>1
    <3>. QED  BY <2>2, <2>3, <3>2, ControlParts, RowOps
  <2>5. \A k \in Id : Untouched(k)
    BY <1>1, <2>2 DEF Untouched, past
  <2>6. \A k \in Id : k # i => job'[k] = job[k] /\ (InService(k)' => InService(k))
    BY <2>2, <2>4 DEF InService, IsOpen, Up, OnlyRow
  <2>7. \A k \in Id : k # i => Row(k)'
    BY <1>4, <2>2, <2>5, <2>6 DEF Settled
  <2>8. Row(i)'
    <3>1. Fresh(i)
      BY <1>2, <2>1, <2>2, <2>3 DEF Row
    <3>2. Fresh(i)' /\ track'[i] = NoTrack /\ Out(i)' = <<>>
      BY <1>2, <2>3, <2>5, <3>1 DEF Fresh, Untouched
    <3>3. Lane(segment[i], Out(i), track[i], again[i])' /\ InRun(segment[i], again[i])'
      BY <3>2, NoTrackIs DEF Fresh
    <3>4. Covers(Gathered(i), heard[i])' /\ TailHolds(track[i])'
      BY <3>2, NoTrackIs DEF Fresh, Covers
    <3>. QED  BY <1>2, <2>2, <2>3, <2>4, <3>2, <3>3, <3>4 DEF Row, Settled
  <2>. QED  BY <1>1, <1>3, <2>2, <2>7, <2>8, TypesKeep DEF SpeechHolds, SpeechTypes
<1>. QED  BY <1>6, <1>7, <1>8, <1>9, <1>10, <1>11 DEF BootStep

\* What is left out of what is gathered is a mic copy of system speech that is there.
LEMMA CoversLess ==
  ASSUME NEW A, NEW B, NEW C, NEW H, Covers(A \cup B, H),
         \A c \in B : c \in C \/ \E d \in A \cup B : CopyOf(c, d)
  PROVE  Covers(A \cup C, H)
<1>1. \A c, d, e : CopyOf(c, d) => ~CopyOf(d, e)
  BY WorkerAssumption DEF CopyOf
<1>2. \A c : \A d \in A \cup B : CopyOf(c, d) => d \in A \cup C
  BY <1>1
<1>3. ASSUME NEW c \in H
      PROVE  SaidIn(c, A \cup C)
  <2>1. SaidIn(c, A \cup B)
    BY DEF Covers
  <2>2. CASE \E d \in A \cup B : CopyOf(c, d)
    BY <1>2, <2>2 DEF SaidIn
  <2>3. CASE c \in A \cup B
    BY <1>2, <2>3 DEF SaidIn
  <2>. QED  BY <2>1, <2>2, <2>3 DEF SaidIn
<1>. QED  BY <1>3 DEF Covers

\* The worker takes to appending what the tracks still defer.
LEMMA FlushSpeaks ==
  ASSUME SpeechHolds, Up, UNCHANGED <<segment, boot, past, crashes, errors>>, wk.pc # "emit",
         NEW i \in Id, IsOpen(i), IsOpen(i)', \A j \in Id \ {i} : job'[j].state = job[j].state,
         NEW w, Shaped(w), Speaks(w), w.pc # "emit", FlushThenSettle(w, i)
  PROVE  SpeechHolds' /\ Keeps(i)
<1>1. PICK t, p, s, bleed, o :
        /\ t = track[i] /\ p = t.pending[Mic] /\ s = segment[i]
        /\ bleed \in SUBSET Twins(i, t, ToSet(p))
        /\ o = Rest(t, bleed)
        /\ wk' = EmitThen([w EXCEPT !.id = i], o, "settle")
        /\ track' = [track EXCEPT ![i].pending = [k \in Kind |-> <<>>]]
  BY DEF FlushThenSettle, Flushed, Rest
<1>2. /\ Lane(s, <<>>, t, again[i]) /\ Covers(Gathered(i), heard[i]) /\ TailHolds(t)
      /\ s \in Seq(Speech) /\ t \in TrackType /\ Out(i) = <<>>
  <2>1. Out(i) = <<>>
    BY DEF Out
  <2>. QED  BY <1>1, <2>1, RowServed
<1>3. PICK v : /\ v = [t EXCEPT !.pending = [k \in Kind |-> <<>>]]
               /\ track' = [track EXCEPT ![i] = v]
  BY <1>1
<1>4. /\ v \in TrackType /\ v.done = t.done /\ v.tail = t.tail
      /\ v.pending = [k \in Kind |-> <<>>]
  <2>1. <<>> \in Seq(Speech)
    OBVIOUS
  <2>. QED  BY <1>2, <1>3, <2>1 DEF TrackType
<1>5. /\ track'[i] = v /\ (\A j \in Id \ {i} : track'[j] = track[j])
      /\ track' \in [Id -> TrackType]
  BY <1>3, <1>4 DEF SpeechHolds, SpeechTypes
<1>6. /\ o \in Seq(Speech) /\ Lane(s, o, v, again[i]) /\ ToSet(o) \subseteq Held(t)
      /\ \A c \in Held(t) : c \in ToSet(o) \/ (c.kind = Mic /\ c \in bleed)
  <2>1. PICK G : G = again[i]
    OBVIOUS
  <2>2. Lane(s, <<>>, t, G)
    BY <1>2, <2>1
  <2>3. /\ o \in Seq(Speech) /\ Lane(s, o, v, G) /\ ToSet(o) \subseteq Held(t)
        /\ Held(t) \subseteq ToSet(o) \cup {c \in bleed : c.kind = Mic}
    <3>1. s \in Seq(Speech) /\ t \in TrackType /\ v.done = t.done
          /\ \A k \in Kind : v.pending[k] = <<>>
      BY <1>2, <1>4
    <3>2. o = Rest(t, bleed)
      BY <1>1
    <3>. QED  BY <2>2, <3>1, <3>2, FlushLane
  <2>. QED  BY <2>1, <2>3
<1>7. Held(v) = {}
  BY <1>4, ToSetIs DEF Held
<1>8. /\ Speaks(wk)' /\ wk'.pc = (IF o = <<>> THEN "settle" ELSE "emit") /\ wk'.id = i
      /\ wk'.out = o
  <2>1. PICK x : x = [w EXCEPT !.id = i]
    OBVIOUS
  <2>2. PICK e : e = EmitThen(x, o, "settle")
    OBVIOUS
  <2>3. i \in 0..Transcripts /\ "settle" \in WorkerPc
    BY WorkerAssumption DEF Id, WorkerPc
  <2>4. Shaped(x) /\ Speaks(x) /\ x.id = i
    <3>1. Shaped(x)
      BY <2>1, <2>3, ShapedIs, WorkerAssumption DEF Shaped
    <3>2. Speaks(x)
      BY <2>1, SpeaksIs
    <3>. QED  BY <2>1, <3>1, <3>2 DEF Shaped
  <2>5. Speaks(e)
    BY <1>6, <2>2, <2>4, SpeaksIs
  <2>6. e.pc = (IF o = <<>> THEN "settle" ELSE "emit") /\ e.id = i /\ e.out = o
    BY <2>2, <2>3, <2>4, EmitThenIs
  <2>7. wk' = e
    BY <1>1, <2>2, <2>1
  <2>. QED  BY <2>5, <2>6, <2>7 DEF Speaks
<1>9. SpeechTypes'
  BY <1>5, <1>8 DEF SpeechHolds, SpeechTypes, past
<1>10. Out(i)' = o
  BY <1>8 DEF Out
<1>11. Covers(Gathered(i), heard[i])'
  <2>1. Gathered(i) = ToSet(s) \cup Held(t)
    BY <1>1, <1>2, ToSetIs DEF Gathered
  <2>2. Gathered(i)' = ToSet(s) \cup ToSet(o)
    BY <1>1, <1>5, <1>7, <1>10 DEF Gathered
  <2>3. ASSUME NEW c \in Held(t), c \notin ToSet(o)
        PROVE  \E d \in ToSet(s) \cup Held(t) : CopyOf(c, d)
    <3>1. c \in bleed
      BY <1>6, <2>3
    <3>2. PICK d \in ToSet(s) \cup ToSet(t.pending[System]) : CopyOf(c, d)
      BY <1>1, <3>1 DEF Twins
    <3>. QED  BY <3>2, WorkerAssumption DEF Held
  <2>4. Covers(ToSet(s) \cup ToSet(o), heard[i])
    <3>1. PICK A, B, C : A = ToSet(s) /\ B = Held(t) /\ C = ToSet(o)
      OBVIOUS
    <3>2. Covers(A \cup B, heard[i])
      BY <1>2, <2>1, <3>1
    <3>3. \A c \in B : c \in C \/ \E d \in A \cup B : CopyOf(c, d)
      BY <2>3, <3>1
    <3>4. Covers(A \cup C, heard[i])
      BY <3>2, <3>3, CoversLess
    <3>. QED  BY <3>1, <3>4
  <2>. QED  BY <2>2, <2>4 DEF past
<1>12. Row(i)'
  <2>1. Lane(segment[i], Out(i), track[i], again[i])'
    BY <1>1, <1>5, <1>6, <1>10 DEF past
  <2>2. TailHolds(track[i])'
    BY <1>2, <1>4, <1>5 DEF TailHolds
  <2>3. Held(track[i])' = {}
    BY <1>5, <1>7
  <2>. QED  BY <1>11, <2>1, <2>2, <2>3, OpenRow
<1>13. \A j \in Id \ {i} : /\ Untouched(j) /\ Out(j)' = <<>> /\ Out(j) = <<>> /\ ~Flushes(j)'
  BY <1>5, <1>8 DEF Untouched, Out, Flushes, past
<1>14. SpeechHolds'
  BY <1>9, <1>12, <1>13, OneRow
<1>15. Gathered(i)' \subseteq Gathered(i)
  <2>1. Gathered(i) = ToSet(s) \cup Held(t)
    BY <1>1, <1>2, ToSetIs DEF Gathered
  <2>2. Gathered(i)' = ToSet(s) \cup ToSet(o)
    BY <1>1, <1>5, <1>7, <1>10 DEF Gathered
  <2>. QED  BY <1>6, <2>1, <2>2
<1>16. Keeps(i)
  BY <1>1, <1>4, <1>5, <1>13, <1>15 DEF Keeps, Elsewhere
<1>. QED  BY <1>14, <1>16

(***************************************************************************)
(* The inventory of an on-demand job: its chunks are ordered, and those    *)
(* that come before its idx-th are idx of them.                            *)
(***************************************************************************)
Earlier(inv) == {p \in Inventory(inv) \X Inventory(inv) : Before(p[1], p[2])}

LEMMA InventoryIs ==
  ASSUME NEW inv \in [Kind -> Nat]
  PROVE  /\ IsFiniteSet(Inventory(inv)) /\ Orders(Earlier(inv), Inventory(inv))
         /\ \A c : c \in Inventory(inv) <=> c \in Kind \X Nat /\ c[2] < inv[c[1]]
<1>1. Kind = {Mic, System} /\ Mic # System
  BY WorkerAssumption
<1>2. \A c : c \in Inventory(inv) <=> \E k \in Kind : c \in {k} \X (0..(inv[k] - 1))
  BY DEF Inventory
<1>3. \A c : c \in Inventory(inv) <=> c \in Kind \X Nat /\ c[2] < inv[c[1]]
  BY <1>2
<1>4. IsFiniteSet(Inventory(inv))
  BY TotalType
<1>5. \A b, c \in Inventory(inv) : <<b, c>> \in Earlier(inv) <=> Before(b, c)
  BY DEF Earlier
<1>6. \A c \in Inventory(inv) : c[1] \in {Mic, System} /\ c[2] \in Nat /\ c = <<c[1], c[2]>>
  BY <1>1, <1>3
<1>7. Orders(Earlier(inv), Inventory(inv))
  <2>1. \A x \in Inventory(inv) : ~Before(x, x)
    BY <1>1, <1>6 DEF Before
  <2>2. \A x, y, z \in Inventory(inv) : Before(x, y) /\ Before(y, z) => Before(x, z)
    BY <1>1, <1>6 DEF Before
  <2>3. \A x, y \in Inventory(inv) : x # y => Before(x, y) \/ Before(y, x)
    BY <1>1, <1>6 DEF Before
  <2>. QED  BY <1>5, <2>1, <2>2, <2>3 DEF Orders
<1>. QED  BY <1>3, <1>4, <1>7

LEMMA ChunkAtIs ==
  ASSUME NEW inv \in [Kind -> Nat], NEW n \in Nat, n < Total(inv)
  PROVE  /\ ChunkAt(inv, n) \in Inventory(inv)
         /\ Rank(Earlier(inv), Inventory(inv), ChunkAt(inv, n)) = n
<1>. DEFINE R == Earlier(inv)
            T == Inventory(inv)
<1>1. IsFiniteSet(T) /\ Orders(R, T)
  BY InventoryIs
<1>2. n \in 0..(Cardinality(T) - 1)
  BY TotalType DEF Total
<1>3. \A c \in T : {b \in T : Before(b, c)} = {x \in T : <<x, c>> \in R}
  BY DEF Earlier
<1>4. \A c \in T : Cardinality({b \in T : Before(b, c)}) = Rank(R, T, c)
  BY <1>3 DEF Rank
<1>5. \E c \in T : Cardinality({b \in T : Before(b, c)}) = n
  <2>. HIDE DEF R, T
  <2>. QED  BY <1>1, <1>2, <1>4, RankOnto
<1>6. ChunkAt(inv, n) \in T /\ Cardinality({b \in T : Before(b, ChunkAt(inv, n))}) = n
  BY <1>5 DEF ChunkAt
<1>. HIDE DEF R, T
<1>7. ChunkAt(inv, n) \in T /\ Rank(R, T, ChunkAt(inv, n)) = n
  BY <1>4, <1>6
<1>. QED  BY <1>7 DEF R, T

\* The next step of an on-demand job.
LEMMA StepSpeaks ==
  ASSUME SpeechHolds, Up, UNCHANGED <<segment, boot, past, crashes, errors>>, wk.pc = "idle",
         NEW i \in Id, IsOpen(i), IsOpen(i)', \A j \in Id \ {i} : job'[j].state = job[j].state,
         NEW o, o.idx \in Nat, o.inv \in [Kind -> Nat], Step(i, o)
  PROVE  SpeechHolds' /\ Keeps(i)
<1>1. Shaped(Idle) /\ Speaks(Idle) /\ Idle.pc = "idle"
  BY ShapedIs, SpeaksIs DEF Idle
<1>2. CASE FlushThenSettle(Idle, i)
  BY <1>1, <1>2, FlushSpeaks
<1>3. CASE o.idx < Total(o.inv) /\ ~FlushThenSettle(Idle, i)
  <2>1. PICK c : c = ChunkAt(o.inv, o.idx)
    OBVIOUS
  <2>2. wk' = [Idle EXCEPT !.pc = "transcribe", !.id = i, !.kind = c[1], !.chunk = c[2]]
        /\ UNCHANGED track
    BY <1>3, <2>1 DEF Step
  <2>3. c \in Kind \X Nat
    <3>1. c \in Inventory(o.inv)
      BY <1>3, <2>1, ChunkAtIs
    <3>. QED  BY <3>1, InventoryIs
  <2>4. PICK k \in Kind, n \in Nat :
          wk' = [Idle EXCEPT !.pc = "transcribe", !.id = i, !.kind = k, !.chunk = n]
    BY <2>2, <2>3
  <2>5. Speaks(wk)' /\ wk'.pc = "transcribe"
    <3>1. PICK w : w = [Idle EXCEPT !.pc = "transcribe", !.id = i, !.kind = k, !.chunk = n]
      OBVIOUS
    <3>2. Speaks(w) /\ w.pc = "transcribe"
      BY <3>1, SpeaksIs DEF Idle
    <3>. QED  BY <2>4, <3>1, <3>2 DEF Speaks
  <2>6. \A j \in Id : ~Flushes(j)'
    BY <2>5 DEF Flushes, Closing
  <2>7. \A j \in Id : JobGoesOn(j) /\ ~Begins(j)
    <3>1. job[i].state # "absent"
      BY DEF IsOpen, Open
    <3>2. \A j \in Id : j = i \/ job'[j].state = job[j].state
      OBVIOUS
    <3>. QED  BY <3>1, <3>2 DEF JobGoesOn, Begins
  <2>8. SpeechHolds'
    BY <2>2, <2>5, <2>6, <2>7, RowsKeep
  <2>9. \A j \in Id : Untouched(j) /\ Out(j)' = <<>> /\ Out(j) = <<>>
    BY <2>2, <2>5 DEF Untouched, Out, past
  <2>10. Gathered(i)' = Gathered(i)
    BY <2>2, <2>9 DEF Gathered
  <2>11. Keeps(i)
    BY <2>2, <2>9, <2>10 DEF Keeps, Elsewhere
  <2>. QED  BY <2>8, <2>11
<1>4. o.idx >= Total(o.inv) \/ o.idx < Total(o.inv)
  BY TotalType
<1>5. o.idx >= Total(o.inv) => FlushThenSettle(Idle, i)
  BY DEF Step
<1>. QED  BY <1>2, <1>3, <1>4, <1>5

LEMMA TakeStepSpeaks ==
  ASSUME Control, SpeechHolds, TakeStep
  PROVE  SpeechHolds'
<1>1. PICK i, inv, fresh : /\ i = Head(jobQ)
                           /\ inv = [k \in Kind |-> onDisk[<<transcript[i].session, k>>]]
                           /\ fresh = [listed |-> TRUE, idx |-> 0, inv |-> inv]
  OBVIOUS
<1>2. /\ Up /\ UNCHANGED boot /\ wk.pc = "idle" /\ UNCHANGED <<past, crashes, errors>>
      /\ jobQ # <<>>
  BY DEF TakeStep, At
<1>3. i \in Id /\ OnDemand(i) /\ transcript[i].session \in Session
  <2>1. i \in Id /\ 1 \in DOMAIN jobQ /\ jobQ[1] = i
    BY <1>1, <1>2, ControlParts, HeadHas DEF JobTypes
  <2>. QED  BY <2>1, ControlParts DEF JobsHold, OnDemand, TablesHold
<1>4. \/ UNCHANGED <<store, wk, track>>
      \/ job[i].state \notin Ended /\ UNCHANGED store /\ Step(i, od[i])
      \/ /\ job[i].state \notin Ended /\ Step(i, fresh)
         /\ UpdateJob(i, [state |-> "running", progress |-> 0, total |-> Total(inv)])
  BY <1>1 DEF TakeStep
<1>5. job[i].state \notin Ended => IsOpen(i)
  BY <1>3, ControlParts DEF TablesHold, TableTypes, JobState, Ended, Open, IsOpen, OnDemand
<1>6. CASE UNCHANGED <<store, wk, track>>
  BY <1>2, <1>6, SilentKeeps
<1>7. CASE job[i].state \notin Ended /\ UNCHANGED store /\ Step(i, od[i])
  <2>1. od[i].idx \in Nat /\ od[i].inv \in [Kind -> Nat]
    BY <1>3, ControlParts DEF JobTypes
  <2>2. IsOpen(i) /\ IsOpen(i)' /\ UNCHANGED segment /\ \A j \in Id : job'[j] = job[j]
    BY <1>5, <1>7 DEF IsOpen, store
  <2>. QED  BY <1>2, <1>3, <1>7, <2>1, <2>2, StepSpeaks
<1>8. CASE /\ job[i].state \notin Ended /\ Step(i, fresh)
           /\ UpdateJob(i, [state |-> "running", progress |-> 0, total |-> Total(inv)])
  <2>1. fresh.idx = 0 /\ fresh.inv = inv /\ inv \in [Kind -> Nat]
    <3>1. \A k \in Kind : onDisk[<<transcript[i].session, k>>] \in Nat
      BY <1>3, ControlParts DEF FeedTypeOK, Source
    <3>. QED  BY <1>1, <3>1
  <2>2. /\ OnlyRow(i) /\ UNCHANGED segment
        /\ job'[i] = [state |-> "running", progress |-> 0, total |-> Total(inv)]
    BY <1>3, <1>8, ControlParts, RowOps DEF UpdateJob
  <2>3. IsOpen(i) /\ IsOpen(i)'
    BY <1>5, <1>8, <2>2 DEF IsOpen, Open
  <2>. QED  BY <1>2, <1>3, <1>8, <2>1, <2>2, <2>3, StepSpeaks DEF OnlyRow
<1>. QED  BY <1>4, <1>6, <1>7, <1>8

\* A session that stops: not yet, or what its tracks defer comes out.
LEMMA FinaliseSpeaks ==
  ASSUME Control, SpeechHolds, Finalise
  PROVE  SpeechHolds'
<1>1. PICK s, i : s = wk.session /\ i = live[s].id
  OBVIOUS
<1>2. /\ wk.pc = "finalise" /\ UNCHANGED <<past, crashes, errors>>
      /\ \/ wk' = Idle /\ UNCHANGED <<store, track>>
         \/ /\ Listed(s) /\ SetJobState(i, "finalising") /\ UNCHANGED track
            /\ wk' = [wk EXCEPT !.pc = "report", !.id = i]
         \/ Listed(s) /\ FlushThenSettle(wk, i) /\ UNCHANGED store
  BY <1>1 DEF Finalise, At
<1>3. Up /\ UNCHANGED boot /\ Shaped(wk) /\ Speaks(wk)
  BY WorksUp, ControlParts DEF WorkerStep, SpeechHolds, SpeechTypes
<1>4. s \in Session /\ (Listed(s) => i \in Id /\ IsOpen(i))
  BY <1>1, <1>2, <1>3, ControlParts DEF WorkHolds, LiveHolds, LiveOf, Shaped
<1>5. CASE wk' = Idle /\ UNCHANGED <<store, track>>
  <2>1. Speaks(wk)' /\ wk'.pc = "idle"
    BY <1>5, SpeaksIs, RestIs DEF Speaks
  <2>2. \A j \in Id : JobGoesOn(j) /\ ~Begins(j) /\ ~Flushes(j)'
    BY <1>5, <2>1 DEF JobGoesOn, Begins, Flushes, Closing, store
  <2>. QED  BY <1>2, <1>3, <1>5, <2>1, <2>2, RowsKeep DEF store
<1>6. CASE /\ Listed(s) /\ SetJobState(i, "finalising") /\ UNCHANGED track
           /\ wk' = [wk EXCEPT !.pc = "report", !.id = i]
  <2>1. Speaks(wk)' /\ wk'.pc = "report"
    BY <1>3, <1>6 DEF Speaks, Shaped
  <2>2. OnlyRow(i) /\ job'[i].state = "finalising" /\ UNCHANGED segment
    BY <1>4, <1>6, ControlParts, RowOps DEF SetJobState, UpdateJob
  <2>3. \A j \in Id : JobGoesOn(j) /\ ~Begins(j) /\ ~Flushes(j)'
    <3>1. IsOpen(i) /\ IsOpen(i)' /\ job[i].state # "absent"
      BY <1>4, <1>6, <2>2 DEF IsOpen, Open
    <3>. QED  BY <2>1, <2>2, <3>1 DEF JobGoesOn, Begins, Flushes, Closing, OnlyRow
  <2>. QED  BY <1>2, <1>3, <1>6, <2>1, <2>2, <2>3, RowsKeep
<1>7. CASE Listed(s) /\ FlushThenSettle(wk, i) /\ UNCHANGED store
  <2>1. /\ UNCHANGED segment /\ i \in Id /\ IsOpen(i) /\ IsOpen(i)'
        /\ \A j \in Id : job'[j].state = job[j].state
    BY <1>4, <1>7 DEF store, IsOpen
  <2>. QED  BY <1>2, <1>3, <1>7, <2>1, FlushSpeaks
<1>. QED  BY <1>2, <1>5, <1>6, <1>7

-----------------------------------------------------------------------------
(***************************************************************************)
(* Transcribe, taken apart: what the engine heard of k, and what comes of  *)
(* the tracks that heard it.                                               *)
(***************************************************************************)
Waits(hearing) == hearing = "cut" /\ ~(IsLive /\ live[wk.session].stopping)
Found(hearing, was) == was.how = "beginning" \/ (hearing # "nothing" /\ ~Waits(hearing))
HowOf(hearing) ==
  CASE hearing = "cut"  -> IF Waits(hearing) THEN "beginning" ELSE "found_cut"
    [] hearing = "late" -> "found"
    [] OTHER            -> "nothing"
Repeated(k, was) == [kind |-> k, chunk |-> was.chunk, at |-> track[wk.id].done[k] - 1]
New(k) == [kind |-> k, chunk |-> wk.chunk, at |-> track[wk.id].done[k]]
SpeechOf(hearing, repeat, k, was) ==
  repeat \o (IF Found(hearing, was) THEN <<New(k)>> ELSE <<>>)
Tailed(t, k, how, n) == [t EXCEPT !.tail[k] = [how |-> how, chunk |-> n]]
AfterTrack(t, k) == IF t.pending[Other(k)] = <<>> THEN AfterChunk ELSE "retry"
Remembers(i, k, n, was, repeat, speech) ==
  /\ read' = [read EXCEPT ![i] = @ \cup {<<k, n>>}]
  /\ heard' = [heard EXCEPT ![i] = @ \cup ToSet(speech)]
  /\ again' = [again EXCEPT ![i] = @ \cup
       {d \in ToSet(repeat) : d \notin ToSet(segment[i]) \/ was.how = "found_cut"}]

\* What a chunk of the track k does to its transcript i, and to no other.
Latest(i, k) ==
  {x \in Speech : \/ x.chunk = wk.chunk /\ x.at = track[i].done[k]
                  \/ /\ track[i].tail[k].how # "nothing"
                     /\ x.chunk = track[i].tail[k].chunk /\ x.at + 1 = track[i].done[k]}
Adds(i, k) ==
  /\ Gathered(i)' \subseteq Gathered(i) \cup Latest(i, k)
  /\ \A j \in Kind : IF j = k
       THEN /\ track'[i].done[j] = track[i].done[j] + 1
            /\ track'[i].tail[j].chunk = wk.chunk
       ELSE /\ track'[i].done[j] = track[i].done[j]
            /\ track'[i].tail[j] = track[i].tail[j]
  /\ read'[i] = read[i] \cup {<<k, wk.chunk>>}
  /\ Elsewhere(i)
  /\ wk'.id = i /\ wk'.session = wk.session
  /\ \E next \in {"retry", AfterChunk} : wk'.pc = next \/ (wk'.pc = "emit" /\ wk'.next = next)

LEMMA ShortRuns == <<>> \in Seq(Speech) /\ \A x \in Speech : <<x>> \in Seq(Speech)
OBVIOUS

LEMMA RepeatsIs ==
  ASSUME NEW i, NEW b, NEW how, NEW repeat \in Repeats(i, b, how)
  PROVE  /\ repeat \in {<<>>, <<b>>}
         /\ repeat = <<b>> => how # "nothing" /\ (b \notin ToSet(segment[i]) \/ how = "found_cut")
<1>1. PICK said : said <=> b \in ToSet(segment[i])
  OBVIOUS
<1>2. /\ repeat \in {<<>>, <<b>>}
      /\ IF how \in {"found", "found_cut"} /\ ~said
           THEN repeat = <<b>>
           ELSE repeat = <<>> \/ how = "found_cut"
  BY <1>1 DEF Repeats
<1>3. <<>> # <<b>>
  OBVIOUS
<1>. QED  BY <1>1, <1>2, <1>3

LEMMA TranscribeParts ==
  ASSUME Transcribe
  PROVE  LET i == wk.id
             k == wk.kind
             was == track[i].tail[k]
         IN \E hearing \in Hearings : \E repeat \in Repeats(i, Repeated(k, was), was.how) :
              LET speech == SpeechOf(hearing, repeat, k, was)
                  t == Tailed(Hear(track[i], k, speech), k, HowOf(hearing), wk.chunk)
              IN /\ Attribute(i, t, k, AfterTrack(t, k))
                 /\ Remembers(i, k, wk.chunk, was, repeat, speech)
BY Zenon DEF Transcribe, Tailed, AfterTrack, Remembers, HowOf, Waits, Found, Repeated, New, SpeechOf

\* Speech a chunk of the track k adds: of that chunk, or of the one before, repeated.
Heard(k, d, G, S) == \A x \in S : /\ x.kind = k /\ x.at <= d /\ x.at + 1 >= d
                                  /\ x.at = d \/ x \in G

LEMMA SpeechIs ==
  ASSUME NEW k, NEW d \in Nat, NEW G, NEW c \in Speech, c.kind = k, c.at = d,
         NEW b, NEW repeat, NEW more, NEW speech, speech = repeat \o more,
         \/ repeat = <<>>
         \/ repeat = <<b>> /\ b \in Speech /\ b.kind = k /\ b.at + 1 = d /\ b \in G,
         more = <<>> \/ more = <<c>>
  PROVE  /\ speech \in Seq(Speech) /\ InRun(speech, G)
         /\ ToSet(repeat) \subseteq Speech /\ Heard(k, d, G, ToSet(speech))
<1>1. /\ repeat \in Seq(Speech) /\ ToSet(repeat) \subseteq Speech /\ InRun(repeat, G)
      /\ \A x \in ToSet(repeat) : x.kind = k /\ x.at \in Nat /\ x.at + 1 = d /\ x \in G
  <2>1. CASE repeat = <<>>
    BY <2>1, ToSetIs
  <2>2. CASE repeat = <<b>> /\ b \in Speech /\ b.kind = k /\ b.at + 1 = d /\ b \in G
    <3>1. ToSet(repeat) = {b} /\ InRun(repeat, G) /\ repeat \in Seq(Speech)
      BY <2>2, ToSetIs
    <3>. QED  BY <2>2, <3>1 DEF Speech
  <2>. QED  BY <2>1, <2>2
<1>2. more \in Seq(Speech) /\ ToSet(more) \subseteq {c} /\ InRun(more, G)
  <2>1. CASE more = <<>>
    BY <2>1, ToSetIs
  <2>2. CASE more = <<c>>
    <3>1. more \in Seq(Speech) /\ InRun(more, G)
      BY <2>2 DEF InRun
    <3>2. ToSet(more) \subseteq {c}
      BY <2>2, ToSetIs
    <3>. QED  BY <3>1, <3>2
  <2>. QED  BY <2>1, <2>2
<1>3. repeat \o more \in Seq(Speech) /\ ToSet(repeat \o more) = ToSet(repeat) \cup ToSet(more)
  BY <1>1, <1>2, CatHas
<1>4. Then(ToSet(repeat), ToSet(more), G)
  <2>1. SUFFICES ASSUME NEW x \in ToSet(repeat)
                 PROVE  Follows(x, c, G)
    BY <1>2 DEF Then
  <2>2. x.at \in Nat /\ x.at + 1 = c.at
    BY <1>1
  <2>. QED  BY <2>2 DEF Follows
<1>5. InRun(repeat \o more, G)
  BY <1>1, <1>2, <1>4, CatRuns
<1>6. Heard(k, d, G, ToSet(repeat \o more))
  BY <1>1, <1>2, <1>3 DEF Heard
<1>. QED  BY <1>1, <1>3, <1>5, <1>6

(***************************************************************************)
(* Attribution in a track k of t, which is what there is of transcript i   *)
(* but for its table s: the lane is kept, and so is what covers H.         *)
(***************************************************************************)
Given(i, t, next, o, v) ==
  /\ track'[i] = v /\ (\A j \in Id \ {i} : track'[j] = track[j]) /\ track' \in [Id -> TrackType]
  /\ v.done = t.done /\ v.tail = t.tail
  /\ Speaks(wk)' /\ wk'.pc = (IF o = <<>> THEN next ELSE "emit") /\ wk'.id = i
  /\ wk'.out = o /\ wk'.next = next /\ wk'.session = wk.session

Shares(i, t, next, G, H) ==
  \E o \in Seq(Speech), v \in TrackType :
    /\ Given(i, t, next, o, v) /\ Lane(segment[i], o, v, G)
    /\ Covers(ToSet(segment[i]) \cup ToSet(o) \cup Held(v), H)
    /\ ToSet(o) \cup Held(v) \subseteq Held(t)

LEMMA AttributeSpeaks ==
  ASSUME SpeechTypes, Shaped(wk), NEW i \in Id, wk.id = i,
         NEW t \in TrackType, NEW k \in Kind, NEW next \in {"retry", "account", "advance"},
         Attribute(i, t, k, next),
         NEW G, Lane(segment[i], <<>>, t, G), NEW H, Covers(ToSet(segment[i]) \cup Held(t), H)
  PROVE  Shares(i, t, next, G, H)
<1>1. PICK J, bleed, v, o :
        /\ J \in Judgements(t, k)
        /\ bleed \in SUBSET Twins(i, t, {t.pending[k][n] : n \in J})
        /\ Judging(t, k, J, bleed, o, v)
        /\ track' = [track EXCEPT ![i] = v] /\ wk' = EmitThen(wk, o, next)
  BY Zenon DEF Attribute, Judging
<1>2. PICK s \in Seq(Speech) : s = segment[i]
  BY DEF SpeechTypes
<1>3. FirstOf(t.pending[k], J)
  BY <1>1, JudgementsFirst
<1>4. PICK M : M = Members(t.pending[k], J)
  OBVIOUS
<1>5. /\ o \in Seq(Speech) /\ Lane(s, o, v, G)
      /\ v \in TrackType /\ v.done = t.done /\ v.tail = t.tail
      /\ ToSet(o) = M \ bleed /\ Held(t) = M \cup Held(v)
  <2>1. Judging(t, k, J, bleed, o, v) /\ Lane(s, <<>>, t, G)
    BY <1>1, <1>2
  <2>2. Judged(s, t, k, J, G, bleed, o, v)
    BY <1>3, <2>1, AttributeLane
  <2>. QED  BY <1>4, <2>2 DEF Judged
<1>6. /\ track'[i] = v /\ (\A j \in Id \ {i} : track'[j] = track[j])
      /\ track' \in [Id -> TrackType]
  BY <1>1, <1>5 DEF SpeechTypes
<1>7. /\ Speaks(wk)' /\ wk'.pc = (IF o = <<>> THEN next ELSE "emit") /\ wk'.id = i
      /\ wk'.out = o /\ wk'.next = next /\ wk'.session = wk.session
  <2>1. PICK e : e = EmitThen(wk, o, next)
    OBVIOUS
  <2>2. next \in WorkerPc /\ next # "emit" /\ Speaks(wk)
    BY DEF WorkerPc, SpeechTypes
  <2>3. Speaks(e)
    BY <1>5, <2>1, <2>2, SpeaksIs
  <2>4. /\ e.pc = (IF o = <<>> THEN next ELSE "emit") /\ e.id = i /\ e.out = o /\ e.next = next
        /\ e.session = wk.session
    BY <2>1, <2>2, EmitThenIs
  <2>5. wk' = e
    BY <1>1, <2>1
  <2>. QED  BY <2>3, <2>4, <2>5 DEF Speaks
<1>8. Covers(ToSet(s) \cup ToSet(o) \cup Held(v), H)
  <2>1. PICK A, B, C : A = ToSet(s) /\ B = Held(t) /\ C = ToSet(o) \cup Held(v)
    OBVIOUS
  <2>2. ASSUME NEW x \in B, x \notin C
        PROVE  \E d \in A \cup B : CopyOf(x, d)
    <3>1. x \in bleed
      BY <1>5, <2>1, <2>2
    <3>2. PICK d \in ToSet(s) \cup ToSet(t.pending[System]) : CopyOf(x, d)
      BY <1>1, <1>2, <3>1 DEF Twins
    <3>. QED  BY <2>1, <3>2, WorkerAssumption DEF Held
  <2>3. Covers(A \cup B, H)
    BY <1>2, <2>1
  <2>4. Covers(A \cup C, H)
    BY <2>2, <2>3, CoversLess
  <2>5. ToSet(s) \cup ToSet(o) \cup Held(v) = A \cup C
    BY <2>1
  <2>. QED  BY <2>4, <2>5
<1>9. Given(i, t, next, o, v) /\ ToSet(o) \cup Held(v) \subseteq Held(t)
  BY <1>5, <1>6, <1>7 DEF Given
<1>. QED  BY <1>2, <1>5, <1>8, <1>9 DEF Shares

LEMMA TranscribeSpeaks ==
  ASSUME Control, SpeechHolds, Transcribe
  PROVE  SpeechHolds' /\ Adds(wk.id, wk.kind)
<1>1. PICK i, k, was, s, u, d :
        /\ i = wk.id /\ k = wk.kind /\ was = track[i].tail[k] /\ s = segment[i] /\ u = track[i]
        /\ d = track[i].done[k]
  OBVIOUS
<1>2. /\ wk.pc = "transcribe" /\ UNCHANGED <<store, boot, crashes, errors>> /\ Up
  <2>1. Up /\ UNCHANGED boot
    BY WorksUp DEF WorkerStep
  <2>. QED  BY <2>1 DEF Transcribe, At
<1>3. /\ i \in Id /\ IsOpen(i) /\ Out(i) = <<>> /\ Shaped(wk) /\ Speaks(wk) /\ k \in Kind
      /\ wk.chunk \in Nat
  BY <1>1, <1>2, WorksOn, ControlParts DEF Out, SpeechHolds, SpeechTypes, Speaks
<1>4. /\ Lane(s, <<>>, u, again[i]) /\ Covers(Gathered(i), heard[i]) /\ TailHolds(u)
      /\ s \in Seq(Speech) /\ u \in TrackType /\ heard[i] \in SUBSET Speech
      /\ again[i] \in SUBSET Speech
  BY <1>1, <1>2, <1>3, RowServed
<1>5. was \in Overlap /\ d \in Nat /\ was.chunk \in Nat /\ (was.how # "nothing" => d > 0)
  <2>1. was \in Overlap /\ d \in Nat
    BY <1>1, <1>3, <1>4 DEF TrackType
  <2>. QED  BY <1>1, <1>3, <1>4, <2>1 DEF Overlap, TailHolds
<1>6. PICK hearing, repeat, speech :
        /\ repeat \in Repeats(i, Repeated(k, was), was.how)
        /\ speech = SpeechOf(hearing, repeat, k, was)
        /\ LET t == Tailed(Hear(u, k, speech), k, HowOf(hearing), wk.chunk)
           IN  Attribute(i, t, k, AfterTrack(t, k))
        /\ Remembers(i, k, wk.chunk, was, repeat, speech)
  BY <1>1, TranscribeParts, Zenon
<1>7. PICK h, how, t, b, c, H, G :
        /\ h = Hear(u, k, speech) /\ how = HowOf(hearing) /\ t = Tailed(h, k, how, wk.chunk)
        /\ b = [kind |-> k, chunk |-> was.chunk, at |-> d - 1]
        /\ c = [kind |-> k, chunk |-> wk.chunk, at |-> d]
        /\ H = heard[i] \cup ToSet(speech)
        /\ G = again[i] \cup {x \in ToSet(repeat) : x \notin ToSet(s) \/ was.how = "found_cut"}
  OBVIOUS
<1>8. Repeated(k, was) = b /\ New(k) = c
  BY <1>1, <1>7 DEF Repeated, New
<1>9. repeat = <<>> \/ (repeat = <<b>> /\ d > 0 /\ b \in G)
  <2>1. /\ repeat \in {<<>>, <<b>>}
        /\ repeat = <<b>> => was.how # "nothing" /\ (b \notin ToSet(s) \/ was.how = "found_cut")
    BY <1>1, <1>6, <1>8, RepeatsIs
  <2>2. repeat = <<b>> => b \in ToSet(repeat)
    BY ToSetIs
  <2>. QED  BY <1>5, <1>7, <2>1, <2>2
<1>10. /\ speech \in Seq(Speech) /\ InRun(speech, G) /\ ToSet(repeat) \subseteq Speech
       /\ Heard(k, d, G, ToSet(speech)) /\ ToSet(speech) \subseteq {c} \cup ToSet(repeat)
  <2>1. PICK more : more = IF Found(hearing, was) THEN <<c>> ELSE <<>>
    OBVIOUS
  <2>2. speech = repeat \o more
    BY <1>6, <1>8, <2>1 DEF SpeechOf
  <2>3. more = <<>> \/ more = <<c>>
    BY <2>1
  <2>4. c \in Speech /\ c.kind = k /\ c.at = d
    BY <1>3, <1>5, <1>7 DEF Speech
  <2>5. d > 0 => b \in Speech /\ b.kind = k /\ b.at + 1 = d
    BY <1>3, <1>5, <1>7 DEF Speech
  <2>6. \/ repeat = <<>>
        \/ repeat = <<b>> /\ b \in Speech /\ b.kind = k /\ b.at + 1 = d /\ b \in G
    BY <1>9, <2>5
  <2>7. /\ speech \in Seq(Speech) /\ InRun(speech, G) /\ ToSet(repeat) \subseteq Speech
        /\ Heard(k, d, G, ToSet(speech))
    BY <1>5, <2>2, <2>3, <2>4, <2>6, SpeechIs
  <2>8. ToSet(speech) \subseteq {c} \cup ToSet(repeat)
    <3>1. more \in Seq(Speech)
      BY <2>3, <2>4, ShortRuns
    <3>2. repeat \in Seq(Speech)
      BY <2>6, ShortRuns
    <3>3. ToSet(more) \subseteq {c}
      BY <2>3, ToSetIs
    <3>. QED  BY <2>2, <3>1, <3>3, <3>2, CatHas
  <2>. QED  BY <2>7, <2>8
<1>11. h \in TrackType /\ h.tail = u.tail /\ Held(h) = Held(u) \cup ToSet(speech)
       /\ \A j \in Kind : h.done[j] = IF j = k THEN d + 1 ELSE u.done[j]
  BY <1>1, <1>3, <1>4, <1>7, <1>10, HearIs
<1>12. Lane(s, <<>>, h, G)
  <2>1. again[i] \subseteq G
    BY <1>7
  <2>2. Lane(s, <<>>, u, G)
    BY <1>4, <2>1, LaneAllows
  <2>3. d = u.done[k] /\ h = Hear(u, k, speech)
    BY <1>1, <1>7
  <2>. QED  BY <1>3, <1>4, <1>10, <2>2, <2>3, HearLane DEF Heard
<1>13. how \in {"nothing", "beginning", "found", "found_cut"}
  BY <1>7 DEF HowOf
<1>14. /\ t \in TrackType /\ t.done = h.done /\ t.pending = h.pending /\ TailHolds(t)
       /\ \A j \in Kind : IF j = k THEN t.tail[j].chunk = wk.chunk ELSE t.tail[j] = u.tail[j]
  <2>1. PICK e, tail : /\ e = [how |-> how, chunk |-> wk.chunk]
                       /\ tail = [h.tail EXCEPT ![k] = e]
    OBVIOUS
  <2>2. e \in Overlap
    BY <1>3, <1>13, <2>1 DEF Overlap
  <2>3. /\ tail \in [Kind -> Overlap] /\ tail[k] = e
        /\ \A j \in Kind : j # k => tail[j] = u.tail[j]
    BY <1>3, <1>11, <2>1, <2>2 DEF TrackType
  <2>4. t = [h EXCEPT !.tail = tail]
    BY <1>7, <2>1 DEF Tailed
  <2>5. t \in TrackType /\ t.done = h.done /\ t.pending = h.pending /\ t.tail = tail
    BY <1>11, <2>3, <2>4 DEF TrackType
  <2>6. \A j \in Kind : tail[j].how # "nothing" => t.done[j] > 0
    BY <1>4, <1>5, <1>11, <2>3, <2>5 DEF TailHolds
  <2>. QED  BY <2>1, <2>3, <2>5, <2>6 DEF TailHolds
<1>15. Held(t) = Held(h) /\ Lane(s, <<>>, t, G)
  <2>1. Held(t) = Held(h)
    BY <1>14 DEF Held
  <2>. QED  BY <1>12, <1>14, <2>1 DEF Lane, TracksHold
<1>16. Covers(ToSet(s) \cup Held(t), H)
  <2>1. ToSet(s) \cup Held(t) = Gathered(i) \cup ToSet(speech)
    BY <1>1, <1>3, <1>11, <1>15, ToSetIs DEF Gathered
  <2>. QED  BY <1>4, <1>7, <2>1 DEF Covers, SaidIn
<1>17. PICK next \in {"retry", AfterChunk} : next = AfterTrack(t, k)
  BY DEF AfterTrack
<1>18. PICK o \in Seq(Speech), v \in TrackType :
         /\ Given(i, t, next, o, v) /\ Lane(s, o, v, G)
         /\ Covers(ToSet(s) \cup ToSet(o) \cup Held(v), H)
         /\ ToSet(o) \cup Held(v) \subseteq Held(t)
  <2>1. Attribute(i, t, k, next)
    BY <1>6, <1>7, <1>17
  <2>2. next \in {"retry", "account", "advance"}
    BY DEF AfterChunk
  <2>3. SpeechTypes
    BY DEF SpeechHolds
  <2>4. /\ i \in Id /\ wk.id = i /\ Shaped(wk) /\ k \in Kind /\ t \in TrackType
        /\ Lane(segment[i], <<>>, t, G) /\ Covers(ToSet(segment[i]) \cup Held(t), H)
    BY <1>1, <1>3, <1>14, <1>15, <1>16
  <2>5. Shares(i, t, next, G, H)
    BY <2>1, <2>2, <2>3, <2>4, AttributeSpeaks
  <2>. QED  BY <1>1, <2>5 DEF Shares
<1>19. /\ read'[i] = read[i] \cup {<<k, wk.chunk>>}
       /\ heard'[i] = H /\ again'[i] = G /\ heard' \in [Id -> SUBSET Speech]
       /\ again' \in [Id -> SUBSET Speech] /\ read' \in [Id -> SUBSET (Kind \X Nat)]
       /\ \A j \in Id \ {i} : /\ heard'[j] = heard[j] /\ again'[j] = again[j]
                              /\ read'[j] = read[j]
  <2>1. /\ heard' = [heard EXCEPT ![i] = H] /\ again' = [again EXCEPT ![i] = G]
        /\ read' = [read EXCEPT ![i] = @ \cup {<<k, wk.chunk>>}]
    BY <1>1, <1>6, <1>7 DEF Remembers
  <2>2. H \in SUBSET Speech /\ G \in SUBSET Speech /\ <<k, wk.chunk>> \in Kind \X Nat
    BY <1>3, <1>4, <1>7, <1>10, ToSetType
  <2>. QED  BY <1>3, <2>1, <2>2 DEF SpeechHolds, SpeechTypes
<1>20. SpeechTypes'
  BY <1>2, <1>18, <1>19 DEF SpeechHolds, SpeechTypes, store, Given
<1>21. Out(i)' = o /\ wk'.pc # "settle" /\ wk'.pc # "job" /\ wk'.next # "settle"
  BY <1>18 DEF Out, Given, AfterChunk
<1>22. Covers(Gathered(i), heard[i])'
  <2>1. Gathered(i)' = ToSet(s) \cup ToSet(o) \cup Held(v)
    BY <1>1, <1>2, <1>18, <1>21 DEF Gathered, store, Given
  <2>. QED  BY <1>18, <1>19, <2>1
<1>23. Row(i)'
  <2>1. IsOpen(i)' /\ segment'[i] = s
    BY <1>1, <1>2, <1>3 DEF IsOpen, store
  <2>2. Lane(segment[i], Out(i), track[i], again[i])' /\ TailHolds(track[i])'
    BY <1>14, <1>18, <1>19, <1>21, <2>1 DEF Given, TailHolds
  <2>3. ~Flushes(i)'
    BY <1>21 DEF Flushes, Closing
  <2>. QED  BY <1>2, <1>22, <2>1, <2>2, <2>3, OpenRow
<1>24. \A j \in Id \ {i} : /\ Untouched(j) /\ Out(j)' = <<>> /\ Out(j) = <<>> /\ ~Flushes(j)'
                           /\ job'[j] = job[j]
  BY <1>1, <1>2, <1>18, <1>19 DEF Untouched, Out, Flushes, store, Given
<1>25. Gathered(i)' \subseteq Gathered(i) \cup Latest(i, k)
  <2>1. ToSet(speech) \subseteq Latest(i, k)
    <3>1. ToSet(speech) \subseteq Speech /\ ToSet(speech) \subseteq {c} \cup ToSet(repeat)
      BY <1>10, ToSetType
    <3>2. ToSet(repeat) = {} \/ (ToSet(repeat) = {b} /\ was.how # "nothing")
      <4>1. /\ repeat \in {<<>>, <<b>>}
            /\ repeat = <<b>> => was.how # "nothing"
        BY <1>1, <1>6, <1>8, RepeatsIs
      <4>. QED  BY <4>1, ToSetIs
    <3>3. c.chunk = wk.chunk /\ c.at = track[i].done[k]
      BY <1>1, <1>7
    <3>4. was.how # "nothing" => b.chunk = was.chunk /\ b.at + 1 = track[i].done[k]
      BY <1>1, <1>5, <1>7
    <3>. QED  BY <1>1, <3>1, <3>2, <3>3, <3>4 DEF Latest
  <2>2. Gathered(i) = ToSet(s) \cup Held(u)
    BY <1>1, <1>3, ToSetIs DEF Gathered
  <2>3. Gathered(i)' = ToSet(s) \cup ToSet(o) \cup Held(v)
    BY <1>1, <1>2, <1>18, <1>21 DEF Gathered, store, Given
  <2>. QED  BY <1>11, <1>15, <1>18, <2>1, <2>2, <2>3
<1>26. \A j \in Kind : IF j = k
         THEN track'[i].done[j] = track[i].done[j] + 1 /\ track'[i].tail[j].chunk = wk.chunk
         ELSE track'[i].done[j] = track[i].done[j] /\ track'[i].tail[j] = track[i].tail[j]
  BY <1>1, <1>11, <1>14, <1>18 DEF Given
<1>27. Elsewhere(i)
  BY <1>24 DEF Elsewhere
<1>28. /\ wk'.id = i /\ wk'.session = wk.session
       /\ wk'.pc = next \/ (wk'.pc = "emit" /\ wk'.next = next)
  BY <1>18 DEF Given
<1>29. Adds(i, k)
  BY <1>17, <1>19, <1>25, <1>26, <1>27, <1>28 DEF Adds
<1>30. SpeechHolds'
  BY <1>2, <1>3, <1>20, <1>23, <1>24, OneRow
<1>. QED  BY <1>1, <1>29, <1>30

\* What the other track deferred is tried again.
LEMMA RetrySpeaks ==
  ASSUME Control, SpeechHolds, Retry
  PROVE  /\ SpeechHolds' /\ Keeps(wk.id) /\ wk'.id = wk.id /\ wk'.session = wk.session
         /\ wk'.pc = AfterChunk \/ (wk'.pc = "emit" /\ wk'.next = AfterChunk)
<1>1. PICK i, t, next : i = wk.id /\ t = track[i] /\ next = AfterChunk
  OBVIOUS
<1>2. /\ wk.pc = "retry" /\ UNCHANGED <<store, boot, past, crashes, errors>> /\ Up
      /\ Attribute(i, t, Other(wk.kind), next)
  <2>1. Up /\ UNCHANGED boot
    BY WorksUp DEF WorkerStep
  <2>. QED  BY <1>1, <2>1 DEF Retry, At
<1>3. /\ i \in Id /\ IsOpen(i) /\ Out(i) = <<>> /\ Shaped(wk) /\ Other(wk.kind) \in Kind
      /\ next \in {"retry", "account", "advance"} /\ next # "retry"
  BY <1>1, <1>2, WorksOn, ControlParts, WorkerAssumption DEF Out, Other, AfterChunk
<1>4. /\ Lane(segment[i], <<>>, t, again[i]) /\ TailHolds(t) /\ t \in TrackType
      /\ Covers(ToSet(segment[i]) \cup Held(t), heard[i])
  <2>1. Gathered(i) = ToSet(segment[i]) \cup Held(t)
    BY <1>1, <1>3, ToSetIs DEF Gathered
  <2>. QED  BY <1>1, <1>2, <1>3, <2>1, RowServed
<1>5. PICK o \in Seq(Speech), v \in TrackType :
        /\ Given(i, t, next, o, v) /\ Lane(segment[i], o, v, again[i])
        /\ Covers(ToSet(segment[i]) \cup ToSet(o) \cup Held(v), heard[i])
        /\ ToSet(o) \cup Held(v) \subseteq Held(t)
  <2>1. SpeechTypes
    BY DEF SpeechHolds
  <2>2. Shares(i, t, next, again[i], heard[i])
    BY <1>1, <1>2, <1>3, <1>4, <2>1, AttributeSpeaks
  <2>. QED  BY <2>2 DEF Shares
<1>6. Out(i)' = o /\ wk'.pc # "settle" /\ wk'.pc # "job" /\ wk'.next # "settle"
  BY <1>3, <1>5 DEF Out, Given
<1>7. SpeechTypes'
  BY <1>2, <1>5 DEF SpeechHolds, SpeechTypes, store, past, Given
<1>8. Gathered(i)' = ToSet(segment[i]) \cup ToSet(o) \cup Held(v)
  BY <1>2, <1>5, <1>6 DEF Gathered, store, Given
<1>9. Row(i)'
  <2>1. IsOpen(i)' /\ segment'[i] = segment[i] /\ again'[i] = again[i] /\ heard'[i] = heard[i]
    BY <1>2, <1>3 DEF IsOpen, store, past
  <2>2. Lane(segment[i], Out(i), track[i], again[i])' /\ TailHolds(track[i])'
    BY <1>4, <1>5, <1>6, <2>1 DEF Given, TailHolds
  <2>3. Covers(Gathered(i), heard[i])'
    BY <1>5, <1>8, <2>1
  <2>4. ~Flushes(i)'
    BY <1>6 DEF Flushes, Closing
  <2>. QED  BY <1>2, <2>1, <2>2, <2>3, <2>4, OpenRow
<1>10. \A j \in Id \ {i} : /\ Untouched(j) /\ Out(j)' = <<>> /\ Out(j) = <<>> /\ ~Flushes(j)'
                           /\ job'[j] = job[j]
  BY <1>1, <1>2, <1>5 DEF Untouched, Out, Flushes, store, past, Given
<1>11. SpeechHolds'
  BY <1>2, <1>3, <1>7, <1>9, <1>10, OneRow
<1>12. Keeps(i)
  <2>1. Gathered(i)' \subseteq Gathered(i)
    BY <1>1, <1>3, <1>5, <1>8 DEF Gathered
  <2>. QED  BY <1>1, <1>5, <1>10, <2>1 DEF Keeps, Elsewhere, Given
<1>13. /\ wk'.id = i /\ wk'.session = wk.session
       /\ wk'.pc = next \/ (wk'.pc = "emit" /\ wk'.next = next)
  BY <1>5 DEF Given
<1>. QED  BY <1>1, <1>11, <1>12, <1>13

-----------------------------------------------------------------------------
(***************************************************************************)
(* Every step of the system keeps it.                                      *)
(***************************************************************************)
LEMMA InitSpeech ==
  ASSUME Init
  PROVE  SpeechHolds
<1>1. /\ segment = [i \in Id |-> <<>>] /\ track = [i \in Id |-> NoTrack] /\ wk = Idle
      /\ job = [i \in Id |-> [state |-> "absent", progress |-> 0, total |-> 0]]
      /\ read = [i \in Id |-> {}] /\ heard = [i \in Id |-> {}] /\ again = [i \in Id |-> {}]
      /\ crashes = 0 /\ errors = 0 /\ boot.pc = "scan"
  BY DEF Init, StoreInit, Boot
<1>2. SpeechTypes
  <2>1. Speaks(wk)
    BY <1>1, SpeaksIs DEF Idle
  <2>2. segment \in [Id -> Seq(Speech)] /\ track \in [Id -> TrackType]
    BY <1>1, NoTrackIs
  <2>3. /\ read \in [Id -> SUBSET (Kind \X Nat)]
        /\ heard \in [Id -> SUBSET Speech] /\ again \in [Id -> SUBSET Speech]
    BY <1>1
  <2>4. crashes \in 0..MaxCrashes /\ errors \in 0..MaxErrors
    BY <1>1, WorkerAssumption
  <2>. QED  BY <2>1, <2>2, <2>3, <2>4 DEF SpeechTypes
<1>3. ASSUME NEW i \in Id
      PROVE  Row(i)
  <2>1. /\ segment[i] = <<>> /\ track[i] = NoTrack /\ Fresh(i) /\ job[i].state = "absent"
    BY <1>1 DEF Fresh
  <2>2. ~IsOpen(i) /\ ~Settled(i) /\ ~Flushes(i)
    BY <1>1, <2>1 DEF IsOpen, Open, Settled, Flushes, Closing, At, Idle
  <2>3. InRun(segment[i], again[i]) /\ TailHolds(track[i])
    BY <2>1, NoTrackIs
  <2>. QED  BY <2>1, <2>2, <2>3 DEF Row, InService
<1>. QED  BY <1>2, <1>3 DEF SpeechHolds

LEMMA SpeechInductive ==
  ASSUME Control, SpeechHolds, [Next]_wvars
  PROVE  SpeechHolds'
<1>1. CASE \/ Capture \/ ListLive
           \/ \E s \in Session : BeginLive(s) \/ OnStopped(s)
           \/ \E w \in Source : OnChunk(w) \/ PushChunk(w)
           \/ \E r \in Request : RequestStep(r) \/ \E s \in Session : CheckRequest(r, s)
  BY <1>1, ObserversSpeak
<1>2. CASE TakeChunk \/ TakeStop \/ Account \/ Advance \/ Report \/ Settle \/ EngineFails
  BY <1>2, QuietSpeaks
<1>3. CASE TakeStep \/ Transcribe \/ Retry \/ Emit \/ Finalise \/ SettleJob
  BY <1>3, TakeStepSpeaks, TranscribeSpeaks, RetrySpeaks, EmitSpeaks, FinaliseSpeaks, SettleJobSpeaks
<1>4. CASE WorkerError \/ Crash \/ BootStep
  BY <1>4, WorkerErrorSpeaks, CrashSpeaks, BootSpeaks
<1>5. CASE UNCHANGED wvars
  <2>1. UNCHANGED <<store, track, past, wk, boot, crashes, errors>>
    BY <1>5 DEF wvars, memory
  <2>. QED  BY <2>1, SilentKeeps
<1>. QED  BY <1>1, <1>2, <1>3, <1>4, <1>5 DEF Next, WorkerStep

LEMMA SpeechAlways == Spec => [](Control /\ SpeechHolds)
<1>1. Init => Control /\ SpeechHolds
  BY InitControl, InitSpeech
<1>2. Control /\ SpeechHolds /\ [Next]_wvars => (Control /\ SpeechHolds)'
  BY ControlInductive, SpeechInductive
<1>. QED  BY <1>1, <1>2, PTL DEF Spec

(***************************************************************************)
(* Every variable of the worker has its type in every reachable state, for *)
(* any number of transcripts, chunks, crashes and errors.                  *)
(***************************************************************************)
THEOREM WorkerTypeCorrect == Spec => []TypeOK
<1>1. Control /\ SpeechHolds => TypeOK
  <2>1. SUFFICES ASSUME Control, SpeechHolds
                 PROVE  TypeOK
    OBVIOUS
  <2>2. FeedTypeOK /\ TableTypes /\ LiveTypes /\ JobTypes /\ Shaped(wk) /\ BootTypes
    BY <2>1, ControlParts
  <2>3. SpeechTypes
    BY <2>1 DEF SpeechHolds
  <2>4. wk \in Wk
    BY <2>2, <2>3 DEF SpeechTypes, Speaks, Shaped, Wk
  <2>5. StoreTypeOK(Session \cup {NoSession}, Speech)
    BY <2>2, <2>3 DEF StoreTypeOK, TableTypes, SpeechTypes
  <2>. QED  BY <2>2, <2>3, <2>4, <2>5
            DEF TypeOK, LiveTypes, JobTypes, BootTypes, SpeechTypes, TrackType
<1>. QED  BY <1>1, SpeechAlways, PTL

(***************************************************************************)
(* The segments of a track are in the transcript in the order they were    *)
(* spoken, whatever attribution deferred, a flush let out or a restart     *)
(* cut short.                                                              *)
(***************************************************************************)
THEOREM TracksComeInOrder == Spec => []TracksInOrder
<1>1. SpeechHolds => TracksInOrder
  BY DEF SpeechHolds, Row, InRun, Follows, TracksInOrder
<1>. QED  BY <1>1, SpeechAlways, PTL

(***************************************************************************)
(* A transcript holds a stretch of speech once, but for what an overlap    *)
(* showed again before all of it was out: neither attribution nor a flush, *)
(* an error, a crash or a second attempt adds a copy.                      *)
(***************************************************************************)
THEOREM SpeechIsSaidOnce == Spec => []NoDuplicates
<1>1. SpeechHolds => NoDuplicates
  <2>1. SUFFICES ASSUME SpeechHolds, NEW i \in Id, NEW n \in DOMAIN segment[i],
                        NEW m \in DOMAIN segment[i], m < n, segment[i][m] = segment[i][n]
                 PROVE  segment[i][n] \in again[i]
    BY DEF NoDuplicates, Twice
  <2>2. Follows(segment[i][m], segment[i][n], again[i])
    BY <2>1 DEF SpeechHolds, Row, InRun
  <2>. QED  BY <2>1, <2>2 DEF Follows
<1>. QED  BY <1>1, SpeechAlways, PTL

(***************************************************************************)
(* What was heard of a session is in its completed transcript: attribution *)
(* defers a segment and judges it later, a flush lets out what is left,    *)
(* and only mic speech is dropped, as a copy of system speech that is      *)
(* there, of its own chunk's time or a neighbour's.                        *)
(***************************************************************************)
THEOREM HeardIsKept == Spec => []NothingHeardIsLost
<1>1. SpeechHolds => NothingHeardIsLost
  BY DEF SpeechHolds, Row, Covers, SaidIn, NothingHeardIsLost
<1>. QED  BY <1>1, SpeechAlways, PTL

-----------------------------------------------------------------------------
(***************************************************************************)
(* On-demand jobs.  The chunks of a session that has ended are read in     *)
(* their order: a job has read the first of them, as many as it has        *)
(* counted, and each at the time its number says.  A job waits in the      *)
(* queue, is asked for, or is worked on: one of these, or none.            *)
(***************************************************************************)
OfDisk(i) == [k \in Kind |-> onDisk[<<transcript[i].session, k>>]]
First(inv, n) == {c \in Inventory(inv) : Rank(Earlier(inv), Inventory(inv), c) < n}

Queued(i) == \E n \in DOMAIN jobQ : jobQ[n] = i
Asked(i) == \E r \in Request : request[r].pc = "created" /\ request[r].id = i
Working(i) == wk.pc # "idle" /\ wk.session = NoSession /\ wk.id = i
Reading(i) == Working(i) /\ wk.pc = "transcribe"
Passing(i) == Working(i) /\ (\/ wk.pc \in {"retry", "advance"}
                             \/ wk.pc = "emit" /\ wk.next \in {"retry", "advance"})
Completing(i) == Working(i) /\ Closing /\ wk.verdict = "completed"

AsHeard(S) == \A c \in S : c.at = c.chunk
Tracked(i) ==
  /\ AsHeard(Gathered(i)) /\ read[i] = Inventory(track[i].done)
  /\ \A k \in Kind : track[i].tail[k].how # "nothing" =>
       track[i].tail[k].chunk + 1 = track[i].done[k]
ReadTo(i, n) == /\ od[i].listed /\ job[i].progress = od[i].idx
                /\ n <= Total(OfDisk(i)) /\ read[i] = First(OfDisk(i), n)
Complete(i) == read[i] = Inventory(OfDisk(i)) /\ job[i].progress = job[i].total
JobRow(i) ==
  /\ od[i].listed => od[i].inv = OfDisk(i) /\ job[i].total = Total(OfDisk(i))
  /\ (Queued(i) \/ Asked(i) \/ ~Up) /\ ~od[i].listed => Fresh(i) /\ track[i] = NoTrack
  /\ Asked(i) => ~od[i].listed
  /\ Queued(i) /\ od[i].listed => ReadTo(i, od[i].idx)
  /\ Reading(i) => /\ ReadTo(i, od[i].idx) /\ od[i].idx < Total(OfDisk(i))
                   /\ <<wk.kind, wk.chunk>> = ChunkAt(OfDisk(i), od[i].idx)
  /\ Passing(i) => ReadTo(i, od[i].idx + 1)
  /\ Completing(i) => Complete(i)
ReadRow(i) ==
  /\ job[i].state = "absent" \/ ~Up => od[i] = NoOd
  /\ OnDemand(i) =>
       /\ status[transcript[i].session] = "finished"
       /\ InService(i) => Tracked(i) /\ JobRow(i)
       /\ Settled(i) => Complete(i) /\ AsHeard(ToSet(segment[i]))
OneHolder ==
  /\ \A m, n \in DOMAIN jobQ : m # n => jobQ[m] # jobQ[n]
  /\ \A i \in Id : Queued(i) => ~Working(i)
  /\ \A i \in Id : Asked(i) => ~Queued(i) /\ ~Working(i)
  /\ \A r, q \in Request : r # q /\ request[r].pc = "created" /\ request[q].pc = "created"
       => request[r].id # request[q].id
ReadsHold == OneHolder /\ \A i \in Id : ReadRow(i)

LEMMA FirstIs ==
  ASSUME NEW inv \in [Kind -> Nat]
  PROVE  /\ First(inv, 0) = {} /\ First(inv, Total(inv)) = Inventory(inv)
         /\ \A n \in Nat : n < Total(inv) =>
              First(inv, n + 1) = First(inv, n) \cup {ChunkAt(inv, n)}
<1>. DEFINE R == Earlier(inv)
            T == Inventory(inv)
            Of(c) == Rank(R, T, c)
<1>1. IsFiniteSet(T) /\ Orders(R, T) /\ Total(inv) = Cardinality(T)
  BY InventoryIs DEF Total
<1>2. /\ Total(inv) \in Nat /\ \A c \in T : Of(c) \in 0..(Total(inv) - 1)
      /\ \A b, c \in T : <<b, c>> \in R => Of(b) < Of(c)
  <2>. HIDE DEF R, T
  <2>. QED  BY <1>1, RankIs
<1>3. \A c \in T : Of(c) \in Nat /\ Of(c) < Total(inv)
  <2>. HIDE DEF T, Of
  <2>. QED  BY <1>2
<1>4. ASSUME NEW b \in T, NEW c \in T, b # c
      PROVE  Of(b) # Of(c)
  <2>. HIDE DEF R, T, Of
  <2>1. <<b, c>> \in R \/ <<c, b>> \in R
    BY <1>1, <1>4 DEF Orders
  <2>2. Of(b) < Of(c) \/ Of(c) < Of(b)
    BY <1>2, <2>1
  <2>. QED  BY <1>3, <2>2
<1>5. \A n \in Nat : n < Total(inv) => ChunkAt(inv, n) \in T /\ Of(ChunkAt(inv, n)) = n
  BY ChunkAtIs
<1>6. \A n : First(inv, n) = {c \in T : Of(c) < n}
  BY DEF First
<1>. HIDE DEF R, T, Of
<1>7. First(inv, 0) = {}
  <2>1. First(inv, 0) = {c \in T : Of(c) < 0}
    BY <1>6
  <2>. QED  BY <1>3, <2>1
<1>8. First(inv, Total(inv)) = T
  <2>1. First(inv, Total(inv)) = {c \in T : Of(c) < Total(inv)}
    BY <1>6
  <2>. QED  BY <1>3, <2>1
<1>9. ASSUME NEW n \in Nat, n < Total(inv)
      PROVE  First(inv, n + 1) = First(inv, n) \cup {ChunkAt(inv, n)}
  <2>1. \A c \in T : Of(c) < n + 1 <=> Of(c) < n \/ c = ChunkAt(inv, n)
    BY <1>3, <1>4, <1>5, <1>9
  <2>2. First(inv, n) = {c \in T : Of(c) < n}
    BY <1>6
  <2>3. First(inv, n + 1) = {c \in T : Of(c) < n + 1}
    BY <1>6
  <2>. QED  BY <1>5, <1>9, <2>1, <2>2, <2>3
<1>. QED  BY <1>7, <1>8, <1>9 DEF T

\* The chunk that is read next is the next of its track.
LEMMA NextChunk ==
  ASSUME NEW inv \in [Kind -> Nat], NEW done \in [Kind -> Nat], NEW n \in Nat, n < Total(inv),
         First(inv, n) = Inventory(done), NEW k \in Kind, NEW m \in Nat,
         <<k, m>> = ChunkAt(inv, n)
  PROVE  done[k] = m
<1>. DEFINE R == Earlier(inv)
            T == Inventory(inv)
<1>1. <<k, m>> \in T /\ Rank(R, T, <<k, m>>) = n /\ IsFiniteSet(T) /\ Orders(R, T)
  BY ChunkAtIs, InventoryIs
<1>2. m < inv[k] /\ done[k] \in Nat /\ inv[k] \in Nat
  BY <1>1, InventoryIs
<1>3. \A x \in Nat : <<k, x>> \in Inventory(done) <=> x < done[k]
  BY InventoryIs
<1>4. ~(m < done[k])
  <2>1. <<k, m>> \notin First(inv, n)
    BY <1>1 DEF First
  <2>. QED  BY <1>3, <2>1
<1>5. ASSUME m > 0
      PROVE  m - 1 < done[k]
  <2>1. PICK x \in Nat : x = m - 1
    BY <1>5
  <2>2. <<k, x>> \in T /\ <<<<k, x>>, <<k, m>>>> \in R
    <3>1. <<k, x>> \in T
      BY <1>2, <2>1, InventoryIs
    <3>2. Before(<<k, x>>, <<k, m>>)
      BY <2>1 DEF Before
    <3>. QED  BY <1>1, <3>1, <3>2 DEF Earlier
  <2>3. Rank(R, T, <<k, x>>) < n
    <3>. HIDE DEF R, T
    <3>. QED  BY <1>1, <2>2, RankIs
  <2>4. <<k, x>> \in First(inv, n)
    BY <2>2, <2>3 DEF First
  <2>. QED  BY <1>3, <2>1, <2>4
<1>. QED  BY <1>2, <1>4, <1>5

LEMMA InventoryGrows ==
  ASSUME NEW done \in [Kind -> Nat], NEW more \in [Kind -> Nat], NEW k \in Kind,
         \A j \in Kind : more[j] = IF j = k THEN done[j] + 1 ELSE done[j]
  PROVE  Inventory(more) = Inventory(done) \cup {<<k, done[k]>>}
<1>1. \A c : c \in Inventory(more) <=> c \in Kind \X Nat /\ c[2] < more[c[1]]
  BY InventoryIs
<1>2. \A c : c \in Inventory(done) <=> c \in Kind \X Nat /\ c[2] < done[c[1]]
  BY InventoryIs
<1>3. ASSUME NEW j \in Kind, NEW m \in Nat
      PROVE  m < more[j] <=> m < done[j] \/ (j = k /\ m = done[k])
  OBVIOUS
<1>4. \A c \in Kind \X Nat : c[2] < more[c[1]] <=> c[2] < done[c[1]] \/ c = <<k, done[k]>>
  BY <1>3
<1>5. <<k, done[k]>> \in Kind \X Nat
  OBVIOUS
<1>. QED  BY <1>1, <1>2, <1>4, <1>5

\* Nothing is recorded of a session that has ended.
LEMMA EndedIsRecorded ==
  ASSUME Control, [Next]_wvars, NEW s \in Session, status[s] = "finished"
  PROVE  status'[s] = "finished" /\ \A k \in Kind : onDisk'[<<s, k>>] = onDisk[<<s, k>>]
<1>1. FeedTypeOK
  BY ControlParts
<1>2. CASE UNCHANGED feed
  BY <1>2 DEF feed
<1>3. CASE \E t \in Session : Activate(t) \/ TellStarted(t) \/ TellStopped(t) \/ Finish(t)
                               \/ TellFinalized(t)
  BY <1>1, <1>3 DEF Activate, TellStarted, TellStopped, Finish, TellFinalized, FeedTypeOK
<1>4. CASE \E w \in Source : FileChunk(w) \/ TellChunk(w)
  <2>1. PICK w \in Source : FileChunk(w) \/ TellChunk(w)
    BY <1>4
  <2>2. SessionOf(w) # s
    BY <2>1 DEF FileChunk, TellChunk
  <2>3. \A k \in Kind : <<s, k>> \in Source /\ <<s, k>> # w
    BY <2>2 DEF Source, SessionOf
  <2>. QED  BY <1>1, <2>1, <2>3 DEF FileChunk, TellChunk, FeedTypeOK
<1>5. CASE Restart
  BY <1>1, <1>5 DEF Restart, FeedTypeOK
<1>6. \/ UNCHANGED feed
      \/ \E t \in Session : Activate(t) \/ TellStarted(t) \/ TellStopped(t) \/ Finish(t)
                               \/ TellFinalized(t)
      \/ \E w \in Source : FileChunk(w) \/ TellChunk(w)
      \/ Restart
  <2>1. CASE \/ Capture \/ ListLive
             \/ \E t \in Session : BeginLive(t) \/ OnStopped(t)
             \/ \E w \in Source : OnChunk(w) \/ PushChunk(w)
    BY <2>1 DEF Capture, ListLive, BeginLive, OnStopped, OnChunk, PushChunk
  <2>2. CASE \/ \E r \in Request : RequestStep(r) \/ \E t \in Session : CheckRequest(r, t)
             \/ EngineFails \/ WorkerError \/ Crash \/ UNCHANGED wvars
    BY <2>2 DEF RequestStep, CreateRequested, PushRequested, CheckRequest, EngineFails,
                WorkerError, Crash, wvars
  <2>3. CASE WorkerStep
    BY <2>3 DEF WorkerStep, TakeChunk, TakeStop, TakeStep, Transcribe, Retry, Emit, Account,
                Advance, Finalise, Report, Settle, SettleJob
  <2>4. CASE BootStep
    BY <2>4 DEF BootStep, BootScan, ReconcileLive, ReconcileLiveJob, ReconcileOnDemand,
                ReconcileOnDemandJob, Requeue
  <2>. QED  BY <2>1, <2>2, <2>3, <2>4 DEF Next
<1>. QED  BY <1>2, <1>3, <1>4, <1>5, <1>6

(***************************************************************************)
(* What a step leaves of a job it is not about.                            *)
(***************************************************************************)
Recorded ==
  \A s \in Session : status[s] = "finished" =>
    status'[s] = "finished" /\ \A k \in Kind : onDisk'[<<s, k>>] = onDisk[<<s, k>>]
SameRow(i) == transcript'[i] = transcript[i] /\ job'[i] = job[i] /\ od'[i] = od[i]
Handed(i) == /\ Queued(i)' => Queued(i)
             /\ Asked(i)' => Asked(i)
             /\ Working(i)' => Working(i) /\ UNCHANGED wk
Apart(i) == /\ Untouched(i) /\ Out(i)' = Out(i) /\ SameRow(i) /\ Handed(i)
            /\ InService(i)' => InService(i)
            /\ ~Up' => ~Up

LEMMA SameDisk ==
  ASSUME Control, Recorded, NEW i \in Id, OnDemand(i),
         status[transcript[i].session] = "finished",
         transcript'[i].session = transcript[i].session
  PROVE  status'[transcript'[i].session] = "finished" /\ OfDisk(i)' = OfDisk(i)
<1>1. PICK s : s = transcript[i].session /\ s \in Session
  BY ControlParts DEF TablesHold, OnDemand
<1>2. \A k \in Kind : onDisk'[<<s, k>>] = onDisk[<<s, k>>]
  BY <1>1 DEF Recorded
<1>. QED  BY <1>1, <1>2 DEF Recorded, OfDisk

LEMMA RowStays ==
  ASSUME Control, Recorded, NEW i \in Id, ReadRow(i), Apart(i)
  PROVE  ReadRow(i)'
<1>1. job'[i].state = "absent" \/ ~Up' => od'[i] = NoOd
  BY DEF ReadRow, Apart, SameRow
<1>2. ASSUME OnDemand(i)'
      PROVE  /\ status'[transcript'[i].session] = "finished"
             /\ InService(i)' => Tracked(i)' /\ JobRow(i)'
             /\ Settled(i)' => Complete(i)' /\ AsHeard(ToSet(segment[i]))'
  <2>1. OnDemand(i)
    BY <1>2 DEF Apart, SameRow, OnDemand, Exists
  <2>2. /\ status[transcript[i].session] = "finished"
        /\ InService(i) => Tracked(i) /\ JobRow(i)
        /\ Settled(i) => Complete(i) /\ AsHeard(ToSet(segment[i]))
    BY <2>1 DEF ReadRow
  <2>3. status'[transcript'[i].session] = "finished" /\ OfDisk(i)' = OfDisk(i)
    BY <2>1, <2>2, SameDisk DEF Apart, SameRow
  <2>4. ASSUME InService(i)'
        PROVE  Tracked(i)' /\ JobRow(i)'
    <3>1. Tracked(i) /\ JobRow(i) /\ Gathered(i)' = Gathered(i)
      BY <2>2, <2>4 DEF Apart, Gathered, Untouched
    <3>2. Tracked(i)'
      BY <3>1 DEF Tracked, Apart, Untouched
    <3>3. /\ od'[i].listed => od'[i].inv = OfDisk(i)' /\ job'[i].total = Total(OfDisk(i)')
          /\ (Queued(i)' \/ Asked(i)' \/ ~Up') /\ ~od'[i].listed => Fresh(i)' /\ track'[i] = NoTrack
          /\ Asked(i)' => ~od'[i].listed
      BY <2>3, <3>1 DEF JobRow, Apart, SameRow, Untouched, Handed, Fresh
    <3>4. \A n : ReadTo(i, n) => ReadTo(i, n)'
      BY <2>3 DEF ReadTo, Apart, SameRow, Untouched
    <3>5. Complete(i) => Complete(i)'
      BY <2>3 DEF Complete, Apart, SameRow, Untouched
    <3>6. Queued(i)' /\ od'[i].listed => ReadTo(i, od[i].idx)'
      BY <3>1, <3>4 DEF JobRow, Apart, SameRow, Handed
    <3>7. CASE UNCHANGED wk
      <4>1. Reading(i)' => /\ ReadTo(i, od[i].idx)' /\ od'[i].idx < Total(OfDisk(i)')
                           /\ <<wk'.kind, wk'.chunk>> = ChunkAt(OfDisk(i)', od'[i].idx)
        BY <2>3, <3>1, <3>4, <3>7 DEF JobRow, Reading, Working, Apart, SameRow
      <4>2. Passing(i)' => ReadTo(i, od[i].idx + 1)'
        BY <3>1, <3>4, <3>7 DEF JobRow, Passing, Working, Apart, SameRow
      <4>3. Completing(i)' => Complete(i)'
        BY <3>1, <3>5, <3>7 DEF JobRow, Completing, Working, Closing
      <4>. QED  BY <3>2, <3>3, <3>6, <4>1, <4>2, <4>3 DEF JobRow
    <3>8. CASE ~Working(i)'
      BY <3>2, <3>3, <3>6, <3>8 DEF JobRow, Reading, Passing, Completing
    <3>. QED  BY <3>7, <3>8 DEF Apart, Handed
  <2>5. Settled(i)' => Complete(i)' /\ AsHeard(ToSet(segment[i]))'
    BY <2>2, <2>3 DEF Settled, Complete, Apart, SameRow, Untouched
  <2>. QED  BY <2>3, <2>4, <2>5
<1>. QED  BY <1>1, <1>2 DEF ReadRow

\* A row that is not served does not move while nobody writes it.
LEMMA RestingRow ==
  ASSUME Control, Recorded, NEW i \in Id, ReadRow(i), Untouched(i), SameRow(i), ~InService(i)',
         ~Up' => ~Up
  PROVE  ReadRow(i)'
<1>1. ASSUME OnDemand(i)'
      PROVE  /\ status'[transcript'[i].session] = "finished"
             /\ Settled(i)' => Complete(i)' /\ AsHeard(ToSet(segment[i]))'
  <2>1. OnDemand(i)
    BY <1>1 DEF SameRow, OnDemand, Exists
  <2>2. /\ status[transcript[i].session] = "finished"
        /\ Settled(i) => Complete(i) /\ AsHeard(ToSet(segment[i]))
    BY <2>1 DEF ReadRow
  <2>3. status'[transcript'[i].session] = "finished" /\ OfDisk(i)' = OfDisk(i)
    BY <2>1, <2>2, SameDisk DEF SameRow
  <2>. QED  BY <2>2, <2>3 DEF Settled, Complete, SameRow, Untouched
<1>2. job'[i].state = "absent" \/ ~Up' => od'[i] = NoOd
  BY DEF ReadRow, SameRow
<1>. QED  BY <1>1, <1>2 DEF ReadRow

\* The worker that has a job in hand works on it.
LEMMA WorkingIs ==
  ASSUME Control, NEW i \in Id, OnDemand(i)
  PROVE  /\ Working(i) <=> wk.pc \notin {"idle", "finalise"} /\ wk.id = i
         /\ ~Working(i) => Out(i) = <<>>
<1>1. wk.pc \notin {"idle", "finalise"} /\ wk.id = i => wk.session = NoSession
  BY ControlParts DEF WorkHolds, LiveOf, OnDemand
<1>2. wk.pc = "finalise" => wk.session # NoSession
  BY ControlParts DEF WorkHolds
<1>. QED  BY <1>1, <1>2 DEF Working, Out

LEMMA OthersStay ==
  ASSUME Control, Recorded, ReadsHold, OneHolder', NEW r, \A j \in Id \ {r} : Apart(j),
         r \in Id => ReadRow(r)'
  PROVE  ReadsHold'
<1>1. \A j \in Id \ {r} : ReadRow(j)'
  BY RowStays DEF ReadsHold
<1>. QED  BY <1>1 DEF ReadsHold

LEMMA ApartUp ==
  ASSUME Up, UNCHANGED boot, NEW i, Untouched(i), Out(i)' = Out(i), SameRow(i), Handed(i)
  PROVE  Apart(i)
BY DEF Apart, SameRow, InService, IsOpen, Up

\* Jobs are handed on by nobody.
LEMMA HoldersStay ==
  ASSUME OneHolder, UNCHANGED jobQ, \A i \in Id : Working(i)' => Working(i),
         \A q \in Request : request'[q].pc = "created" => request'[q] = request[q]
  PROVE  OneHolder' /\ \A i : (Queued(i)' => Queued(i)) /\ (Asked(i)' => Asked(i))
<1>1. \A i : (Queued(i)' => Queued(i)) /\ (Asked(i)' => Asked(i))
  BY DEF Queued, Asked
<1>2. \A m, n \in DOMAIN jobQ' : m # n => jobQ'[m] # jobQ'[n]
  BY DEF OneHolder
<1>3. \A r, q \in Request : r # q /\ request'[r].pc = "created" /\ request'[q].pc = "created"
       => request'[r].id # request'[q].id
  BY DEF OneHolder
<1>4. \A i \in Id : (Queued(i)' => ~Working(i)') /\ (Asked(i)' => ~Queued(i)' /\ ~Working(i)')
  BY <1>1 DEF OneHolder
<1>. QED  BY <1>1, <1>2, <1>3, <1>4 DEF OneHolder

(***************************************************************************)
(* The invariant, action by action.                                        *)
(***************************************************************************)
\* Capture, the observers and what the worker takes of live sessions.
LEMMA SilentReads ==
  ASSUME Control, ReadsHold, Recorded, Up, UNCHANGED <<store, track, past, od, jobQ, boot>>,
         \/ UNCHANGED wk
         \/ wk.pc # "emit" /\ wk'.pc # "emit" /\ (wk'.pc = "idle" \/ wk'.session # NoSession),
         \A q \in Request : request'[q].pc = "created" => request'[q] = request[q]
  PROVE  ReadsHold'
<1>1. \A i \in Id : Working(i)' => Working(i) /\ UNCHANGED wk
  BY DEF Working
<1>2. OneHolder' /\ \A i : (Queued(i)' => Queued(i)) /\ (Asked(i)' => Asked(i))
  BY <1>1, HoldersStay DEF ReadsHold
<1>3. \A i \in Id : Untouched(i) /\ SameRow(i) /\ Out(i)' = Out(i)
  BY DEF Untouched, SameRow, store, past, Out
<1>4. \A i \in Id : Apart(i)
  BY <1>1, <1>2, <1>3, ApartUp DEF Handed
<1>5. \A i \in Id : ReadRow(i)'
  BY <1>4, RowStays DEF ReadsHold
<1>. QED  BY <1>2, <1>5 DEF ReadsHold

LEMMA ObserversRead ==
  ASSUME Control, ReadsHold, Recorded,
         \/ Capture \/ ListLive
         \/ \E s \in Session : OnStopped(s)
         \/ \E w \in Source : OnChunk(w) \/ PushChunk(w)
         \/ \E r \in Request : \E s \in Session : CheckRequest(r, s)
  PROVE  ReadsHold'
<1>1. Up
  BY ControlParts DEF Capture, ListLive, OnStopped, OnChunk, PushChunk, CheckRequest,
                      LockHolderFree, BootHolds
<1>2. UNCHANGED <<store, track, past, od, jobQ, boot, wk>>
  BY DEF Capture, ListLive, OnStopped, OnChunk, PushChunk, CheckRequest, memory
<1>3. \A q \in Request : request'[q].pc = "created" => request'[q] = request[q]
  <2>1. CASE \E r \in Request : \E s \in Session : CheckRequest(r, s)
    BY <2>1, ControlParts DEF CheckRequest, JobTypes
  <2>2. CASE UNCHANGED request
    BY <2>2
  <2>. QED  BY <2>1, <2>2 DEF Capture, ListLive, OnStopped, OnChunk, PushChunk
<1>. QED  BY <1>1, <1>2, <1>3, SilentReads

LEMMA TakeReads ==
  ASSUME Control, ReadsHold, Recorded, TakeChunk \/ TakeStop
  PROVE  ReadsHold'
<1>1. Up /\ UNCHANGED <<store, track, past, od, jobQ, boot, request>> /\ wk.pc = "idle"
  BY DEF TakeChunk, TakeStop, At
<1>2. \/ UNCHANGED wk
      \/ wk'.pc # "emit" /\ wk'.session # NoSession
  <2>1. Head(liveQ) \in Item
    BY ControlParts, HeadHas DEF TakeChunk, TakeStop, LiveTypes
  <2>2. Head(liveQ).session # NoSession
    BY <2>1, WorkerAssumption DEF Item
  <2>3. CASE TakeStop
    BY <2>2, <2>3 DEF TakeStop, Idle
  <2>4. CASE TakeChunk
    <3>1. \/ UNCHANGED wk
          \/ wk' = [Idle EXCEPT !.pc = "transcribe", !.id = live[Head(liveQ).session].id,
                               !.session = Head(liveQ).session, !.kind = Head(liveQ).kind,
                               !.chunk = Head(liveQ).chunk]
      BY <2>4 DEF TakeChunk
    <3>. QED  BY <2>2, <3>1 DEF Idle
  <2>. QED  BY <2>3, <2>4
<1>. QED  BY <1>1, <1>2, SilentReads

\* A live transcript is read by no job.
LEMMA LiveRow ==
  ASSUME NEW i, ~OnDemand(i)', job'[i].state = "absent" => od'[i] = NoOd, Up'
  PROVE  ReadRow(i)'
BY DEF ReadRow

LEMMA BeginReads ==
  ASSUME Control, ReadsHold, Recorded, NEW s \in Session, BeginLive(s)
  PROVE  ReadsHold'
<1>1. /\ Up /\ UNCHANGED <<track, past, od, jobQ, boot, wk, request>>
      /\ \/ UNCHANGED store
         \/ \E i \in Id : CreateTranscript(i, s, "live", "failed", "failed")
         \/ \E i \in Id : CreateTranscript(i, s, "live", "live", "running")
  BY DEF BeginLive, LockHolderFree
<1>2. CASE UNCHANGED store
  BY <1>1, <1>2, SilentReads
<1>3. ASSUME NEW i \in Id, NEW ts, NEW js \in {"failed", "running"},
             CreateTranscript(i, s, "live", ts, js)
      PROVE  ReadsHold'
  <2>1. OnlyRow(i) /\ job'[i].state = js /\ transcript'[i].mode = "live"
    <3>1. /\ OnlyRow(i) /\ job'[i].state = js
          /\ transcript'[i] = [session |-> s, mode |-> "live", state |-> ts, final |-> FALSE]
      BY <1>3, ControlParts, RowOps
    <3>. QED  BY <3>1
  <2>2. \A j \in Id : Working(j)' => Working(j) /\ UNCHANGED wk
    BY <1>1 DEF Working
  <2>3. OneHolder' /\ \A j : (Queued(j)' => Queued(j)) /\ (Asked(j)' => Asked(j))
    BY <1>1, <2>2, HoldersStay DEF ReadsHold
  <2>4. \A j \in Id \ {i} : Untouched(j) /\ SameRow(j) /\ Out(j)' = Out(j)
    BY <1>1, <2>1 DEF Untouched, SameRow, OnlyRow, past, Out
  <2>5. \A j \in Id \ {i} : Apart(j)
    BY <1>1, <2>2, <2>3, <2>4, ApartUp DEF Handed
  <2>6. ReadRow(i)'
    BY <1>1, <2>1, LiveRow DEF OnDemand, Up
  <2>. QED  BY <2>3, <2>5, <2>6, OthersStay
<1>. QED  BY <1>1, <1>2, <1>3

\* A job whose transcript is empty and that nobody has listed yet.
LEMMA FreshRow ==
  ASSUME NEW i \in Id, Fresh(i)', track'[i] = NoTrack, ~od'[i].listed, Out(i)' = <<>>,
         ~Working(i)'
  PROVE  Tracked(i)' /\ JobRow(i)'
<1>1. Gathered(i)' = {}
  BY NoTrackIs, ToSetIs DEF Gathered, Fresh
<1>2. read'[i] = Inventory(track'[i].done)
  <2>1. \A k \in Kind : NoTrack.done[k] = 0
    BY DEF NoTrack
  <2>2. NoTrack.done \in [Kind -> Nat]
    BY DEF NoTrack
  <2>3. Inventory(NoTrack.done) = {}
    BY <2>1, <2>2, InventoryIs
  <2>. QED  BY <2>3 DEF Fresh
<1>3. \A k \in Kind : track'[i].tail[k].how = "nothing"
  BY DEF NoTrack, NoTail
<1>. QED  BY <1>1, <1>2, <1>3 DEF Tracked, AsHeard, JobRow, Reading, Passing, Completing

LEMMA CreateReads ==
  ASSUME Control, SpeechHolds, ReadsHold, Recorded, NEW r \in Request, CreateRequested(r)
  PROVE  ReadsHold'
<1>1. PICK s : s = request[r].session
  OBVIOUS
<1>2. PICK i \in Id :
        /\ CreateTranscript(i, s, "on_demand", "pending", "queued")
        /\ request' = [request EXCEPT ![r].pc = "created", ![r].id = i]
  BY <1>1 DEF CreateRequested
<1>3. /\ request[r].pc = "checked" /\ UNCHANGED <<track, past, od, jobQ, boot, wk>>
      /\ status' = status
  BY DEF CreateRequested, memory, feed
<1>4. Up /\ status[s] = "finished" /\ s \in Session
  BY <1>1, <1>3, ControlParts DEF BootHolds, JobsHold
<1>5. /\ OnlyRow(i) /\ job'[i].state = "queued" /\ transcript'[i].session = s
      /\ UNCHANGED segment
  <2>1. /\ OnlyRow(i) /\ job'[i].state = "queued"
        /\ transcript'[i] = [session |-> s, mode |-> "on_demand", state |-> "pending",
                             final |-> FALSE]
    BY <1>2, ControlParts, RowOps
  <2>. QED  BY <1>2, <2>1 DEF CreateTranscript
<1>6. job[i].state = "absent" /\ ~Exists(i)
  BY <1>2, ControlParts DEF CreateTranscript, IsNext, Id, TablesHold, Exists
<1>7. ~Queued(i) /\ ~Working(i) /\ ~Asked(i) /\ Out(i) = <<>>
  <2>1. ~Working(i) /\ Out(i) = <<>>
    BY <1>6, ControlParts, WorksOn DEF Working, OnDemand, Out, WorkHolds, IsOpen, Open
  <2>. QED  BY <1>6, <2>1, ControlParts DEF JobsHold, Queued, Asked, OnDemand
<1>8. /\ request'[r].pc = "created" /\ request'[r].id = i
      /\ \A q \in Request \ {r} : request'[q] = request[q]
  BY <1>2, ControlParts DEF JobTypes
<1>9. \A j \in Id : (Queued(j)' <=> Queued(j)) /\ (Working(j)' <=> Working(j))
                    /\ (Asked(j)' => Asked(j) \/ j = i) /\ Out(j)' = Out(j)
  BY <1>3, <1>8 DEF Queued, Working, Asked, Out
<1>10. OneHolder'
  <2>1. \A m, n \in DOMAIN jobQ' : m # n => jobQ'[m] # jobQ'[n]
    BY <1>3 DEF ReadsHold, OneHolder
  <2>2. \A j \in Id : (Queued(j)' => ~Working(j)') /\ (Asked(j)' => ~Queued(j)' /\ ~Working(j)')
    BY <1>7, <1>9 DEF ReadsHold, OneHolder
  <2>3. \A p, q \in Request : p # q /\ request'[p].pc = "created" /\ request'[q].pc = "created"
          => request'[p].id # request'[q].id
    BY <1>7, <1>8 DEF ReadsHold, OneHolder, Asked
  <2>. QED  BY <2>1, <2>2, <2>3 DEF OneHolder
<1>11. \A j \in Id \ {i} : Apart(j)
  <2>1. \A j \in Id \ {i} : Untouched(j) /\ SameRow(j) /\ Handed(j)
    BY <1>3, <1>5, <1>9 DEF Untouched, SameRow, OnlyRow, past, Handed
  <2>. QED  BY <1>3, <1>4, <1>9, <2>1, ApartUp
<1>12. ReadRow(i)'
  <2>1. Fresh(i) /\ track[i] = NoTrack /\ od[i] = NoOd
    BY <1>6 DEF SpeechHolds, Row, ReadsHold, ReadRow
  <2>2. Fresh(i)' /\ track'[i] = NoTrack /\ ~od'[i].listed /\ od'[i] = NoOd
    BY <1>3, <1>5, <2>1 DEF Fresh, past, NoOd
  <2>3. Tracked(i)' /\ JobRow(i)'
    <3>1. Out(i)' = <<>> /\ ~Working(i)'
      BY <1>7, <1>9
    <3>. QED  BY <2>2, <3>1, FreshRow
  <2>. QED  BY <1>3, <1>4, <1>5, <2>2, <2>3 DEF ReadRow, Settled
<1>. QED  BY <1>10, <1>11, <1>12, OthersStay

\* A job is put at the end of the queue.
LEMMA QueueGrows ==
  ASSUME NEW i \in Id, jobQ \in Seq(Id), jobQ' = Append(jobQ, i), ~Queued(i),
         \A m, n \in DOMAIN jobQ : m # n => jobQ[m] # jobQ[n]
  PROVE  /\ \A m, n \in DOMAIN jobQ' : m # n => jobQ'[m] # jobQ'[n]
         /\ \A j : Queued(j)' <=> Queued(j) \/ j = i
<1>1. /\ \A m \in DOMAIN jobQ' : m \in DOMAIN jobQ \/ m = Len(jobQ) + 1
      /\ \A m \in DOMAIN jobQ : m \in DOMAIN jobQ' /\ jobQ'[m] = jobQ[m]
      /\ Len(jobQ) + 1 \in DOMAIN jobQ' /\ jobQ'[Len(jobQ) + 1] = i
  OBVIOUS
<1>2. \A m, n \in DOMAIN jobQ' : m # n => jobQ'[m] # jobQ'[n]
  BY <1>1 DEF Queued
<1>3. \A j : Queued(j)' <=> Queued(j) \/ j = i
  BY <1>1 DEF Queued
<1>. QED  BY <1>2, <1>3

LEMMA PushReads ==
  ASSUME Control, ReadsHold, Recorded, NEW r \in Request, PushRequested(r)
  PROVE  ReadsHold'
<1>1. PICK i : i = request[r].id
  OBVIOUS
<1>2. /\ request[r].pc = "created" /\ jobQ' = Append(jobQ, i)
      /\ request' = [request EXCEPT ![r].pc = "done"]
      /\ UNCHANGED <<store, track, past, od, boot, wk>>
  BY <1>1 DEF PushRequested
<1>3. Up /\ i \in Id /\ OnDemand(i) /\ jobQ \in Seq(Id)
  BY <1>1, <1>2, ControlParts DEF BootHolds, JobsHold, JobTypes
<1>4. Asked(i) /\ ~Queued(i) /\ ~Working(i)
  BY <1>1, <1>2, <1>3 DEF Asked, ReadsHold, OneHolder
<1>5. /\ \A m, n \in DOMAIN jobQ' : m # n => jobQ'[m] # jobQ'[n]
      /\ \A j : Queued(j)' <=> Queued(j) \/ j = i
  BY <1>2, <1>3, <1>4, QueueGrows DEF ReadsHold, OneHolder
<1>6. \A q \in Request : request'[q].pc = "created" => q # r /\ request'[q] = request[q]
  BY <1>2, ControlParts DEF JobTypes
<1>7. \A j \in Id : Asked(j)' => Asked(j) /\ j # i
  BY <1>1, <1>2, <1>6 DEF Asked, ReadsHold, OneHolder
<1>8. \A j \in Id : (Working(j)' <=> Working(j)) /\ Out(j)' = Out(j)
  BY <1>2 DEF Working, Out
<1>9. OneHolder'
  <2>1. \A j \in Id : (Queued(j)' => ~Working(j)') /\ (Asked(j)' => ~Queued(j)' /\ ~Working(j)')
    BY <1>4, <1>5, <1>7, <1>8 DEF ReadsHold, OneHolder
  <2>2. \A p, q \in Request : p # q /\ request'[p].pc = "created" /\ request'[q].pc = "created"
          => request'[p].id # request'[q].id
    BY <1>6 DEF ReadsHold, OneHolder
  <2>. QED  BY <1>5, <2>1, <2>2 DEF OneHolder
<1>10. \A j \in Id : Untouched(j) /\ SameRow(j)
  BY <1>2 DEF Untouched, SameRow, store, past
<1>11. \A j \in Id \ {i} : Apart(j)
  <2>1. \A j \in Id \ {i} : Handed(j)
    BY <1>2, <1>5, <1>7, <1>8 DEF Handed
  <2>. QED  BY <1>2, <1>3, <1>8, <1>10, <2>1, ApartUp
<1>12. ReadRow(i)'
  <2>1. ReadRow(i)
    BY <1>3 DEF ReadsHold
  <2>2. CASE ~InService(i)
    <3>1. ~InService(i)' /\ Up'
      BY <1>2, <1>3, <1>10, <2>2 DEF InService, IsOpen, SameRow, Up
    <3>. QED  BY <1>3, <1>10, <2>1, <3>1, RestingRow
  <2>3. CASE InService(i)
    <3>1. ~od[i].listed /\ Fresh(i) /\ track[i] = NoTrack
      BY <1>3, <1>4, <2>1, <2>3 DEF ReadRow, JobRow
    <3>2. Fresh(i)' /\ track'[i] = NoTrack /\ ~od'[i].listed /\ ~Working(i)'
      BY <1>3, <1>4, <1>8, <1>10, <3>1 DEF Fresh, Untouched, SameRow
    <3>3. Out(i)' = <<>>
      BY <1>3, <1>4, <1>8, WorkingIs
    <3>4. Tracked(i)' /\ JobRow(i)'
      BY <1>3, <3>2, <3>3, FreshRow
    <3>5. ~Settled(i)' /\ job'[i].state # "absent" /\ Up'
      BY <1>2, <1>3, <1>10, <2>3 DEF Settled, InService, IsOpen, Open, SameRow, Up
    <3>6. status'[transcript'[i].session] = "finished"
      BY <1>3, <1>10, <2>1, SameDisk DEF ReadRow, SameRow
    <3>. QED  BY <3>4, <3>5, <3>6 DEF ReadRow
  <2>. QED  BY <2>2, <2>3
<1>. QED  BY <1>9, <1>11, <1>12, OthersStay

\* Live work: one live transcript moves.
LEMMA LiveMoves ==
  ASSUME Control, ReadsHold, Recorded, Up, UNCHANGED <<boot, jobQ, request>>, NEW r \in Id,
         transcript'[r].mode = "live", job'[r].state # "absent",
         \A j \in Id : ~Working(j)',
         \A j \in Id \ {r} : Untouched(j) /\ SameRow(j) /\ Out(j)' = Out(j)
  PROVE  ReadsHold'
<1>1. OneHolder' /\ \A i : (Queued(i)' => Queued(i)) /\ (Asked(i)' => Asked(i))
  BY HoldersStay DEF ReadsHold
<1>2. \A j \in Id \ {r} : Apart(j)
  BY <1>1, ApartUp DEF Handed
<1>3. ReadRow(r)'
  BY LiveRow DEF OnDemand, Up
<1>. QED  BY <1>1, <1>2, <1>3, OthersStay

LEMMA LiveWorkReads ==
  ASSUME Control, SpeechHolds, ReadsHold, Recorded, wk.session # NoSession,
         wk.pc \notin {"idle", "finalise"},
         \/ Transcribe \/ Retry \/ Emit \/ Account \/ Report \/ Settle \/ SettleJob
         \/ EngineFails \/ WorkerError
  PROVE  ReadsHold'
<1>1. PICK r : r = wk.id
  OBVIOUS
<1>2. Up /\ UNCHANGED boot
  BY WorksUp DEF WorkerStep
<1>3. r \in Id /\ IsOpen(r) /\ transcript[r].mode = "live" /\ Shaped(wk) /\ wk.verdict \in Ended
  BY <1>1, ControlParts, WorksOn DEF WorkHolds, LiveOf, Shaped
<1>4. UNCHANGED <<jobQ, request>>
  BY DEF Transcribe, Retry, Emit, Account, Report, Settle, SettleJob, EngineFails, WorkerError
<1>5. /\ wk'.pc = "idle" \/ wk'.session = wk.session
      /\ wk'.pc # "emit" \/ wk'.id = r
  <2>1. CASE Transcribe
    BY <1>1, <2>1, TranscribeSpeaks DEF Adds
  <2>6. CASE Retry
    BY <1>1, <2>6, RetrySpeaks
  <2>2. CASE Emit
    <3>1. PICK e : e = EmitThen(wk, Tail(wk.out), wk.next) /\ wk' = e
      BY <2>2 DEF Emit
    <3>2. wk.next \in WorkerPc
      BY <1>3 DEF Shaped
    <3>3. e.session = wk.session /\ e.id = wk.id
      BY <1>3, <3>1, <3>2, EmitThenIs
    <3>. QED  BY <1>1, <3>1, <3>3
  <2>3. CASE Account
    <3>1. wk' = Idle \/ wk' = [Idle EXCEPT !.pc = "finalise", !.session = wk.session]
      BY <2>3 DEF Account
    <3>. QED  BY <3>1, RestIs
  <2>4. CASE Report \/ SettleJob \/ WorkerError
    BY <2>4, RestIs DEF Report, SettleJob, WorkerError
  <2>5. CASE Settle \/ EngineFails
    <3>1. \/ wk' = [wk EXCEPT !.pc = "job"]
          \/ wk' = [wk EXCEPT !.pc = "settle", !.verdict = "failed"]
      BY <2>5 DEF Settle, EngineFails
    <3>. QED  BY <1>1, <1>3, <3>1 DEF Shaped
  <2>. QED  BY <2>1, <2>2, <2>3, <2>4, <2>5, <2>6
<1>6. \A j \in Id : ~Working(j)'
  BY <1>5 DEF Working
<1>7. /\ \A j \in Id \ {r} : transcript'[j] = transcript[j] /\ job'[j] = job[j]
      /\ transcript'[r].mode = "live" /\ job'[r].state # "absent"
  <2>1. CASE UNCHANGED <<transcript, job>>
    BY <1>3, <2>1 DEF IsOpen, Open
  <2>2. CASE Report \/ Settle
    <3>1. PICK ts, final : SetState(r, ts, final)
      BY <1>1, <2>2 DEF Report, Settle
    <3>2. OnlyRow(r) /\ Identified(r) /\ UNCHANGED job
      BY <1>3, <3>1, ControlParts, RowOps
    <3>. QED  BY <1>3, <3>2 DEF OnlyRow, Identified, IsOpen, Open
  <2>3. CASE Account \/ SettleJob
    <3>1. PICK js \in {"running"} \cup Ended : SetJobState(r, js)
      BY <1>1, <1>3, <2>3 DEF Account, SettleJob
    <3>2. OnlyRow(r) /\ job'[r].state = js /\ UNCHANGED transcript
      BY <1>3, <3>1, ControlParts, RowOps
    <3>. QED  BY <1>3, <3>1, <3>2 DEF OnlyRow, Ended
  <2>. QED  BY <2>1, <2>2, <2>3 DEF Transcribe, Retry, Emit, EngineFails, WorkerError,
                                    store, AppendSegment
<1>8. \A j \in Id \ {r} : od'[j] = od[j]
  <2>1. od' = od \/ od' = [od EXCEPT ![r] = NoOd]
    BY <1>1 DEF Transcribe, Retry, Emit, Account, Report, Settle, SettleJob, EngineFails,
               WorkerError
  <2>. QED  BY <2>1, ControlParts DEF JobTypes
<1>9. \A j \in Id \ {r} : Out(j) = <<>> /\ Out(j)' = <<>>
  BY <1>1, <1>5 DEF Out
<1>10. \A j \in Id \ {r} : Untouched(j)
  <2>1. CASE Transcribe \/ Emit
    BY <1>1, <2>1, TranscribeSpeaks, EmitSpeaks DEF Adds, Keeps, Elsewhere
  <2>4. CASE Retry
    BY <1>1, <2>4, RetrySpeaks DEF Keeps, Elsewhere
  <2>2. CASE Account \/ Report \/ Settle \/ SettleJob \/ EngineFails
    BY <2>2 DEF Account, Report, Settle, SettleJob, EngineFails, SetJobState, UpdateJob,
                SetState, store, past, Untouched
  <2>3. CASE WorkerError
    <3>1. heard' = heard \/ \E H : heard' = [heard EXCEPT ![r] = H]
      <4>1. PICK H : H = {c \in heard[r] : \A d \in ToSet(wk.out) : c # d /\ ~CopyOf(c, d)}
        OBVIOUS
      <4>. QED  BY <1>1, <2>3, <4>1 DEF WorkerError
    <3>2. \A j \in Id \ {r} : heard'[j] = heard[j]
      BY <3>1 DEF SpeechHolds, SpeechTypes
    <3>. QED  BY <2>3, <3>2 DEF WorkerError, store, Untouched
  <2>. QED  BY <2>1, <2>2, <2>3, <2>4
<1>11. \A j \in Id \ {r} : Untouched(j) /\ SameRow(j) /\ Out(j)' = Out(j)
  BY <1>7, <1>8, <1>9, <1>10 DEF SameRow
<1>. QED  BY <1>2, <1>3, <1>4, <1>6, <1>7, <1>11, LiveMoves

LEMMA FinaliseReads ==
  ASSUME Control, SpeechHolds, ReadsHold, Recorded, Finalise
  PROVE  ReadsHold'
<1>1. PICK s, i : s = wk.session /\ i = live[s].id
  OBVIOUS
<1>2. /\ wk.pc = "finalise" /\ UNCHANGED <<past, od, jobQ, request, crashes, errors>>
      /\ \/ wk' = Idle /\ UNCHANGED <<store, track>>
         \/ /\ Listed(s) /\ SetJobState(i, "finalising") /\ UNCHANGED track
            /\ wk' = [wk EXCEPT !.pc = "report", !.id = i]
         \/ Listed(s) /\ FlushThenSettle(wk, i) /\ UNCHANGED store
  BY <1>1 DEF Finalise, At
<1>3. Up /\ UNCHANGED boot /\ Shaped(wk) /\ Speaks(wk)
  BY WorksUp, ControlParts DEF WorkerStep, SpeechHolds, SpeechTypes
<1>4. /\ s \in Session /\ s # NoSession
      /\ Listed(s) => i \in Id /\ IsOpen(i) /\ transcript[i].mode = "live"
  BY <1>1, <1>2, <1>3, ControlParts DEF WorkHolds, LiveHolds, LiveOf, Shaped
<1>5. CASE wk' = Idle /\ UNCHANGED <<store, track>>
  BY <1>2, <1>3, <1>5, RestIs, SilentReads
<1>6. CASE /\ Listed(s) /\ SetJobState(i, "finalising") /\ UNCHANGED track
           /\ wk' = [wk EXCEPT !.pc = "report", !.id = i]
  <2>1. wk'.pc = "report" /\ wk'.session = s
    BY <1>1, <1>3, <1>6 DEF Shaped
  <2>2. OnlyRow(i) /\ job'[i].state = "finalising" /\ UNCHANGED <<transcript, segment>>
    BY <1>4, <1>6, ControlParts, RowOps DEF SetJobState, UpdateJob
  <2>3. \A j \in Id : ~Working(j)'
    BY <1>4, <2>1 DEF Working
  <2>4. \A j \in Id \ {i} : Untouched(j) /\ SameRow(j) /\ Out(j)' = Out(j)
    BY <1>2, <1>6, <2>1, <2>2 DEF Untouched, SameRow, OnlyRow, past, Out
  <2>. QED  BY <1>2, <1>3, <1>4, <1>6, <2>2, <2>3, <2>4, LiveMoves
<1>7. CASE Listed(s) /\ FlushThenSettle(wk, i) /\ UNCHANGED store
  <2>1. /\ UNCHANGED <<segment, transcript, job>> /\ i \in Id /\ IsOpen(i) /\ IsOpen(i)'
        /\ \A j \in Id : job'[j].state = job[j].state
    BY <1>4, <1>7 DEF store, IsOpen
  <2>2. Keeps(i)
    BY <1>2, <1>3, <1>7, <2>1, FlushSpeaks
  <2>3. wk'.session = s
    <3>1. PICK w, o : w = [wk EXCEPT !.id = i] /\ wk' = EmitThen(w, o, "settle")
      BY <1>7 DEF FlushThenSettle
    <3>2. Shaped(w) /\ w.session = s
      <4>1. i \in 0..Transcripts
        BY <2>1 DEF Id
      <4>2. Shaped([wk EXCEPT !.id = i])
        BY <1>3, <4>1 DEF Shaped
      <4>. QED  BY <1>1, <1>3, <3>1, <4>2 DEF Shaped
    <3>3. EmitThen(w, o, "settle").session = s
      BY <3>2, EmitThenIs DEF WorkerPc
    <3>. QED  BY <3>1, <3>3
  <2>4. \A j \in Id : ~Working(j)'
    BY <1>4, <2>3 DEF Working
  <2>5. \A j \in Id \ {i} : Untouched(j) /\ SameRow(j) /\ Out(j)' = Out(j)
    BY <1>2, <2>1, <2>2 DEF Keeps, Elsewhere, SameRow
  <2>6. transcript'[i].mode = "live" /\ job'[i].state # "absent"
    BY <1>4, <1>7, <2>1 DEF IsOpen, Open
  <2>. QED  BY <1>2, <1>3, <2>1, <2>4, <2>5, <2>6, LiveMoves
<1>. QED  BY <1>2, <1>5, <1>6, <1>7

\* The process dies: no job is read, asked for or queued.
LEMMA CrashReads ==
  ASSUME Control, ReadsHold, Recorded, Crash
  PROVE  ReadsHold'
<1>1. /\ UNCHANGED <<store, past>> /\ track' = [i \in Id |-> NoTrack] /\ wk' = Idle
      /\ boot' = Boot("scan") /\ jobQ' = <<>> /\ od' = [i \in Id |-> NoOd]
      /\ request' = [r \in Request |-> IF request[r].pc = "new" THEN request[r]
                                       ELSE [request[r] EXCEPT !.pc = "done"]]
  BY DEF Crash
<1>2. ~Up' /\ boot'.pc = "scan"
  BY <1>1 DEF Boot, Up
<1>3. \A q \in Request : request'[q].pc # "created"
  BY <1>1, ControlParts DEF JobTypes
<1>4. \A i : ~Queued(i)' /\ ~Asked(i)' /\ ~Working(i)'
  <2>1. DOMAIN jobQ' = {}
    BY <1>1
  <2>2. wk'.pc = "idle"
    BY <1>1, RestIs
  <2>. QED  BY <1>3, <2>1, <2>2 DEF Queued, Asked, Working
<1>5. OneHolder'
  BY <1>1, <1>3, <1>4 DEF OneHolder
<1>6. ASSUME NEW i \in Id
      PROVE  ReadRow(i)'
  <2>1. ReadRow(i) /\ ~InService(i)' /\ od'[i] = NoOd
    BY <1>1, <1>2 DEF ReadsHold, InService
  <2>2. ASSUME OnDemand(i)'
        PROVE  /\ status'[transcript'[i].session] = "finished"
               /\ Settled(i)' => Complete(i)' /\ AsHeard(ToSet(segment[i]))'
    <3>1. OnDemand(i)
      BY <1>1, <2>2 DEF store, OnDemand, Exists
    <3>2. status'[transcript'[i].session] = "finished" /\ OfDisk(i)' = OfDisk(i)
      BY <1>1, <2>1, <3>1, SameDisk DEF ReadRow, store
    <3>. QED  BY <1>1, <2>1, <3>1, <3>2 DEF ReadRow, Settled, Complete, store, past
  <2>. QED  BY <2>1, <2>2 DEF ReadRow
<1>. QED  BY <1>5, <1>6 DEF ReadsHold

\* The next process reconciles.
LEMMA BootReads ==
  ASSUME Control, SpeechHolds, ReadsHold, Recorded, BootStep
  PROVE  ReadsHold'
<1>1. /\ UNCHANGED <<track, wk, od, request>> /\ ~Up /\ wk.pc = "idle" /\ wk'.pc = "idle"
      /\ jobQ = <<>> /\ boot.pc \in {"scan", "next", "job", "queue"}
      /\ \A q \in Request : request'[q].pc # "created"
  <2>1. /\ UNCHANGED <<track, wk, od, request>>
        /\ boot.pc \in {"scan", "next", "job", "queue"}
    BY DEF BootStep, BootScan, ReconcileLive, ReconcileLiveJob, ReconcileOnDemand,
           ReconcileOnDemandJob, Requeue, memory
  <2>. QED  BY <2>1, ControlParts DEF BootHolds, Idle, Up
<1>2. \A i \in Id : /\ Row(i) /\ ReadRow(i) /\ od'[i] = NoOd /\ Out(i) = <<>> /\ Out(i)' = <<>>
                    /\ track'[i] = NoTrack /\ ~Working(i)' /\ ~Asked(i)'
  <2>1. \A i \in Id : Row(i) /\ ReadRow(i)
    BY DEF SpeechHolds, ReadsHold
  <2>2. \A i \in Id : Out(i) = <<>> /\ Out(i)' = <<>> /\ ~Working(i)' /\ ~Asked(i)'
    BY <1>1 DEF Out, Working, Asked
  <2>. QED  BY <1>1, <2>1, <2>2 DEF Row, ReadRow
<1>3. \A i \in boot.todo : i \in Id /\ (boot.pc # "scan" => IsOpen(i) /\ ~InService(i))
  BY <1>1, ControlParts DEF BootHolds, BootTypes, InService
<1>4. UNCHANGED jobQ => OneHolder' /\ \A i \in Id : ~Queued(i)'
  <2>1. ASSUME UNCHANGED jobQ
        PROVE  OneHolder' /\ \A i \in Id : ~Queued(i)'
    <3>1. DOMAIN jobQ' = {}
      BY <1>1, <2>1
    <3>. QED  BY <1>1, <1>2, <3>1 DEF OneHolder, Queued
  <2>. QED  BY <2>1
\* A row that nobody writes, in service only if it was.
<1>5. ASSUME NEW i \in Id, Untouched(i), transcript'[i].session = transcript[i].session,
             OnDemand(i)' => SameRow(i), ~Queued(i)', InService(i)' => InService(i)
      PROVE  ReadRow(i)'
  <2>1. CASE OnDemand(i)'
    <3>1. Apart(i)
      BY <1>1, <1>2, <1>5, <2>1 DEF Apart, Handed
    <3>. QED  BY <1>2, <3>1, RowStays
  <2>2. CASE ~OnDemand(i)'
    BY <1>2, <2>2 DEF ReadRow
  <2>. QED  BY <2>1, <2>2
<1>6. CASE BootScan
  <2>1. UNCHANGED <<store, past, jobQ>> /\ boot'.pc = "next" /\ boot'.todo = OpenJobs
    BY <1>6 DEF BootScan, Boot, memory
  <2>2. \A i \in Id : Untouched(i) /\ SameRow(i)
    BY <1>1, <2>1 DEF Untouched, SameRow, store, past
  <2>3. \A i \in Id : ~InService(i)'
    BY <2>1, <2>2 DEF InService, IsOpen, OpenJobs, Up, SameRow
  <2>4. \A i \in Id : ReadRow(i)'
    BY <1>4, <1>5, <2>1, <2>2, <2>3 DEF SameRow
  <2>. QED  BY <1>4, <2>1, <2>4 DEF ReadsHold
<1>7. CASE ReconcileLive
  <2>1. PICK i \in boot.todo : /\ SetState(i, "interrupted_live", FALSE)
                               /\ transcript[i].mode = "live"
                               /\ boot' = [boot EXCEPT !.pc = "job", !.id = i]
    BY <1>7 DEF ReconcileLive
  <2>2. /\ UNCHANGED <<segment, job, past, jobQ>> /\ boot.pc = "next"
        /\ boot'.pc = "job" /\ boot'.todo = boot.todo
    BY <1>7, <2>1, ControlParts DEF ReconcileLive, SetState, BootTypes, memory
  <2>3. OnlyRow(i) /\ Identified(i) /\ i \in Id
    BY <1>3, <2>1, ControlParts, RowOps
  <2>4. \A j \in Id : /\ Untouched(j) /\ transcript'[j].session = transcript[j].session
                      /\ OnDemand(j)' => SameRow(j)
    BY <1>1, <2>1, <2>2, <2>3 DEF Untouched, past, SameRow, OnDemand, OnlyRow, Identified
  <2>5. \A j \in Id : InService(j)' => InService(j)
    BY <2>2 DEF InService, IsOpen, Up
  <2>6. \A j \in Id : ReadRow(j)'
    BY <1>4, <1>5, <2>2, <2>4, <2>5
  <2>. QED  BY <1>4, <2>2, <2>6 DEF ReadsHold
<1>8. CASE ReconcileLiveJob
  <2>1. PICK i : i = boot.id
    OBVIOUS
  <2>2. /\ SetJobState(i, "failed") /\ UNCHANGED <<segment, past, jobQ>> /\ boot.pc = "job"
        /\ boot'.pc = "next" /\ boot'.todo = boot.todo \ {i}
    BY <1>8, <2>1, ControlParts DEF ReconcileLiveJob, BootTypes, SetJobState, UpdateJob, memory
  <2>3. i \in boot.todo /\ i \in Id /\ transcript[i].mode = "live"
    BY <1>3, <2>1, <2>2, ControlParts DEF BootHolds
  <2>4. OnlyRow(i) /\ job'[i].state = "failed" /\ UNCHANGED transcript
    BY <2>2, <2>3, ControlParts, RowOps
  <2>5. \A j \in Id : /\ Untouched(j) /\ transcript'[j].session = transcript[j].session
                      /\ OnDemand(j)' => SameRow(j)
    BY <1>1, <2>2, <2>3, <2>4 DEF Untouched, past, SameRow, OnDemand, OnlyRow
  <2>6. \A j \in Id : j # i => (InService(j)' => InService(j))
    BY <2>2, <2>4 DEF InService, IsOpen, Up, OnlyRow
  <2>7. \A j \in Id : InService(j)' => InService(j)
    BY <2>4, <2>6 DEF InService, IsOpen, Open
  <2>8. \A j \in Id : ReadRow(j)'
    BY <1>4, <1>5, <2>2, <2>5, <2>7
  <2>. QED  BY <1>4, <2>2, <2>8 DEF ReadsHold
<1>9. CASE ReconcileOnDemand
  <2>1. PICK i \in boot.todo :
          /\ DeleteSegments(i) /\ boot' = [boot EXCEPT !.pc = "queue", !.id = i]
          /\ read' = [read EXCEPT ![i] = {}] /\ heard' = [heard EXCEPT ![i] = {}]
          /\ again' = [again EXCEPT ![i] = {}]
    BY <1>9 DEF ReconcileOnDemand
  <2>2. /\ boot.pc = "next" /\ boot'.pc = "queue" /\ boot'.todo = boot.todo
        /\ UNCHANGED <<transcript, job, jobQ>>
    BY <1>9, <2>1, ControlParts DEF ReconcileOnDemand, BootTypes, DeleteSegments, memory
  <2>3. i \in Id /\ IsOpen(i)
    BY <1>3, <2>1, <2>2
  <2>4. \A j \in Id : SameRow(j) /\ (j # i => Untouched(j))
    BY <1>1, <2>1, <2>2, <2>3 DEF Untouched, SameRow, DeleteSegments, SpeechHolds, SpeechTypes
  <2>5. \A j \in Id : InService(j)' => InService(j)
    BY <2>2 DEF InService, IsOpen, Up
  <2>6. \A j \in Id : j # i => ReadRow(j)'
    BY <1>4, <1>5, <2>2, <2>4, <2>5 DEF SameRow
  <2>7. ReadRow(i)'
    <3>1. ~InService(i)' /\ ~Settled(i)'
      BY <2>1, <2>2, <2>3 DEF InService, Up, Settled, IsOpen, Open
    <3>2. OnDemand(i)' => status'[transcript'[i].session] = "finished"
      BY <1>2, <2>3, <2>4, SameDisk DEF ReadRow, SameRow, OnDemand, Exists
    <3>. QED  BY <1>2, <2>3, <3>1, <3>2 DEF ReadRow
  <2>. QED  BY <1>4, <2>2, <2>6, <2>7 DEF ReadsHold
\* A job whose transcript is empty is in service from now on.
<1>10. ASSUME NEW i \in Id, Untouched(i), Fresh(i), transcript'[i] = transcript[i], IsOpen(i)'
       PROVE  ReadRow(i)'
  <2>1. Fresh(i)' /\ ~od'[i].listed
    BY <1>2, <1>10 DEF Fresh, Untouched, NoOd
  <2>2. Tracked(i)' /\ JobRow(i)'
    BY <1>2, <2>1, FreshRow
  <2>3. OnDemand(i)' => status'[transcript'[i].session] = "finished"
    BY <1>2, <1>10, SameDisk DEF ReadRow, OnDemand, Exists
  <2>4. ~Settled(i)'
    BY <1>10 DEF Settled, IsOpen, Open
  <2>. QED  BY <1>2, <2>2, <2>3, <2>4 DEF ReadRow
<1>11. CASE ReconcileOnDemandJob
  <2>1. PICK i, j : i = boot.id /\ j = [job[i] EXCEPT !.state = "queued", !.progress = 0]
    OBVIOUS
  <2>2. /\ UpdateJob(i, j) /\ UNCHANGED <<segment, past, jobQ>> /\ boot.pc = "queue"
        /\ boot'.pc = "next" /\ boot'.todo = boot.todo \ {i}
    BY <1>11, <2>1, ControlParts DEF ReconcileOnDemandJob, BootTypes, UpdateJob, memory
  <2>3. i \in boot.todo /\ i \in Id
    BY <1>3, <2>1, <2>2, ControlParts DEF BootHolds
  <2>4. OnlyRow(i) /\ job'[i].state = "queued" /\ UNCHANGED transcript
    <3>1. job[i] \in [state : JobState, progress : Nat, total : Nat]
      BY <2>3, ControlParts DEF TableTypes
    <3>2. j.state = "queued"
      BY <2>1, <3>1
    <3>. QED  BY <2>2, <2>3, <3>2, ControlParts, RowOps
  <2>5. \A k \in Id : Untouched(k)
    BY <1>1, <2>2 DEF Untouched, past
  <2>6. \A k \in Id : k # i => SameRow(k) /\ (InService(k)' => InService(k))
    BY <1>1, <2>2, <2>4 DEF InService, IsOpen, Up, OnlyRow, SameRow
  <2>7. \A k \in Id : k # i => ReadRow(k)'
    BY <1>4, <1>5, <2>2, <2>5, <2>6 DEF SameRow
  <2>8. ReadRow(i)'
    <3>1. Fresh(i)
      BY <1>2, <2>1, <2>2, <2>3 DEF Row
    <3>. QED  BY <1>10, <2>3, <2>4, <2>5, <3>1 DEF IsOpen, Open
  <2>. QED  BY <1>4, <2>2, <2>7, <2>8 DEF ReadsHold
<1>12. CASE Requeue
  <2>1. /\ UNCHANGED <<store, past>> /\ jobQ' = SetToSeq(NextQueued)
        /\ boot.pc = "next" /\ boot.todo = {}
    BY <1>12 DEF Requeue
  <2>2. \A i \in Id : Untouched(i) /\ SameRow(i)
    BY <1>1, <2>1 DEF Untouched, SameRow, store, past
  <2>3. OneHolder'
    <3>1. \A m, n \in DOMAIN jobQ' : m # n => jobQ'[m] # jobQ'[n]
      BY <2>1, RequeueIs
    <3>. QED  BY <1>1, <1>2, <3>1 DEF OneHolder
  <2>4. ASSUME NEW i \in Id
        PROVE  ReadRow(i)'
    <3>1. InService(i)' <=> InService(i)
      BY <1>12, <2>1, <2>2 DEF InService, IsOpen, SameRow, Requeue, Boot, Up
    <3>2. CASE ~InService(i)
      BY <1>1, <1>2, <2>2, <3>1, <3>2, RestingRow
    <3>3. CASE ~OnDemand(i)
      BY <1>2, <2>2, <3>3 DEF ReadRow, OnDemand, Exists, SameRow
    <3>4. CASE InService(i) /\ OnDemand(i)
      <4>1. od[i] = NoOd /\ JobRow(i)
        BY <1>1, <1>2, <3>4 DEF ReadRow
      <4>2. Fresh(i)
        BY <1>1, <4>1 DEF JobRow, NoOd
      <4>. QED  BY <1>10, <2>2, <3>1, <3>4, <4>2 DEF SameRow, InService
    <3>. QED  BY <3>2, <3>3, <3>4
  <2>. QED  BY <2>3, <2>4 DEF ReadsHold
<1>. QED  BY <1>6, <1>7, <1>8, <1>9, <1>11, <1>12 DEF BootStep

-----------------------------------------------------------------------------
(***************************************************************************)
(* The worker on a job.                                                    *)
(***************************************************************************)
LEMMA WorkedRow ==
  ASSUME Control, ReadsHold, Up, NEW r, r = wk.id, wk.session = NoSession,
         wk.pc \notin {"idle", "finalise"}
  PROVE  /\ r \in Id /\ IsOpen(r) /\ OnDemand(r) /\ Working(r) /\ ~Queued(r) /\ ~Asked(r)
         /\ ReadRow(r) /\ Tracked(r) /\ JobRow(r) /\ Shaped(wk)
         /\ wk.pc \in {"transcribe", "retry", "emit", "advance", "settle", "job"}
         /\ wk.pc = "emit" => wk.next \in {"retry", "advance", "settle"}
<1>1. /\ r \in Id /\ IsOpen(r) /\ OnDemand(r) /\ Shaped(wk)
      /\ wk.pc \in {"transcribe", "retry", "emit", "advance", "settle", "job"}
      /\ wk.pc = "emit" => wk.next \in {"retry", "advance", "settle"}
  BY ControlParts DEF WorkHolds, Shaped, WorkerPc
<1>2. Working(r)
  BY DEF Working
<1>3. ~Queued(r) /\ ~Asked(r) /\ ReadRow(r)
  BY <1>1, <1>2 DEF ReadsHold, OneHolder
<1>4. Tracked(r) /\ JobRow(r)
  BY <1>1, <1>3 DEF ReadRow, InService
<1>. QED  BY <1>1, <1>2, <1>3, <1>4

\* The jobs of the others stay where they are.
LEMMA JobMoves ==
  ASSUME Control, ReadsHold, Recorded, Up, UNCHANGED <<boot, request>>, OneHolder', NEW r \in Id,
         \A j \in Id \ {r} : /\ Untouched(j) /\ Out(j)' = Out(j) /\ SameRow(j)
                             /\ (Queued(j)' => Queued(j)) /\ ~Working(j)',
         ReadRow(r)'
  PROVE  ReadsHold'
<1>1. \A j : Asked(j)' => Asked(j)
  BY DEF Asked
<1>2. \A j \in Id \ {r} : Handed(j)
  BY <1>1 DEF Handed
<1>3. \A j \in Id \ {r} : Apart(j)
  BY <1>2, ApartUp
<1>. QED  BY <1>3, OthersStay

\* The disk that a job reads.
LEMMA DiskType ==
  ASSUME Control, NEW i \in Id, OnDemand(i)
  PROVE  OfDisk(i) \in [Kind -> Nat] /\ Total(OfDisk(i)) \in Nat
<1>1. PICK s : s = transcript[i].session /\ s \in Session
  BY ControlParts DEF TablesHold, OnDemand
<1>2. \A k \in Kind : <<s, k>> \in Source /\ onDisk[<<s, k>>] \in Nat
  BY <1>1, ControlParts DEF FeedTypeOK, Source
<1>3. OfDisk(i) \in [Kind -> Nat]
  BY <1>1, <1>2 DEF OfDisk
<1>. QED  BY <1>3, TotalType

LEMMA ServedRow ==
  ASSUME Control, Recorded, Up, UNCHANGED boot, NEW r \in Id, OnDemand(r), ReadRow(r), IsOpen(r)',
         transcript'[r].session = transcript[r].session,
         OfDisk(r)' = OfDisk(r) => Tracked(r)' /\ JobRow(r)'
  PROVE  ReadRow(r)'
<1>1. status'[transcript'[r].session] = "finished" /\ OfDisk(r)' = OfDisk(r)
  BY SameDisk DEF ReadRow
<1>2. ~Settled(r)' /\ Up' /\ job'[r].state # "absent"
  BY DEF Settled, IsOpen, Open, Up
<1>. QED  BY <1>1, <1>2 DEF ReadRow

\* What is kept of a transcript is as it was read.
LEMMA TrackedStays ==
  ASSUME NEW i, Keeps(i), read'[i] = read[i], Tracked(i)
  PROVE  Tracked(i)'
BY DEF Tracked, Keeps, AsHeard

LEMMA TranscribeReads ==
  ASSUME Control, SpeechHolds, ReadsHold, Recorded, Transcribe, wk.session = NoSession
  PROVE  ReadsHold'
<1>1. PICK r, k, u, inv, n : /\ r = wk.id /\ k = wk.kind /\ u = track[r] /\ inv = OfDisk(r)
                             /\ n = od[r].idx
  OBVIOUS
<1>2. Up /\ UNCHANGED <<store, boot, od, jobQ, request>> /\ wk.pc = "transcribe"
  <2>1. Up /\ UNCHANGED boot
    BY WorksUp DEF WorkerStep
  <2>. QED  BY <2>1 DEF Transcribe, At
<1>3. /\ r \in Id /\ IsOpen(r) /\ OnDemand(r) /\ Working(r) /\ ~Queued(r) /\ ~Asked(r)
      /\ ReadRow(r) /\ Tracked(r) /\ JobRow(r)
  BY <1>1, <1>2, WorkedRow
<1>4. k \in Kind /\ wk.chunk \in Nat /\ u.done \in [Kind -> Nat] /\ u.tail \in [Kind -> Overlap]
      /\ n \in Nat /\ track' \in [Id -> TrackType]
  <2>1. SpeechHolds'
    BY TranscribeSpeaks
  <2>. QED  BY <1>1, <1>3, <2>1, ControlParts
            DEF SpeechHolds, SpeechTypes, Speaks, TrackType, JobTypes
<1>5. /\ Gathered(r)' \subseteq Gathered(r) \cup Latest(r, k)
      /\ \A j \in Kind : IF j = k
           THEN track'[r].done[j] = u.done[j] + 1 /\ track'[r].tail[j].chunk = wk.chunk
           ELSE track'[r].done[j] = u.done[j] /\ track'[r].tail[j] = u.tail[j]
      /\ read'[r] = read[r] \cup {<<k, wk.chunk>>}
      /\ Elsewhere(r) /\ wk'.id = r
      /\ wk'.pc \in {"retry", "advance"} \/ (wk'.pc = "emit" /\ wk'.next \in {"retry", "advance"})
  <2>1. Adds(r, k) /\ AfterChunk = "advance"
    BY <1>1, TranscribeSpeaks DEF AfterChunk, IsLive
  <2>. QED  BY <1>1, <2>1 DEF Adds
<1>6. /\ ReadTo(r, n) /\ n < Total(inv) /\ <<k, wk.chunk>> = ChunkAt(inv, n)
      /\ read[r] = Inventory(u.done)
  BY <1>1, <1>2, <1>3 DEF JobRow, Reading, Tracked
<1>7. inv \in [Kind -> Nat] /\ Total(inv) \in Nat
  BY <1>1, <1>3, DiskType
<1>8. u.done[k] = wk.chunk
  <2>1. First(inv, n) = Inventory(u.done)
    BY <1>1, <1>6 DEF ReadTo
  <2>. QED  BY <1>4, <1>6, <1>7, <2>1, NextChunk
<1>9. Tracked(r)'
  <2>1. AsHeard(Latest(r, k))
    <3>1. SUFFICES ASSUME NEW x \in Latest(r, k)
                   PROVE  x.at = x.chunk
      BY DEF AsHeard
    <3>2. x.at \in Nat /\ x.chunk \in Nat
      BY DEF Latest, Speech
    <3>3. u.tail[k].how # "nothing" => u.tail[k].chunk + 1 = u.done[k]
      BY <1>1, <1>3, <1>4 DEF Tracked
    <3>4. u.tail[k].chunk \in Nat /\ u.done[k] \in Nat
      BY <1>4 DEF Overlap
    <3>. QED  BY <1>1, <1>8, <3>2, <3>3, <3>4 DEF Latest
  <2>2. AsHeard(Gathered(r)')
    BY <1>3, <1>5, <2>1 DEF Tracked, AsHeard
  <2>3. read'[r] = Inventory(track'[r].done)
    <3>1. track'[r].done \in [Kind -> Nat]
      BY <1>3, <1>4 DEF TrackType
    <3>2. Inventory(track'[r].done) = Inventory(u.done) \cup {<<k, u.done[k]>>}
      BY <1>4, <1>5, <3>1, InventoryGrows
    <3>. QED  BY <1>5, <1>6, <1>8, <3>2
  <2>4. ASSUME NEW j \in Kind, track'[r].tail[j].how # "nothing"
        PROVE  track'[r].tail[j].chunk + 1 = track'[r].done[j]
    BY <1>1, <1>3, <1>5, <1>8, <2>4 DEF Tracked
  <2>. QED  BY <2>2, <2>3, <2>4 DEF Tracked
<1>10. ASSUME OfDisk(r)' = OfDisk(r)
       PROVE  JobRow(r)'
  <2>1. ~Queued(r)' /\ ~Asked(r)' /\ ~Reading(r)' /\ ~Completing(r)' /\ Up'
    BY <1>2, <1>3, <1>5 DEF Queued, Asked, Reading, Completing, Closing, At, Up
  <2>2. First(inv, n + 1) = First(inv, n) \cup {<<k, wk.chunk>>}
    BY <1>4, <1>6, <1>7, FirstIs
  <2>3. read'[r] = First(inv, n + 1) /\ n + 1 <= Total(inv)
    BY <1>1, <1>4, <1>5, <1>6, <1>7, <2>2 DEF ReadTo
  <2>4. od'[r] = od[r] /\ job'[r] = job[r]
    BY <1>2 DEF store
  <2>5. ReadTo(r, n + 1)'
    BY <1>1, <1>6, <1>10, <2>3, <2>4 DEF ReadTo
  <2>. QED  BY <1>1, <1>3, <1>10, <2>1, <2>4, <2>5 DEF JobRow
<1>11. ReadRow(r)'
  <2>1. IsOpen(r)' /\ transcript'[r] = transcript[r]
    BY <1>2, <1>3 DEF IsOpen, store
  <2>. QED  BY <1>2, <1>3, <1>9, <1>10, <2>1, ServedRow
<1>12. \A j \in Id \ {r} : ~Working(j)'
  BY <1>5 DEF Working
<1>13. OneHolder' /\ \A j : (Queued(j)' => Queued(j)) /\ (Asked(j)' => Asked(j))
  BY <1>2, <1>3, <1>12, HoldersStay DEF ReadsHold
<1>14. \A j \in Id \ {r} : Untouched(j) /\ Out(j)' = Out(j) /\ SameRow(j)
  BY <1>2, <1>5 DEF Elsewhere, SameRow, store
<1>. QED  BY <1>2, <1>3, <1>11, <1>12, <1>13, <1>14, JobMoves

LEMMA EmitReads ==
  ASSUME Control, SpeechHolds, ReadsHold, Recorded, Retry \/ Emit, wk.session = NoSession
  PROVE  ReadsHold'
<1>1. PICK r : r = wk.id
  OBVIOUS
<1>2. /\ Up /\ UNCHANGED <<transcript, job, past, boot, od, jobQ, request>>
      /\ wk.pc \in {"retry", "emit"}
  <2>1. Up /\ UNCHANGED boot
    BY WorksUp DEF WorkerStep
  <2>. QED  BY <2>1 DEF Retry, Emit, At, AppendSegment, store
<1>3. /\ r \in Id /\ IsOpen(r) /\ OnDemand(r) /\ Working(r) /\ ~Queued(r) /\ ~Asked(r)
      /\ ReadRow(r) /\ Tracked(r) /\ JobRow(r) /\ Shaped(wk)
      /\ wk.pc = "emit" => wk.next \in {"retry", "advance", "settle"}
  BY <1>1, <1>2, WorkedRow
<1>4. Keeps(r)
  BY <1>1, EmitSpeaks, RetrySpeaks
<1>5. /\ wk'.id = r /\ ~Reading(r)'
      /\ (Passing(r)' => Passing(r)) /\ (Completing(r)' => Completing(r))
  <2>1. CASE Emit
    <3>1. PICK e : e = EmitThen(wk, Tail(wk.out), wk.next) /\ wk' = e
      BY <2>1 DEF Emit
    <3>2. wk.pc = "emit"
      BY <2>1 DEF Emit, At
    <3>3. /\ e.pc = wk.next \/ e.pc = "emit"
          /\ e.id = r /\ e.next = wk.next /\ e.verdict = wk.verdict
      BY <1>1, <1>3, <3>1, <3>2, EmitThenIs DEF WorkerPc
    <3>. QED  BY <1>3, <3>1, <3>2, <3>3 DEF Reading, Passing, Completing, Closing, At
  <2>2. CASE Retry
    <3>1. /\ wk'.id = r /\ wk.pc = "retry"
          /\ wk'.pc = "advance" \/ (wk'.pc = "emit" /\ wk'.next = "advance")
      BY <1>1, <2>2, RetrySpeaks DEF AfterChunk, IsLive, Retry, At
    <3>. QED  BY <1>3, <3>1 DEF Reading, Passing, Completing, Closing, At
  <2>. QED  BY <2>1, <2>2
<1>6. Tracked(r)'
  BY <1>2, <1>3, <1>4, TrackedStays DEF past
<1>7. ASSUME OfDisk(r)' = OfDisk(r)
      PROVE  JobRow(r)'
  <2>1. ~Queued(r)' /\ ~Asked(r)' /\ ~Reading(r)' /\ Up'
    BY <1>2, <1>3, <1>5 DEF Queued, Asked, Up
  <2>2. (Passing(r)' => Passing(r)) /\ (Completing(r)' => Completing(r))
    BY <1>5
  <2>3. Passing(r)' => ReadTo(r, od[r].idx + 1)'
    BY <1>2, <1>3, <1>7, <2>2 DEF JobRow, ReadTo, past
  <2>4. Completing(r)' => Complete(r)'
    BY <1>2, <1>3, <1>7, <2>2 DEF JobRow, Complete, past
  <2>. QED  BY <1>2, <1>3, <1>7, <2>1, <2>3, <2>4 DEF JobRow
<1>8. ReadRow(r)'
  <2>1. IsOpen(r)' /\ transcript'[r] = transcript[r]
    BY <1>2, <1>3 DEF IsOpen
  <2>. QED  BY <1>2, <1>3, <1>6, <1>7, <2>1, ServedRow
<1>9. \A j \in Id \ {r} : ~Working(j)'
  BY <1>5 DEF Working
<1>10. OneHolder' /\ \A j : (Queued(j)' => Queued(j)) /\ (Asked(j)' => Asked(j))
  BY <1>2, <1>3, <1>9, HoldersStay DEF ReadsHold
<1>11. \A j \in Id \ {r} : Untouched(j) /\ Out(j)' = Out(j) /\ SameRow(j)
  BY <1>2, <1>4 DEF Keeps, Elsewhere, SameRow
<1>. QED  BY <1>2, <1>3, <1>8, <1>9, <1>10, <1>11, JobMoves

\* Another item of the job is put on the heap.
LEMMA AdvanceReads ==
  ASSUME Control, SpeechHolds, ReadsHold, Recorded, Advance
  PROVE  ReadsHold'
<1>1. PICK r, n : r = wk.id /\ n = od[r].idx
  OBVIOUS
<1>2. /\ Up /\ UNCHANGED <<segment, transcript, track, past, boot, request>> /\ wk.pc = "advance"
      /\ wk.session = NoSession /\ wk' = Idle /\ jobQ' = Append(jobQ, r)
      /\ od' = [od EXCEPT ![r].idx = @ + 1]
      /\ job' = [job EXCEPT ![r] = [job[r] EXCEPT !.progress = n + 1]]
  <2>1. Up /\ UNCHANGED boot
    BY WorksUp DEF WorkerStep
  <2>. QED  BY <1>1, <2>1, ControlParts DEF Advance, At, UpdateJob, WorkHolds
<1>3. /\ r \in Id /\ IsOpen(r) /\ OnDemand(r) /\ Working(r) /\ ~Queued(r) /\ ~Asked(r)
      /\ ReadRow(r) /\ Tracked(r) /\ JobRow(r)
  BY <1>1, <1>2, WorkedRow
<1>4. wk'.pc = "idle"
  BY <1>2, RestIs
<1>5. /\ \A j \in Id \ {r} : job'[j] = job[j] /\ od'[j] = od[j]
      /\ job'[r].state = job[r].state /\ job'[r].total = job[r].total /\ job'[r].progress = n + 1
      /\ od'[r].listed = od[r].listed /\ od'[r].inv = od[r].inv /\ od'[r].idx = n + 1
      /\ jobQ \in Seq(Id)
  <2>1. /\ job[r] \in [state : JobState, progress : Nat, total : Nat] /\ r \in DOMAIN job
        /\ od[r] \in [listed : BOOLEAN, idx : Nat, inv : [Kind -> Nat]] /\ r \in DOMAIN od
        /\ jobQ \in Seq(Id)
    BY <1>3, ControlParts DEF TableTypes, JobTypes
  <2>2. PICK j, o : j = [job[r] EXCEPT !.progress = n + 1] /\ o = [od[r] EXCEPT !.idx = n + 1]
    OBVIOUS
  <2>3. job' = [job EXCEPT ![r] = j] /\ od' = [od EXCEPT ![r] = o]
    BY <1>1, <1>2, <2>2
  <2>4. /\ j.state = job[r].state /\ j.total = job[r].total /\ j.progress = n + 1
        /\ o.listed = od[r].listed /\ o.inv = od[r].inv /\ o.idx = n + 1
    BY <2>1, <2>2
  <2>5. \A q \in Id \ {r} : job'[q] = job[q] /\ od'[q] = od[q]
    BY <2>3, ControlParts DEF TableTypes, JobTypes
  <2>. QED  BY <2>1, <2>3, <2>4, <2>5
<1>6. /\ \A m, q \in DOMAIN jobQ' : m # q => jobQ'[m] # jobQ'[q]
      /\ \A j : Queued(j)' <=> Queued(j) \/ j = r
  BY <1>2, <1>3, <1>5, QueueGrows DEF ReadsHold, OneHolder
<1>7. \A j : ~Working(j)' /\ (Asked(j)' <=> Asked(j))
  BY <1>2, <1>4 DEF Working, Asked
<1>8. OneHolder'
  <2>1. \A p, q \in Request : p # q /\ request'[p].pc = "created" /\ request'[q].pc = "created"
          => request'[p].id # request'[q].id
    BY <1>2 DEF ReadsHold, OneHolder
  <2>2. \A j \in Id : Asked(j)' => ~Queued(j)'
    BY <1>3, <1>6, <1>7 DEF ReadsHold, OneHolder
  <2>. QED  BY <1>6, <1>7, <2>1, <2>2 DEF OneHolder
<1>9. \A j \in Id : Untouched(j) /\ Out(j) = <<>> /\ Out(j)' = <<>>
  BY <1>2, <1>4 DEF Untouched, Out, past
<1>10. Tracked(r)'
  BY <1>3, <1>9 DEF Tracked, Gathered, Untouched
<1>11. ASSUME OfDisk(r)' = OfDisk(r)
       PROVE  JobRow(r)'
  <2>1. ~Asked(r)' /\ ~Reading(r)' /\ ~Passing(r)' /\ ~Completing(r)' /\ Up'
    BY <1>2, <1>3, <1>7 DEF Reading, Passing, Completing, Up
  <2>2. ReadTo(r, n + 1)
    BY <1>1, <1>2, <1>3 DEF JobRow, Passing
  <2>3. /\ od[r].listed /\ n + 1 <= Total(OfDisk(r)') /\ read'[r] = First(OfDisk(r)', n + 1)
        /\ od'[r].listed /\ job'[r].progress = od'[r].idx /\ od'[r].idx = n + 1
    BY <1>3, <1>5, <1>9, <1>11, <2>2 DEF ReadTo, Untouched
  <2>4. od[r].listed /\ ReadTo(r, od[r].idx)'
    BY <2>3 DEF ReadTo
  <2>. QED  BY <1>3, <1>5, <1>11, <2>1, <2>4 DEF JobRow
<1>12. ReadRow(r)'
  <2>1. IsOpen(r)'
    BY <1>3, <1>5 DEF IsOpen
  <2>. QED  BY <1>2, <1>3, <1>10, <1>11, <2>1, ServedRow
<1>13. \A j \in Id \ {r} : SameRow(j) /\ (Queued(j)' => Queued(j))
  BY <1>2, <1>5, <1>6 DEF SameRow
<1>. QED  BY <1>2, <1>3, <1>7, <1>8, <1>9, <1>12, <1>13, JobMoves

\* The job ends, its transcript first: what was read of it stays.
LEMMA EndsReads ==
  ASSUME Control, SpeechHolds, ReadsHold, Recorded, wk.session = NoSession, EngineFails \/ Settle
  PROVE  ReadsHold'
<1>1. PICK r : r = wk.id
  OBVIOUS
<1>2. /\ Up /\ UNCHANGED <<segment, job, track, past, boot, jobQ, request>>
      /\ od' = [od EXCEPT ![r] = NoOd]
      /\ wk.pc \notin {"idle", "finalise", "emit"}
      /\ \/ UNCHANGED transcript /\ wk' = [wk EXCEPT !.pc = "settle", !.verdict = "failed"]
         \/ /\ wk.pc = "settle" /\ wk' = [wk EXCEPT !.pc = "job"]
            /\ SetState(r, wk.verdict, wk.verdict = "completed")
  <2>1. Up /\ UNCHANGED boot
    BY WorksUp DEF WorkerStep
  <2>. QED  BY <1>1, <2>1 DEF EngineFails, Settle, At, IsLive, store, SetState
<1>3. /\ r \in Id /\ IsOpen(r) /\ OnDemand(r) /\ Working(r) /\ ~Queued(r) /\ ~Asked(r)
      /\ ReadRow(r) /\ Tracked(r) /\ JobRow(r) /\ Shaped(wk)
  BY <1>1, <1>2, WorkedRow
<1>4. /\ \A j \in Id \ {r} : transcript'[j] = transcript[j]
      /\ transcript'[r].session = transcript[r].session
  <2>1. CASE UNCHANGED transcript
    BY <2>1
  <2>2. CASE SetState(r, wk.verdict, wk.verdict = "completed")
    BY <1>3, <2>2, ControlParts, RowOps DEF OnlyRow, Identified
  <2>. QED  BY <1>2, <2>1, <2>2
<1>5. /\ wk'.id = r /\ wk'.pc \in {"settle", "job"}
      /\ wk'.verdict = "completed" => wk.pc = "settle" /\ wk.verdict = "completed"
  BY <1>1, <1>2, <1>3 DEF Shaped
<1>6. \A j \in Id : Untouched(j) /\ Out(j) = <<>> /\ Out(j)' = <<>>
  BY <1>2, <1>5 DEF Untouched, Out, past
<1>7. Tracked(r)'
  BY <1>3, <1>6 DEF Tracked, Gathered, Untouched
<1>8. ASSUME OfDisk(r)' = OfDisk(r)
      PROVE  JobRow(r)'
  <2>1. ~Queued(r)' /\ ~Asked(r)' /\ ~Reading(r)' /\ ~Passing(r)' /\ Up'
    BY <1>2, <1>3, <1>5 DEF Queued, Asked, Reading, Passing, Up
  <2>2. Completing(r)' => Completing(r)
    BY <1>3, <1>5 DEF Completing, Closing, At
  <2>3. Completing(r)' => Complete(r)'
    BY <1>2, <1>3, <1>8, <2>2 DEF JobRow, Complete, past
  <2>4. ~od'[r].listed
    BY <1>2, <1>3, ControlParts DEF JobTypes, NoOd
  <2>. QED  BY <2>1, <2>3, <2>4 DEF JobRow
<1>9. ReadRow(r)'
  <2>1. IsOpen(r)'
    BY <1>2, <1>3 DEF IsOpen
  <2>. QED  BY <1>2, <1>3, <1>4, <1>7, <1>8, <2>1, ServedRow
<1>10. \A j \in Id \ {r} : ~Working(j)'
  BY <1>5 DEF Working
<1>11. OneHolder' /\ \A j : (Queued(j)' => Queued(j)) /\ (Asked(j)' => Asked(j))
  BY <1>2, <1>3, <1>10, HoldersStay DEF ReadsHold
<1>12. \A j \in Id \ {r} : SameRow(j)
  BY <1>2, <1>4, ControlParts DEF SameRow, JobTypes
<1>. QED  BY <1>2, <1>3, <1>6, <1>9, <1>10, <1>11, <1>12, JobMoves

LEMMA SettleJobReads ==
  ASSUME Control, SpeechHolds, ReadsHold, Recorded, SettleJob, wk.session = NoSession
  PROVE  ReadsHold'
<1>1. PICK r : r = wk.id
  OBVIOUS
<1>2. /\ Up /\ UNCHANGED <<segment, transcript, track, past, boot, od, jobQ, request>>
      /\ wk.pc = "job" /\ wk' = Idle
      /\ job' = [job EXCEPT ![r] = [job[r] EXCEPT !.state = wk.verdict]]
  <2>1. Up /\ UNCHANGED boot
    BY WorksUp DEF WorkerStep
  <2>. QED  BY <1>1, <2>1 DEF SettleJob, At, SetJobState, UpdateJob
<1>3. /\ r \in Id /\ IsOpen(r) /\ OnDemand(r) /\ Working(r) /\ ReadRow(r) /\ Tracked(r)
      /\ JobRow(r) /\ wk.verdict \in Ended
  BY <1>1, <1>2, WorkedRow DEF Shaped
<1>4. wk'.pc = "idle"
  BY <1>2, RestIs
<1>5. /\ \A j \in Id \ {r} : job'[j] = job[j]
      /\ job'[r].state = wk.verdict /\ job'[r].total = job[r].total
      /\ job'[r].progress = job[r].progress
  <2>1. job[r] \in [state : JobState, progress : Nat, total : Nat] /\ r \in DOMAIN job
    BY <1>3, ControlParts DEF TableTypes
  <2>2. PICK j : j = [job[r] EXCEPT !.state = wk.verdict]
    OBVIOUS
  <2>3. job' = [job EXCEPT ![r] = j]
    BY <1>2, <2>2
  <2>4. j.state = wk.verdict /\ j.total = job[r].total /\ j.progress = job[r].progress
    BY <2>1, <2>2
  <2>5. \A q \in Id \ {r} : job'[q] = job[q]
    BY <2>3, ControlParts DEF TableTypes
  <2>. QED  BY <2>1, <2>3, <2>4, <2>5
<1>6. \A j \in Id : Untouched(j) /\ Out(j) = <<>> /\ Out(j)' = <<>> /\ ~Working(j)'
  BY <1>2, <1>4 DEF Untouched, Out, past, Working
<1>7. ReadRow(r)'
  <2>1. ~InService(r)' /\ job'[r].state # "absent" /\ Up'
    BY <1>2, <1>3, <1>5 DEF InService, IsOpen, Open, Ended, Up
  <2>2. status'[transcript'[r].session] = "finished" /\ OfDisk(r)' = OfDisk(r)
    BY <1>2, <1>3, SameDisk DEF ReadRow
  <2>3. ASSUME Settled(r)'
        PROVE  Complete(r)' /\ AsHeard(ToSet(segment[r]))'
    <3>1. Completing(r)
      BY <1>2, <1>3, <1>5, <2>3 DEF Settled, Completing, Closing
    <3>2. Complete(r)'
      BY <1>3, <1>5, <1>6, <2>2, <3>1 DEF JobRow, Complete, Untouched
    <3>3. AsHeard(ToSet(segment[r]))
      BY <1>3 DEF Tracked, Gathered, AsHeard
    <3>. QED  BY <1>2, <3>2, <3>3
  <2>. QED  BY <2>1, <2>2, <2>3 DEF ReadRow
<1>8. OneHolder' /\ \A j : (Queued(j)' => Queued(j)) /\ (Asked(j)' => Asked(j))
  BY <1>2, <1>6, HoldersStay DEF ReadsHold
<1>9. \A j \in Id \ {r} : SameRow(j)
  BY <1>2, <1>5 DEF SameRow
<1>. QED  BY <1>2, <1>3, <1>6, <1>7, <1>8, <1>9, JobMoves

\* The job is in nobody's hands then.
LEMMA WorkerErrorReads ==
  ASSUME Control, SpeechHolds, ReadsHold, Recorded, WorkerError, wk.session = NoSession
  PROVE  ReadsHold'
<1>1. PICK r : r = wk.id
  OBVIOUS
<1>2. /\ Up /\ UNCHANGED <<store, track, read, again, boot, od, jobQ, request>>
      /\ wk.pc # "idle" /\ wk' = Idle
      /\ \A j \in Id \ {r} : heard'[j] = heard[j]
  <2>1. Up /\ UNCHANGED boot
    BY WorksUp
  <2>2. heard' = heard \/ \E H : heard' = [heard EXCEPT ![r] = H]
    <3>1. PICK H : H = {c \in heard[r] : \A d \in ToSet(wk.out) : c # d /\ ~CopyOf(c, d)}
      OBVIOUS
    <3>. QED  BY <1>1, <3>1 DEF WorkerError
  <2>3. \A j \in Id \ {r} : heard'[j] = heard[j]
    BY <2>2 DEF SpeechHolds, SpeechTypes
  <2>. QED  BY <2>1, <2>3 DEF WorkerError, At
<1>3. wk.pc # "finalise"
  BY ControlParts DEF WorkHolds
<1>4. r \in Id /\ IsOpen(r) /\ OnDemand(r) /\ ReadRow(r) /\ Tracked(r) /\ JobRow(r)
      /\ ~Queued(r) /\ ~Asked(r)
  BY <1>1, <1>2, <1>3, WorkedRow
<1>5. wk'.pc = "idle"
  BY <1>2, RestIs
<1>6. /\ \A j \in Id : ~Working(j)' /\ Out(j)' = <<>> /\ SameRow(j)
      /\ \A j \in Id \ {r} : Untouched(j) /\ Out(j) = <<>>
  BY <1>1, <1>2, <1>5 DEF Untouched, Out, Working, SameRow, store
<1>7. OneHolder' /\ \A j : (Queued(j)' => Queued(j)) /\ (Asked(j)' => Asked(j))
  BY <1>2, <1>6, HoldersStay DEF ReadsHold
<1>8. Tracked(r)'
  <2>1. Gathered(r)' \subseteq Gathered(r)
    BY <1>2, <1>4, <1>6, ToSetIs DEF Gathered, store
  <2>. QED  BY <1>2, <1>4, <2>1 DEF Tracked, AsHeard
<1>9. ASSUME OfDisk(r)' = OfDisk(r)
      PROVE  JobRow(r)'
  <2>1. ~Queued(r)' /\ ~Asked(r)' /\ ~Reading(r)' /\ ~Passing(r)' /\ ~Completing(r)' /\ Up'
    BY <1>2, <1>4, <1>6, <1>7 DEF Reading, Passing, Completing, Up
  <2>. QED  BY <1>4, <1>6, <1>9, <2>1 DEF JobRow, SameRow
<1>10. ReadRow(r)'
  <2>1. IsOpen(r)' /\ transcript'[r] = transcript[r]
    BY <1>2, <1>4 DEF IsOpen, store
  <2>. QED  BY <1>2, <1>4, <1>8, <1>9, <2>1, ServedRow
<1>. QED  BY <1>2, <1>4, <1>6, <1>7, <1>10, JobMoves

\* The next step of a job that has read the chunks it counts.
LEMMA StepReads ==
  ASSUME Control, Recorded, Up, UNCHANGED <<boot, request, read>>, NEW r \in Id, OnDemand(r),
         Tracked(r), Keeps(r), NEW o, Step(r, o), ~Queued(r)', ~Asked(r),
         OfDisk(r)' = OfDisk(r), od'[r] = o, o.listed, o.inv = OfDisk(r), o.idx \in Nat,
         o.idx <= Total(OfDisk(r)), read[r] = First(OfDisk(r), o.idx),
         job'[r].progress = o.idx, job'[r].total = Total(OfDisk(r))
  PROVE  Tracked(r)' /\ JobRow(r)'
<1>1. PICK inv, n : inv = OfDisk(r) /\ n = o.idx
  OBVIOUS
<1>2. inv \in [Kind -> Nat] /\ Total(inv) \in Nat /\ n \in Nat
  BY <1>1, DiskType
<1>3. ReadTo(r, n)' /\ read'[r] = First(inv, n)
  BY <1>1 DEF ReadTo
<1>4. ~Asked(r)' /\ Up'
  BY DEF Asked, Up
<1>5. Tracked(r)'
  BY TrackedStays
<1>6. CASE n >= Total(inv)
  <2>1. FlushThenSettle(Idle, r)
    BY <1>1, <1>6 DEF Step
  <2>2. wk'.pc = "settle" \/ (wk'.pc = "emit" /\ wk'.next = "settle")
    <3>1. Shaped([Idle EXCEPT !.id = r])
      <4>1. r \in 0..Transcripts /\ "idle" \in WorkerPc /\ "completed" \in Ended
        BY WorkerAssumption DEF Id, WorkerPc, Ended
      <4>. QED  BY <4>1 DEF Shaped, Idle
    <3>2. PICK w, out : w = [Idle EXCEPT !.id = r] /\ wk' = EmitThen(w, out, "settle")
      BY <2>1 DEF FlushThenSettle
    <3>3. PICK e : e = EmitThen(w, out, "settle")
      OBVIOUS
    <3>4. e.pc = "settle" \/ (e.pc = "emit" /\ e.next = "settle")
      BY <3>1, <3>2, <3>3, EmitThenIs DEF WorkerPc
    <3>. QED  BY <3>2, <3>3, <3>4
  <2>3. ~Reading(r)' /\ ~Passing(r)'
    BY <2>2 DEF Reading, Passing
  <2>4. n = Total(inv)
    BY <1>1, <1>2, <1>6
  <2>5. Complete(r)'
    BY <1>1, <1>2, <1>3, <2>4, FirstIs DEF Complete
  <2>. QED  BY <1>1, <1>4, <1>5, <2>3, <2>5 DEF JobRow
<1>7. CASE n < Total(inv)
  <2>1. PICK c : c = ChunkAt(inv, n)
    OBVIOUS
  <2>2. c = <<c[1], c[2]>>
    <3>1. c \in Inventory(inv)
      BY <1>2, <1>7, <2>1, ChunkAtIs
    <3>2. c \in Kind \X Nat
      BY <1>2, <3>1, InventoryIs
    <3>. QED  BY <3>2
  <2>3. wk' = [Idle EXCEPT !.pc = "transcribe", !.id = r, !.kind = c[1], !.chunk = c[2]]
    BY <1>1, <1>2, <1>7, <2>1 DEF Step
  <2>4. wk'.pc = "transcribe" /\ wk'.kind = c[1] /\ wk'.chunk = c[2]
    BY <2>3 DEF Idle
  <2>5. ~Passing(r)' /\ ~Completing(r)'
    BY <2>4 DEF Passing, Completing, Closing, At
  <2>6. <<wk'.kind, wk'.chunk>> = ChunkAt(inv, n)
    BY <2>1, <2>2, <2>4
  <2>. QED  BY <1>1, <1>3, <1>4, <1>5, <1>7, <2>5, <2>6 DEF JobRow
<1>. QED  BY <1>2, <1>6, <1>7

LEMMA TakeStepReads ==
  ASSUME Control, SpeechHolds, ReadsHold, Recorded, TakeStep
  PROVE  ReadsHold'
<1>1. PICK i, inv, fresh : /\ i = Head(jobQ) /\ inv = OfDisk(i)
                           /\ fresh = [listed |-> TRUE, idx |-> 0, inv |-> inv]
  OBVIOUS
<1>2. /\ Up /\ UNCHANGED <<boot, past, crashes, errors, request>> /\ wk.pc = "idle"
      /\ jobQ # <<>> /\ jobQ' = Tail(jobQ) /\ jobQ \in Seq(Id)
  BY ControlParts DEF TakeStep, At, JobTypes
<1>3. i \in Id /\ OnDemand(i) /\ Queued(i) /\ ~Asked(i)
  <2>1. i \in Id /\ 1 \in DOMAIN jobQ /\ jobQ[1] = i
    BY <1>1, <1>2, HeadHas
  <2>. QED  BY <2>1, ControlParts DEF JobsHold, Queued, ReadsHold, OneHolder
<1>4. /\ \A m, n \in DOMAIN jobQ' : m # n => jobQ'[m] # jobQ'[n]
      /\ \A j : Queued(j)' => Queued(j)
      /\ ~Queued(i)'
  <2>1. jobQ[1] = i /\ 1 \in DOMAIN jobQ /\ \A n \in DOMAIN jobQ' :
          n \in Nat \ {0} /\ n + 1 \in DOMAIN jobQ /\ jobQ'[n] = jobQ[n + 1]
    BY <1>1, <1>2, HeadHas
  <2>2. \A m, n \in DOMAIN jobQ : m # n => jobQ[m] # jobQ[n]
    BY DEF ReadsHold, OneHolder
  <2>3. \A m, n \in DOMAIN jobQ' : m # n => jobQ'[m] # jobQ'[n]
    BY <2>1, <2>2
  <2>4. \A n \in DOMAIN jobQ' : jobQ'[n] # i
    BY <2>1, <2>2
  <2>. QED  BY <2>1, <2>3, <2>4 DEF Queued
<1>5. (\A j \in Id : Working(j)' => j = i) => OneHolder'
  <2>1. \A j : Asked(j)' => Asked(j)
    BY <1>2 DEF Asked
  <2>2. \A p, q \in Request : p # q /\ request'[p].pc = "created" /\ request'[q].pc = "created"
          => request'[p].id # request'[q].id
    BY <1>2 DEF ReadsHold, OneHolder
  <2>. QED  BY <1>3, <1>4, <2>1, <2>2 DEF ReadsHold, OneHolder
<1>6. \A j \in Id : ~Working(j) /\ Out(j) = <<>>
  BY <1>2 DEF Working, Out
<1>7. ReadRow(i) /\ status[transcript[i].session] = "finished"
  BY <1>3 DEF ReadsHold, ReadRow
<1>8. CASE UNCHANGED <<store, od, wk, track>>
  <2>1. \A j \in Id : Untouched(j) /\ SameRow(j) /\ Out(j)' = Out(j) /\ ~Working(j)'
    BY <1>2, <1>6, <1>8 DEF Untouched, SameRow, store, past, Out, Working
  <2>2. \A j \in Id : Asked(j)' => Asked(j)
    BY <1>2 DEF Asked
  <2>3. \A j \in Id : Apart(j)
    BY <1>2, <1>4, <2>1, <2>2, ApartUp DEF Handed
  <2>4. \A j \in Id : ReadRow(j)'
    BY <2>3, RowStays DEF ReadsHold
  <2>. QED  BY <1>5, <2>1, <2>4 DEF ReadsHold
<1>9. /\ inv \in [Kind -> Nat] /\ Total(inv) \in Nat
      /\ job[i].state \notin Ended => IsOpen(i) /\ Tracked(i) /\ JobRow(i)
  <2>1. inv \in [Kind -> Nat] /\ Total(inv) \in Nat
    BY <1>1, <1>3, DiskType
  <2>2. job[i].state \notin Ended => IsOpen(i)
    BY <1>3, ControlParts DEF TablesHold, TableTypes, JobState, Ended, Open, IsOpen, OnDemand
  <2>3. IsOpen(i) => Tracked(i) /\ JobRow(i)
    BY <1>2, <1>3, <1>7 DEF ReadRow, InService
  <2>. QED  BY <2>1, <2>2, <2>3
\* A step of a job that is open.
<1>10. ASSUME job[i].state \notin Ended, IsOpen(i)', UNCHANGED <<segment, transcript>>,
              NEW o, Step(i, o), od'[i] = o, o.listed, o.idx \in Nat, o.inv = inv,
              o.idx <= Total(inv), read[i] = First(inv, o.idx),
              \A j \in Id \ {i} : job'[j] = job[j] /\ od'[j] = od[j],
              job'[i].progress = o.idx, job'[i].total = Total(inv)
       PROVE  ReadsHold'
  <2>1. Keeps(i)
    <3>1. \A j \in Id \ {i} : job'[j].state = job[j].state
      BY <1>10
    <3>. QED  BY <1>2, <1>3, <1>9, <1>10, <3>1, StepSpeaks
  <2>2. wk'.id = i /\ \A j \in Id : Working(j)' => j = i
    BY <1>3, <1>10, StepIs DEF Working
  <2>3. ReadRow(i)'
    <3>1. ASSUME OfDisk(i)' = OfDisk(i)
          PROVE  Tracked(i)' /\ JobRow(i)'
      BY <1>1, <1>2, <1>3, <1>4, <1>9, <1>10, <2>1, <3>1, StepReads DEF past
    <3>. QED  BY <1>2, <1>3, <1>7, <1>10, <3>1, ServedRow
  <2>4. \A j \in Id \ {i} : Untouched(j) /\ Out(j)' = Out(j) /\ SameRow(j) /\ ~Working(j)'
    BY <1>10, <2>1, <2>2 DEF Keeps, Elsewhere, SameRow
  <2>. QED  BY <1>2, <1>3, <1>4, <1>5, <2>2, <2>3, <2>4, JobMoves
<1>11. CASE /\ job[i].state \notin Ended /\ od[i].listed /\ Step(i, od[i])
            /\ UNCHANGED <<store, od>>
  <2>1. ReadTo(i, od[i].idx) /\ od[i].inv = inv /\ job[i].total = Total(inv)
    BY <1>1, <1>3, <1>9, <1>11 DEF JobRow
  <2>2. od[i].idx \in Nat
    BY <1>3, ControlParts DEF JobTypes
  <2>3. UNCHANGED <<segment, transcript, job>> /\ IsOpen(i)'
    BY <1>9, <1>11 DEF store, IsOpen
  <2>. QED  BY <1>1, <1>10, <1>11, <2>1, <2>2, <2>3 DEF ReadTo
<1>12. CASE /\ job[i].state \notin Ended /\ ~od[i].listed /\ Step(i, fresh)
            /\ od' = [od EXCEPT ![i] = fresh]
            /\ UpdateJob(i, [state |-> "running", progress |-> 0, total |-> Total(inv)])
  <2>1. read[i] = First(inv, 0)
    BY <1>3, <1>9, <1>12, FirstIs DEF JobRow, Fresh
  <2>2. /\ OnlyRow(i) /\ UNCHANGED <<segment, transcript>>
        /\ job'[i] = [state |-> "running", progress |-> 0, total |-> Total(inv)]
    BY <1>3, <1>12, ControlParts, RowOps DEF UpdateJob
  <2>3. /\ job'[i].state = "running" /\ job'[i].progress = 0 /\ job'[i].total = Total(inv)
        /\ \A j \in Id \ {i} : job'[j] = job[j]
    BY <2>2 DEF OnlyRow
  <2>4. od'[i] = fresh /\ \A j \in Id \ {i} : od'[j] = od[j]
    BY <1>3, <1>12, ControlParts DEF JobTypes
  <2>5. fresh.listed /\ fresh.idx = 0 /\ fresh.inv = inv
    BY <1>1
  <2>6. IsOpen(i)'
    BY <2>3 DEF IsOpen, Open
  <2>. QED  BY <1>9, <1>10, <1>12, <2>1, <2>2, <2>3, <2>4, <2>5, <2>6
<1>13. \/ UNCHANGED <<store, od, wk, track>>
       \/ /\ job[i].state \notin Ended /\ od[i].listed /\ Step(i, od[i])
          /\ UNCHANGED <<store, od>>
       \/ /\ job[i].state \notin Ended /\ ~od[i].listed /\ Step(i, fresh)
          /\ od' = [od EXCEPT ![i] = fresh]
          /\ UpdateJob(i, [state |-> "running", progress |-> 0, total |-> Total(inv)])
  BY <1>1 DEF TakeStep, OfDisk
<1>. QED  BY <1>8, <1>11, <1>12, <1>13

LEMMA InitReads ==
  ASSUME Init
  PROVE  ReadsHold
<1>1. /\ job = [i \in Id |-> [state |-> "absent", progress |-> 0, total |-> 0]]
      /\ transcript = [i \in Id |-> [session |-> NoSession, mode |-> "live",
                                     state |-> "absent", final |-> FALSE]]
      /\ od = [i \in Id |-> NoOd] /\ jobQ = <<>> /\ wk = Idle
      /\ request = [r \in Request |-> NewRequest]
  BY DEF Init, StoreInit
<1>2. \A i \in Id : ReadRow(i)
  BY <1>1 DEF ReadRow, OnDemand, Exists
<1>3. /\ \A i : ~Queued(i) /\ ~Asked(i) /\ ~Working(i)
      /\ \A r \in Request : request[r].pc # "created"
      /\ DOMAIN jobQ = {}
  BY <1>1 DEF Queued, Asked, Working, NewRequest, Idle
<1>. QED  BY <1>2, <1>3 DEF ReadsHold, OneHolder

LEMMA ReadsInductive ==
  ASSUME Control, SpeechHolds, ReadsHold, [Next]_wvars
  PROVE  ReadsHold'
<1>1. Recorded
  BY EndedIsRecorded DEF Recorded
<1>2. CASE \/ Capture \/ ListLive
           \/ \E s \in Session : OnStopped(s)
           \/ \E w \in Source : OnChunk(w) \/ PushChunk(w)
           \/ \E r \in Request : \E s \in Session : CheckRequest(r, s)
  BY <1>1, <1>2, ObserversRead
<1>3. CASE \E s \in Session : BeginLive(s)
  BY <1>1, <1>3, BeginReads
<1>4. CASE \E r \in Request : RequestStep(r)
  BY <1>1, <1>4, CreateReads, PushReads DEF RequestStep
<1>5. CASE TakeChunk \/ TakeStop \/ TakeStep
  BY <1>1, <1>5, TakeReads, TakeStepReads
<1>6. CASE Finalise
  BY <1>1, <1>6, FinaliseReads
<1>7. CASE Advance
  BY <1>1, <1>7, AdvanceReads
<1>8. CASE \/ Transcribe \/ Retry \/ Emit \/ Account \/ Report \/ Settle \/ SettleJob \/ EngineFails
           \/ WorkerError /\ wk.pc # "finalise"
  <2>1. wk.pc \notin {"idle", "finalise"}
    BY <1>8 DEF Transcribe, Retry, Emit, Account, Report, Settle, SettleJob, EngineFails,
                WorkerError, At
  <2>2. CASE wk.session # NoSession
    BY <1>1, <1>8, <2>1, <2>2, LiveWorkReads
  <2>3. CASE wk.session = NoSession
    <3>1. ~Account /\ ~Report
      BY <2>3, ControlParts DEF WorkHolds, Account, Report, At
    <3>. QED  BY <1>1, <1>8, <2>3, <3>1, TranscribeReads, EmitReads, EndsReads, SettleJobReads,
                 WorkerErrorReads
  <2>. QED  BY <2>2, <2>3
<1>9. CASE WorkerError /\ wk.pc = "finalise"
  <2>1. /\ Up /\ UNCHANGED <<store, track, past, od, jobQ, boot, request>> /\ wk' = Idle
    <3>1. Up /\ UNCHANGED boot
      BY <1>9, WorksUp
    <3>. QED  BY <1>9, <3>1 DEF WorkerError, At, past
  <2>2. wk'.pc = "idle"
    BY <2>1, RestIs
  <2>. QED  BY <1>1, <1>9, <2>1, <2>2, SilentReads
<1>10. CASE Crash \/ BootStep
  BY <1>1, <1>10, CrashReads, BootReads
<1>11. CASE UNCHANGED wvars
  <2>1. UNCHANGED <<store, track, past, od, jobQ, boot, wk, request>>
    BY <1>11 DEF wvars, memory
  <2>2. \A i \in Id : Working(i)' => Working(i)
    BY <2>1 DEF Working
  <2>3. OneHolder' /\ \A i : (Queued(i)' => Queued(i)) /\ (Asked(i)' => Asked(i))
    BY <2>1, <2>2, HoldersStay DEF ReadsHold
  <2>4. \A i \in Id : Apart(i)
    BY <2>1, <2>2, <2>3 DEF Apart, Untouched, SameRow, Handed, Out, InService, IsOpen, Up, store,
                            past
  <2>5. \A i \in Id : ReadRow(i)'
    BY <1>1, <2>4, RowStays DEF ReadsHold
  <2>. QED  BY <2>3, <2>5 DEF ReadsHold
<1>. QED  BY <1>2, <1>3, <1>4, <1>5, <1>6, <1>7, <1>8, <1>9, <1>10, <1>11 DEF Next, WorkerStep

(***************************************************************************)
(* A completed on-demand transcript is made of every chunk of its session, *)
(* each at its time, and its progress has reached its total: for any       *)
(* inventory, any order of jobs and live work on the one thread, and any   *)
(* errors and deaths of the process on the way.                            *)
(***************************************************************************)
THEOREM JobsReadAll == Spec => []OnDemandReadsAll
<1>1. Init => Control /\ SpeechHolds /\ ReadsHold
  BY InitControl, InitSpeech, InitReads
<1>2. Control /\ SpeechHolds /\ ReadsHold /\ [Next]_wvars
        => (Control /\ SpeechHolds /\ ReadsHold)'
  BY ControlInductive, SpeechInductive, ReadsInductive
<1>3. Control /\ ReadsHold => OnDemandReadsAll
  <2>1. SUFFICES ASSUME Control, ReadsHold, NEW i \in Id, Settled(i),
                        transcript[i].mode = "on_demand"
                 PROVE  /\ read[i] = Inventory(OfDisk(i)) /\ job[i].progress = job[i].total
                        /\ \A c \in ToSet(segment[i]) : c.at = c.chunk
    BY DEF OnDemandReadsAll, OfDisk
  <2>2. OnDemand(i)
    BY <2>1, ControlParts DEF TablesHold, OnDemand, Settled, Exists
  <2>. QED  BY <2>1, <2>2 DEF ReadsHold, ReadRow, Complete, AsHeard
<1>. QED  BY <1>1, <1>2, <1>3, PTL DEF Spec
=============================================================================
