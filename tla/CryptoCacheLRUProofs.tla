------------------------ MODULE CryptoCacheLRUProofs ------------------------
(***************************************************************************)
(* Proof that cache.go's map and access list stay consistent (the run's    *)
(* LRUConsistent) for every capacity, set of goroutines, messages and      *)
(* signatures: insert, check and evict keep the list holding each cached   *)
(* key exactly once and at most Capacity keys.                             *)
(* Also that the list is the recency order (LRURecency) and that a step   *)
(* removes only the least recently used key of a full map (EvictsOnlyLRU). *)
(***************************************************************************)
EXTENDS CryptoCacheProofs

\* The keys the sequence s lists.
Elems(s) == {s[i] : i \in 1..Len(s)}

\* No key is listed twice in s.
Distinct(s) == \A i, j \in 1..Len(s) : s[i] = s[j] => i = j

(* The inductive invariant.  The map is finite and its size is the list's  *)
(* length: the list is the map's keys, each once.  Evict's test on          *)
(* len(cache.entries) then bounds the list by Capacity.                    *)
LRUInv ==
    /\ IsFiniteSet(entries)
    /\ Elems(accessOrder) = entries
    /\ Distinct(accessOrder)
    /\ Len(accessOrder) = Cardinality(entries)
    /\ Len(accessOrder) <= Capacity

\* a is the sequence of r's first Len(a) elements.
Prefix(a, r) == Len(a) <= Len(r) /\ \A i \in 1..Len(a) : a[i] = r[i]

(* The inductive invariant behind LRURecency.  The history lists every key *)
(* once, in the order of its last use, and the access list is its front:   *)
(* each insert or hit moves the same key to the front of both.             *)
RecencyInv ==
    /\ recency \in Seq(Keys)
    /\ Distinct(recency)
    /\ Prefix(accessOrder, recency)

-----------------------------------------------------------------------------
(* Lemmas about the list operations of cache.go on a list without          *)
(* duplicates.                                                              *)

(* DropAt(seq, i) at position l is seq at l before i and at l + 1 after.   *)
LEMMA DropAtIndex ==
    ASSUME NEW S, NEW seq \in Seq(S), NEW i \in 1..Len(seq)
    PROVE  /\ DropAt(seq, i) \in Seq(S)
           /\ Len(DropAt(seq, i)) = Len(seq) - 1
           /\ \A l \in 1..Len(seq) - 1 :
                 DropAt(seq, i)[l] = IF l < i THEN seq[l] ELSE seq[l + 1]
<1> DEFINE a == SubSeq(seq, 1, i - 1)
           b == SubSeq(seq, i + 1, Len(seq))
<1>0. Len(seq) \in Nat
  BY LenProperties
<1>1. /\ a \in Seq(S)
      /\ Len(a) = i - 1
      /\ \A l \in 1..i-1 : a[l] = seq[l]
  BY <1>0, SubSeqProperties
<1>2. /\ b \in Seq(S)
      /\ Len(b) = Len(seq) - i
      /\ \A l \in 1..Len(seq)-i : b[l] = seq[i + l]
  BY <1>0, SubSeqProperties
<1>3. /\ a \o b \in Seq(S)
      /\ Len(a \o b) = Len(a) + Len(b)
      /\ \A l \in 1 .. Len(a) + Len(b) :
            (a \o b)[l] = IF l <= Len(a) THEN a[l] ELSE b[l - Len(a)]
  BY <1>1, <1>2, ConcatProperties
<1> HIDE DEF a, b
<1>4. ASSUME NEW l \in 1..Len(seq) - 1
      PROVE  (a \o b)[l] = IF l < i THEN seq[l] ELSE seq[l + 1]
  <2>0. l \in 1 .. Len(a) + Len(b)
    BY <1>0, <1>1, <1>2
  <2>1. CASE l < i
    <3>1. l <= Len(a) /\ l \in 1..i-1
      BY <1>1, <2>1
    <3>2. (a \o b)[l] = a[l]
      BY <1>3, <2>0, <3>1
    <3>3. QED  BY <1>1, <2>1, <3>1, <3>2
  <2>2. CASE ~(l < i)
    <3>1. ~(l <= Len(a)) /\ l - Len(a) = l - (i - 1)
      BY <1>0, <1>1, <2>2
    <3>2. (a \o b)[l] = b[l - (i - 1)]
      BY <1>3, <2>0, <3>1
    <3>3. l - (i - 1) \in 1..Len(seq)-i /\ i + (l - (i - 1)) = l + 1
      BY <1>0, <2>2
    <3>4. QED  BY <1>2, <2>2, <3>2, <3>3
  <2>3. QED  BY <2>1, <2>2
<1>5. Len(a \o b) = Len(seq) - 1
  BY <1>0, <1>1, <1>2, <1>3
<1>6. QED  BY <1>3, <1>4, <1>5 DEF DropAt, a, b

(* Dropping position i of a list without duplicates removes exactly the   *)
(* key at i.                                                               *)
LEMMA DropAtDistinct ==
    ASSUME NEW S, NEW seq \in Seq(S), NEW i \in 1..Len(seq), Distinct(seq)
    PROVE  /\ DropAt(seq, i) \in Seq(S)
           /\ Len(DropAt(seq, i)) = Len(seq) - 1
           /\ Distinct(DropAt(seq, i))
           /\ Elems(DropAt(seq, i)) = Elems(seq) \ {seq[i]}
<1> DEFINE d == DropAt(seq, i)
           pos(l) == IF l < i THEN l ELSE l + 1
<1>0. Len(seq) \in Nat
  BY LenProperties
<1>1. /\ d \in Seq(S)
      /\ Len(d) = Len(seq) - 1
      /\ \A l \in 1..Len(seq) - 1 : d[l] = seq[pos(l)]
  BY DropAtIndex
<1>2. \A l \in 1..Len(seq) - 1 : pos(l) \in 1..Len(seq) /\ pos(l) # i
  BY <1>0
<1>3. Distinct(d)
  <2>1. \A l, m \in 1..Len(seq) - 1 : pos(l) = pos(m) => l = m
    BY <1>0
  <2>2. QED  BY <1>1, <1>2, <2>1 DEF Distinct
<1>4. Elems(d) \subseteq Elems(seq) \ {seq[i]}
  BY <1>1, <1>2 DEF Elems, Distinct
<1>5. Elems(seq) \ {seq[i]} \subseteq Elems(d)
  <2> SUFFICES ASSUME NEW j \in 1..Len(seq), seq[j] # seq[i]
               PROVE  \E l \in 1..Len(d) : d[l] = seq[j]
    BY DEF Elems
  <2>1. j # i
    OBVIOUS
  <2> DEFINE l == IF j < i THEN j ELSE j - 1
  <2>2. l \in 1..Len(seq) - 1 /\ pos(l) = j
    BY <1>0, <2>1
  <2>3. QED  BY <1>1, <2>2
<1>6. QED  BY <1>1, <1>3, <1>4, <1>5

(* Pushing a key the list does not hold keeps it without duplicates.      *)
LEMMA ConsDistinct ==
    ASSUME NEW S, NEW seq \in Seq(S), NEW k \in S, Distinct(seq), k \notin Elems(seq)
    PROVE  /\ <<k>> \o seq \in Seq(S)
           /\ Len(<<k>> \o seq) = Len(seq) + 1
           /\ Distinct(<<k>> \o seq)
           /\ Elems(<<k>> \o seq) = Elems(seq) \cup {k}
<1> DEFINE c == <<k>> \o seq
<1>0. Len(seq) \in Nat
  BY LenProperties
<1>1. /\ c \in Seq(S)
      /\ Len(c) = Len(seq) + 1
      /\ c[1] = k
      /\ \A l \in 2..Len(seq) + 1 : c[l] = seq[l - 1]
  <2>1. /\ c \in Seq(S)
        /\ Len(c) = 1 + Len(seq)
        /\ \A l \in 1 .. 1 + Len(seq) : c[l] = IF l <= 1 THEN <<k>>[l] ELSE seq[l - 1]
    BY ConcatProperties
  <2>2. QED  BY <1>0, <2>1
<1>2. Distinct(c)
  <2> SUFFICES ASSUME NEW l \in 1..Len(c), NEW m \in 1..Len(c), c[l] = c[m]
               PROVE  l = m
    BY DEF Distinct
  <2>1. CASE l = 1 /\ m = 1
    BY <2>1
  <2>2. CASE l = 1 /\ m # 1
    <3>1. m - 1 \in 1..Len(seq) /\ c[m] = seq[m - 1]
      BY <1>0, <1>1, <2>2
    <3>2. QED  BY <1>1, <2>2, <3>1 DEF Elems
  <2>3. CASE l # 1 /\ m = 1
    <3>1. l - 1 \in 1..Len(seq) /\ c[l] = seq[l - 1]
      BY <1>0, <1>1, <2>3
    <3>2. QED  BY <1>1, <2>3, <3>1 DEF Elems
  <2>4. CASE l # 1 /\ m # 1
    <3>1. l - 1 \in 1..Len(seq) /\ m - 1 \in 1..Len(seq)
          /\ c[l] = seq[l - 1] /\ c[m] = seq[m - 1]
      BY <1>0, <1>1, <2>4
    <3>2. QED  BY <3>1 DEF Distinct
  <2>5. QED  BY <2>1, <2>2, <2>3, <2>4
<1>3. Elems(c) = Elems(seq) \cup {k}
  <2>1. Elems(c) \subseteq Elems(seq) \cup {k}
    <3> SUFFICES ASSUME NEW l \in 1..Len(c) PROVE c[l] \in Elems(seq) \cup {k}
      BY DEF Elems
    <3>1. CASE l = 1
      BY <1>1, <3>1
    <3>2. CASE l # 1
      <4>1. l - 1 \in 1..Len(seq) /\ c[l] = seq[l - 1]
        BY <1>0, <1>1, <3>2
      <4>2. QED  BY <4>1 DEF Elems
    <3>3. QED  BY <3>1, <3>2
  <2>2. Elems(seq) \subseteq Elems(c)
    <3> SUFFICES ASSUME NEW j \in 1..Len(seq) PROVE \E l \in 1..Len(c) : c[l] = seq[j]
      BY DEF Elems
    <3>1. j + 1 \in 1..Len(c) /\ c[j + 1] = seq[j]
      BY <1>0, <1>1
    <3>2. QED  BY <3>1
  <2>3. k \in Elems(c)
    BY <1>0, <1>1 DEF Elems
  <2>4. QED  BY <2>1, <2>2, <2>3
<1>4. QED  BY <1>1, <1>2, <1>3

(* MoveToFront of a listed key keeps the list's keys, its length and its   *)
(* lack of duplicates.                                                      *)
LEMMA MoveToFrontDistinct ==
    ASSUME NEW S, NEW seq \in Seq(S), NEW k \in Elems(seq), Distinct(seq)
    PROVE  /\ MoveToFront(seq, k) \in Seq(S)
           /\ Len(MoveToFront(seq, k)) = Len(seq)
           /\ Distinct(MoveToFront(seq, k))
           /\ Elems(MoveToFront(seq, k)) = Elems(seq)
<1> DEFINE i == IndexOf(seq, k)
           d == DropAt(seq, i)
<1>1. i \in 1..Len(seq) /\ seq[i] = k
  BY DEF IndexOf, Elems
<1>2. /\ d \in Seq(S)
      /\ Len(d) = Len(seq) - 1
      /\ Distinct(d)
      /\ Elems(d) = Elems(seq) \ {k}
  BY <1>1, DropAtDistinct
<1>3. k \in S /\ k \notin Elems(d)
  <2>1. k \in S
    BY <1>1, ElementOfSeq
  <2>2. QED  BY <1>2, <2>1
<1>4. /\ <<k>> \o d \in Seq(S)
      /\ Len(<<k>> \o d) = Len(d) + 1
      /\ Distinct(<<k>> \o d)
      /\ Elems(<<k>> \o d) = Elems(d) \cup {k}
  BY <1>2, <1>3, ConsDistinct
<1>5. MoveToFront(seq, k) = <<k>> \o d
  BY DEF MoveToFront
<1>6. Len(seq) \in Nat
  BY LenProperties
<1> HIDE DEF i, d
<1>7. Len(<<k>> \o d) = Len(seq)
  BY <1>1, <1>2, <1>4, <1>6
<1>8. Elems(<<k>> \o d) = Elems(seq)
  <2>1. (Elems(seq) \ {k}) \cup {k} = Elems(seq)
    OBVIOUS
  <2>2. QED  BY <1>2, <1>4, <2>1
<1>9. QED  BY <1>4, <1>5, <1>7, <1>8

\* k occurs among the first l - 1 elements of seq.
Before(seq, k, l) == \E j \in 1..l-1 : seq[j] = k

(* Touch(seq, k) puts k first; behind it, the elements up to k's old       *)
(* position shift back by one and the later ones keep their place.         *)
LEMMA TouchIndex ==
    ASSUME NEW S, NEW seq \in Seq(S), Distinct(seq), NEW k \in S
    PROVE  /\ Touch(seq, k) \in Seq(S)
           /\ Distinct(Touch(seq, k))
           /\ Len(Touch(seq, k)) = IF k \in Elems(seq) THEN Len(seq) ELSE Len(seq) + 1
           /\ Touch(seq, k)[1] = k
           /\ \A l \in 2..Len(Touch(seq, k)) :
                 Touch(seq, k)[l] = IF Before(seq, k, l) THEN seq[l] ELSE seq[l - 1]
<1>0. Len(seq) \in Nat
  BY LenProperties
<1>1. CASE k \in Elems(seq)
  <2> DEFINE i == IndexOf(seq, k)
             d == DropAt(seq, i)
  <2>1. i \in 1..Len(seq) /\ seq[i] = k
    BY <1>1 DEF IndexOf, Elems
  <2>2. /\ d \in Seq(S)
        /\ Len(d) = Len(seq) - 1
        /\ \A l \in 1..Len(seq) - 1 : d[l] = IF l < i THEN seq[l] ELSE seq[l + 1]
    BY <2>1, DropAtIndex
  <2>3. Touch(seq, k) = <<k>> \o d
    BY <1>1 DEF Touch, MoveToFront, Elems
  <2>4. /\ <<k>> \o d \in Seq(S)
        /\ Len(<<k>> \o d) = 1 + Len(d)
        /\ \A l \in 1 .. 1 + Len(d) : (<<k>> \o d)[l] = IF l <= 1 THEN <<k>>[l] ELSE d[l - 1]
    BY <2>2, ConcatProperties
  <2>5. /\ Distinct(MoveToFront(seq, k))
        /\ Len(MoveToFront(seq, k)) = Len(seq)
    BY <1>1, MoveToFrontDistinct
  <2>6. ASSUME NEW l \in 2..Len(seq)
        PROVE  (<<k>> \o d)[l] = IF Before(seq, k, l) THEN seq[l] ELSE seq[l - 1]
    <3>1. (<<k>> \o d)[l] = d[l - 1] /\ l - 1 \in 1..Len(seq) - 1
      BY <1>0, <2>2, <2>4
    <3>2. Before(seq, k, l) <=> i <= l - 1
      BY <2>1 DEF Before, Distinct
    <3>3. QED  BY <1>0, <2>1, <2>2, <3>1, <3>2
  <2>7. QED  BY <1>0, <1>1, <2>2, <2>3, <2>4, <2>5, <2>6 DEF MoveToFront
<1>2. CASE k \notin Elems(seq)
  <2>1. Touch(seq, k) = <<k>> \o seq
    BY <1>2 DEF Touch, Elems
  <2>2. /\ <<k>> \o seq \in Seq(S)
        /\ Len(<<k>> \o seq) = 1 + Len(seq)
        /\ \A l \in 1 .. 1 + Len(seq) : (<<k>> \o seq)[l] = IF l <= 1 THEN <<k>>[l] ELSE seq[l - 1]
    BY ConcatProperties
  <2>3. Distinct(<<k>> \o seq)
    BY <1>2, ConsDistinct
  <2>4. \A l \in 2..1 + Len(seq) : ~Before(seq, k, l)
    BY <1>2 DEF Before, Elems
  <2>5. QED  BY <1>0, <1>2, <2>1, <2>2, <2>3, <2>4
<1>3. QED  BY <1>1, <1>2

(* A prefix of a list without duplicates has none either.                 *)
LEMMA PrefixDistinct ==
    ASSUME NEW S, NEW a \in Seq(S), NEW r \in Seq(S), Prefix(a, r), Distinct(r)
    PROVE  Distinct(a)
<1>1. 1..Len(a) \subseteq 1..Len(r)
  BY LenProperties DEF Prefix
<1>2. QED  BY <1>1 DEF Prefix, Distinct

LEMMA PrefixTrans ==
    ASSUME NEW a, NEW b, NEW c, NEW S, a \in Seq(S), b \in Seq(S), c \in Seq(S),
           Prefix(a, b), Prefix(b, c)
    PROVE  Prefix(a, c)
<1>1. Len(a) \in Nat /\ Len(b) \in Nat /\ Len(c) \in Nat
  BY LenProperties
<1>2. QED  BY <1>1 DEF Prefix

(* Touching the same key in a list and in a list it is a prefix of keeps   *)
(* the one a prefix of the other.                                           *)
LEMMA TouchPrefix ==
    ASSUME NEW S, NEW a \in Seq(S), NEW r \in Seq(S), Prefix(a, r), Distinct(r),
           NEW k \in S
    PROVE  Prefix(Touch(a, k), Touch(r, k))
<1> DEFINE ta == Touch(a, k)
           tr == Touch(r, k)
<1>0. Len(a) \in Nat /\ Len(r) \in Nat /\ Len(a) <= Len(r)
  BY LenProperties DEF Prefix
<1>1. Distinct(a)
  BY PrefixDistinct
<1>2. /\ Len(ta) = IF k \in Elems(a) THEN Len(a) ELSE Len(a) + 1
      /\ ta[1] = k
      /\ \A l \in 2..Len(ta) : ta[l] = IF Before(a, k, l) THEN a[l] ELSE a[l - 1]
  BY <1>1, TouchIndex
<1>3. /\ Len(tr) = IF k \in Elems(r) THEN Len(r) ELSE Len(r) + 1
      /\ tr[1] = k
      /\ \A l \in 2..Len(tr) : tr[l] = IF Before(r, k, l) THEN r[l] ELSE r[l - 1]
  BY TouchIndex
<1>4. Len(ta) <= Len(tr)
  <2>1. CASE k \in Elems(a)
    <3>1. k \in Elems(r)
      BY <1>0, <2>1 DEF Elems, Prefix
    <3>2. QED  BY <1>0, <1>2, <1>3, <2>1, <3>1
  <2>2. CASE k \notin Elems(a) /\ k \in Elems(r)
    <3>1. PICK j \in 1..Len(r) : r[j] = k
      BY <2>2 DEF Elems
    <3>2. j > Len(a)
      BY <1>0, <2>2, <3>1 DEF Elems, Prefix
    <3>3. QED  BY <1>0, <1>2, <1>3, <2>2, <3>2
  <2>3. CASE k \notin Elems(r)
    <3>1. k \notin Elems(a)
      BY <1>0, <2>3 DEF Elems, Prefix
    <3>2. QED  BY <1>0, <1>2, <1>3, <2>3, <3>1
  <2>4. QED  BY <2>1, <2>2, <2>3
<1>5. ASSUME NEW l \in 2..Len(ta) PROVE ta[l] = tr[l]
  <2>1. l - 1 <= Len(a) /\ l \in 2..Len(tr)
    BY <1>0, <1>2, <1>4
  <2>2. Before(a, k, l) <=> Before(r, k, l)
    BY <1>0, <2>1 DEF Before, Prefix
  <2>3. CASE Before(a, k, l)
    <3>1. l <= Len(a)
      BY <1>0, <1>2, <2>3 DEF Before, Elems
    <3>2. ta[l] = a[l] /\ tr[l] = r[l]
      BY <1>2, <1>3, <2>1, <2>2, <2>3
    <3>3. QED  BY <1>0, <3>1, <3>2 DEF Prefix
  <2>4. CASE ~Before(a, k, l)
    <3>1. ta[l] = a[l - 1] /\ tr[l] = r[l - 1]
      BY <1>2, <1>3, <2>1, <2>2, <2>4
    <3>2. QED  BY <1>0, <2>1, <3>1 DEF Prefix
  <2>5. QED  BY <2>3, <2>4
<1>6. QED  BY <1>2, <1>3, <1>4, <1>5 DEF Prefix

-----------------------------------------------------------------------------
(* The critical sections keep the map and the list consistent.             *)

(* insert(k): promote a cached key, or evict the list's back element when  *)
(* the map is full and push k.                                              *)
LEMMA InsertLRU ==
    ASSUME LRUInv, accessOrder \in Seq(Keys), NEW k \in Keys, Insert(k)
    PROVE  LRUInv'
<1>0. Len(accessOrder) \in Nat /\ Cardinality(entries) \in Nat
  BY LenProperties, FS_CardinalityType DEF LRUInv
<1>1. CASE k \in entries
  <2>1. accessOrder' = MoveToFront(accessOrder, k) /\ entries' = entries
    BY <1>1 DEF Insert
  <2>2. /\ Len(MoveToFront(accessOrder, k)) = Len(accessOrder)
        /\ Distinct(MoveToFront(accessOrder, k))
        /\ Elems(MoveToFront(accessOrder, k)) = Elems(accessOrder)
    BY <1>1, MoveToFrontDistinct DEF LRUInv
  <2>3. QED  BY <2>1, <2>2 DEF LRUInv
<1>2. CASE k \notin entries /\ Cardinality(entries) < Capacity
  <2>1. accessOrder' = <<k>> \o accessOrder /\ entries' = entries \cup {k}
    BY <1>2 DEF Insert, Evict
  <2>2. /\ Len(<<k>> \o accessOrder) = Len(accessOrder) + 1
        /\ Distinct(<<k>> \o accessOrder)
        /\ Elems(<<k>> \o accessOrder) = Elems(accessOrder) \cup {k}
    BY <1>2, ConsDistinct DEF LRUInv
  <2>3. IsFiniteSet(entries \cup {k}) /\ Cardinality(entries \cup {k}) = Cardinality(entries) + 1
    BY <1>2, FS_AddElement DEF LRUInv
  <2>4. IsFiniteSet(entries')
    BY <2>1, <2>3
  <2>5. Elems(accessOrder') = entries'
    BY <2>1, <2>2 DEF LRUInv
  <2>6. Distinct(accessOrder')
    BY <2>1, <2>2
  <2>7. Len(accessOrder') = Cardinality(entries')
    BY <1>0, <2>1, <2>2, <2>3 DEF LRUInv
  <2>8. Len(accessOrder') <= Capacity
    BY CapacityAssumption, <1>0, <1>2, <2>1, <2>2 DEF LRUInv
  <2>9. QED  BY <2>4, <2>5, <2>6, <2>7, <2>8, Zenon DEF LRUInv
<1>3. CASE k \notin entries /\ ~(Cardinality(entries) < Capacity)
  <2> DEFINE n == Len(accessOrder)
             last == accessOrder[n]
             front == DropAt(accessOrder, n)
  <2>1. n = Capacity /\ n \in 1..n
    BY <1>0, <1>3, CapacityAssumption DEF LRUInv
  <2>2. accessOrder' = <<k>> \o front /\ entries' = (entries \ {last}) \cup {k}
    BY <1>3 DEF Insert, Evict, LRUInv
  <2>3. /\ front \in Seq(Keys)
        /\ Len(front) = n - 1
        /\ Distinct(front)
        /\ Elems(front) = entries \ {last}
    BY <2>1, DropAtDistinct DEF LRUInv
  <2>4. /\ Len(<<k>> \o front) = Len(front) + 1
        /\ Distinct(<<k>> \o front)
        /\ Elems(<<k>> \o front) = Elems(front) \cup {k}
    BY <1>3, <2>3, ConsDistinct
  <2>5. last \in entries
    BY <2>1 DEF LRUInv, Elems
  <2>6. /\ IsFiniteSet(entries \ {last})
        /\ Cardinality(entries \ {last}) = Cardinality(entries) - 1
    BY <2>5, FS_RemoveElement DEF LRUInv
  <2>7. /\ IsFiniteSet((entries \ {last}) \cup {k})
        /\ Cardinality((entries \ {last}) \cup {k}) = Cardinality(entries \ {last}) + 1
    BY <1>3, <2>6, FS_AddElement
  <2>8. /\ IsFiniteSet(entries')
        /\ Elems(accessOrder') = entries'
        /\ Distinct(accessOrder')
        /\ Len(accessOrder') = Cardinality(entries')
        /\ Len(accessOrder') <= Capacity
    BY CapacityAssumption, <1>0, <2>1, <2>2, <2>3, <2>4, <2>6, <2>7 DEF LRUInv
  <2>9. QED  BY <2>8, Zenon DEF LRUInv
<1>4. QED  BY <1>1, <1>2, <1>3

(* check(key) on a hit moves a cached key to the front.                    *)
LEMMA PromoteLRU ==
    ASSUME LRUInv, accessOrder \in Seq(Keys), NEW k \in entries, Promote(k)
    PROVE  LRUInv'
<1>1. /\ Len(MoveToFront(accessOrder, k)) = Len(accessOrder)
      /\ Distinct(MoveToFront(accessOrder, k))
      /\ Elems(MoveToFront(accessOrder, k)) = Elems(accessOrder)
  BY MoveToFrontDistinct DEF LRUInv
<1>2. QED  BY <1>1 DEF Promote, LRUInv

-----------------------------------------------------------------------------
(* Every step keeps LRUInv: the goroutines change the map and the list     *)
(* only through insert and check.  CacheInv types the keys they pass.      *)

LEMMA InitLRUInv == Init => LRUInv
<1> SUFFICES ASSUME Init PROVE LRUInv
  OBVIOUS
<1>1. IsFiniteSet(entries) /\ Cardinality(entries) = 0
  BY FS_EmptySet DEF Init
<1>2. QED  BY <1>1, CapacityAssumption DEF Init, LRUInv, Elems, Distinct

LEMMA NextLRUInv == CacheInv /\ LRUInv /\ [Next]_vars => LRUInv'
<1> SUFFICES ASSUME CacheInv, LRUInv, [Next]_vars PROVE LRUInv'
  OBVIOUS
<1>0. accessOrder \in Seq(Keys)
  BY DEF CacheInv, TypeOK
<1>1. ASSUME NEW t \in Threads, NEW m \in Msgs, Sign(t, m) PROVE LRUInv'
  <2>1. PICK s \in Sigs : Insert(VerifyKey(m, s))
    BY <1>1 DEF Sign
  <2>2. VerifyKey(m, s) \in Keys
    BY DEF VerifyKey, Keys
  <2>3. QED  BY <1>0, <2>1, <2>2, InsertLRU
<1>2. ASSUME NEW t \in Threads, NEW kind, NEW x, NEW s, NEW key,
             CheckStep(t, kind, x, s, key)
      PROVE  LRUInv'
  <2>1. CASE key \in entries /\ Promote(key)
    BY <1>0, <2>1, PromoteLRU
  <2>2. CASE UNCHANGED <<entries, accessOrder>>
    BY <2>2 DEF LRUInv
  <2>3. QED  BY <1>2, <2>1, <2>2 DEF CheckStep
<1>3. ASSUME NEW t \in Threads, NEW kind, NEW key \in Keys, NEW accepted,
             ImplStep(t, kind, key, accepted)
      PROVE  LRUInv'
  <2>1. CASE Insert(key)
    BY <1>0, <2>1, InsertLRU
  <2>2. CASE UNCHANGED <<entries, accessOrder>>
    BY <2>2 DEF LRUInv
  <2>3. QED  BY <1>3, <2>1, <2>2 DEF ImplStep
<1>4. ASSUME NEW t \in Threads, VerifyImpl(t) PROVE LRUInv'
  <2>1. arg[t] \in [in : Msgs, sig : Sigs]
    BY <1>4 DEF VerifyImpl, ImplStep, CacheInv, ArgsMatch
  <2>2. VerifyKey(arg[t].in, arg[t].sig) \in Keys
    BY <2>1 DEF VerifyKey, Keys
  <2>3. QED  BY <1>3, <1>4, <2>2 DEF VerifyImpl
<1>5. ASSUME NEW t \in Threads, BatchVerifyImpl(t) PROVE LRUInv'
  <2>1. arg[t] \in [in : Batches, sig : Sigs]
    BY <1>5 DEF BatchVerifyImpl, ImplStep, CacheInv, ArgsMatch
  <2>2. BatchKey(arg[t].in, arg[t].sig) \in Keys
    BY <2>1 DEF BatchKey, Keys
  <2>3. QED  BY <1>3, <1>5, <2>2 DEF BatchVerifyImpl
<1>6. CASE UNCHANGED vars
  BY <1>6 DEF vars, LRUInv
<1>7. QED
  BY <1>1, <1>2, <1>4, <1>5, <1>6 DEF Next, VerifyCheck, BatchVerifyCheck

(* The run's LRUConsistent, for every capacity, set of goroutines,          *)
(* messages and signatures: however the goroutines' inserts and checks      *)
(* interleave, cache.go's accessOrder lists every key of cache.entries      *)
(* exactly once and never more than Capacity keys, so evict's Back()        *)
(* always names a cached key.                                               *)
THEOREM LRUAlwaysConsistent == Spec => []LRUConsistent
<1>1. CacheInv /\ LRUInv => LRUConsistent
  BY DEF LRUInv, LRUConsistent, Elems, Distinct
<1>2. QED  BY InitCacheInv, NextCacheInv, InitLRUInv, NextLRUInv, <1>1, PTL DEF Spec


-----------------------------------------------------------------------------
(* LRU order: the access list stays the front of the history of uses.      *)

(* Pushing the same key on a list and on a list it is a prefix of.         *)
LEMMA ConsPrefix ==
    ASSUME NEW S, NEW a \in Seq(S), NEW r \in Seq(S), Prefix(a, r), NEW k \in S
    PROVE  Prefix(<<k>> \o a, <<k>> \o r)
<1>1. Len(a) \in Nat /\ Len(r) \in Nat
  BY LenProperties
<1>2. /\ Len(<<k>> \o a) = Len(a) + 1 /\ Len(<<k>> \o r) = Len(r) + 1
      /\ \A i \in 1..Len(a) + 1 : (<<k>> \o a)[i] = IF i = 1 THEN k ELSE a[i - 1]
      /\ \A i \in 1..Len(r) + 1 : (<<k>> \o r)[i] = IF i = 1 THEN k ELSE r[i - 1]
  BY <1>1
<1>3. QED  BY <1>1, <1>2 DEF Prefix

(* evict's list without its back element is a prefix of the list.         *)
LEMMA DropLastPrefix ==
    ASSUME NEW S, NEW seq \in Seq(S), Len(seq) > 0
    PROVE  Prefix(DropAt(seq, Len(seq)), seq)
<1> DEFINE n == Len(seq)
<1>1. n \in Nat /\ Len(seq) \in 1..Len(seq)
  BY LenProperties
<1>2. /\ Len(DropAt(seq, n)) = n - 1
      /\ \A l \in 1..n - 1 : DropAt(seq, n)[l] = IF l < n THEN seq[l] ELSE seq[l + 1]
  BY <1>1, DropAtIndex, Zenon
<1>3. \A l \in 1..n - 1 : DropAt(seq, n)[l] = seq[l]
  BY <1>1, <1>2
<1>4. QED  BY <1>1, <1>2, <1>3 DEF Prefix

(* A step that touches k in the history and leaves an access list that is  *)
(* a prefix of the touched old list keeps RecencyInv.                      *)
LEMMA RecencyStep ==
    ASSUME RecencyInv, accessOrder \in Seq(Keys), NEW k \in Keys,
           accessOrder' \in Seq(Keys), Prefix(accessOrder', Touch(accessOrder, k)),
           recency' = Touch(recency, k)
    PROVE  RecencyInv'
<1>1. Touch(recency, k) \in Seq(Keys) /\ Distinct(Touch(recency, k))
  BY TouchIndex DEF RecencyInv
<1>2. Distinct(accessOrder)
  BY PrefixDistinct DEF RecencyInv
<1>3. Touch(accessOrder, k) \in Seq(Keys)
  BY <1>2, TouchIndex
<1>4. Prefix(Touch(accessOrder, k), Touch(recency, k))
  BY TouchPrefix DEF RecencyInv
<1>5. Prefix(accessOrder', Touch(recency, k))
  BY <1>1, <1>3, <1>4, PrefixTrans
<1>6. QED  BY <1>1, <1>5 DEF RecencyInv

(* insert(k) leaves the list a prefix of the old list with k touched: a    *)
(* cached key moves to the front, a new one is pushed, and evict only      *)
(* drops the back.                                                          *)
LEMMA InsertTouches ==
    ASSUME LRUInv, accessOrder \in Seq(Keys), NEW k \in Keys, Insert(k)
    PROVE  accessOrder' \in Seq(Keys) /\ Prefix(accessOrder', Touch(accessOrder, k))
<1>0. Len(accessOrder) \in Nat /\ Cardinality(entries) \in Nat
  BY LenProperties, FS_CardinalityType DEF LRUInv
<1>1. CASE k \in entries
  <2>1. accessOrder' = MoveToFront(accessOrder, k)
    BY <1>1 DEF Insert
  <2>2. Touch(accessOrder, k) = MoveToFront(accessOrder, k)
    BY <1>1 DEF Touch, LRUInv, Elems
  <2>3. MoveToFront(accessOrder, k) \in Seq(Keys)
        /\ Len(MoveToFront(accessOrder, k)) \in Nat
    BY <1>1, MoveToFrontDistinct, LenProperties DEF LRUInv
  <2>4. QED  BY <2>1, <2>2, <2>3 DEF Prefix
<1>2. CASE k \notin entries
  <2>1. Touch(accessOrder, k) = <<k>> \o accessOrder
    BY <1>2 DEF Touch, LRUInv, Elems
  <2>2. <<k>> \o accessOrder \in Seq(Keys) /\ Len(<<k>> \o accessOrder) \in Nat
    BY LenProperties, ConcatProperties
  <2>3. CASE Cardinality(entries) < Capacity
    <3>1. accessOrder' = <<k>> \o accessOrder
      BY <1>2, <2>3 DEF Insert, Evict
    <3>2. QED  BY <2>1, <2>2, <3>1 DEF Prefix
  <2>4. CASE ~(Cardinality(entries) < Capacity)
    <3> DEFINE front == DropAt(accessOrder, Len(accessOrder))
    <3>1. Len(accessOrder) > 0 /\ Len(accessOrder) \in 1..Len(accessOrder)
      BY <1>0, <2>4, CapacityAssumption DEF LRUInv
    <3>2. accessOrder' = <<k>> \o front
      BY <1>2, <2>4 DEF Insert, Evict
    <3>3. front \in Seq(Keys)
      BY <3>1, DropAtIndex
    <3>4. Prefix(front, accessOrder)
      BY <3>1, DropLastPrefix
    <3>5. Prefix(<<k>> \o front, <<k>> \o accessOrder)
      BY <3>3, <3>4, ConsPrefix
    <3>6. <<k>> \o front \in Seq(Keys)
      BY <3>3, ConcatProperties
    <3>7. QED  BY <2>1, <3>2, <3>5, <3>6
  <2>5. QED  BY <2>3, <2>4
<1>3. QED  BY <1>1, <1>2

(* check(key) on a hit moves the key to the front: the touched old list.   *)
LEMMA PromoteTouches ==
    ASSUME LRUInv, accessOrder \in Seq(Keys), NEW k \in entries, Promote(k)
    PROVE  accessOrder' \in Seq(Keys) /\ Prefix(accessOrder', Touch(accessOrder, k))
<1>1. accessOrder' = MoveToFront(accessOrder, k)
  BY DEF Promote
<1>2. Touch(accessOrder, k) = MoveToFront(accessOrder, k)
  BY DEF Touch, LRUInv, Elems
<1>3. MoveToFront(accessOrder, k) \in Seq(Keys)
      /\ Len(MoveToFront(accessOrder, k)) \in Nat
  BY MoveToFrontDistinct, LenProperties DEF LRUInv
<1>4. QED  BY <1>1, <1>2, <1>3 DEF Prefix

(* Every step keeps RecencyInv: each insert or hit touches the same key in *)
(* the history, and every other step leaves the list and the history.     *)
LEMMA NextRecencyInv == CacheInv /\ LRUInv /\ RecencyInv /\ [Next]_vars => RecencyInv'
<1> SUFFICES ASSUME CacheInv, LRUInv, RecencyInv, [Next]_vars PROVE RecencyInv'
  OBVIOUS
<1>0. accessOrder \in Seq(Keys) /\ entries \subseteq Keys
  BY DEF CacheInv, TypeOK
<1>1. ASSUME NEW k \in Keys, Insert(k), recency' = Touch(recency, k)
      PROVE  RecencyInv'
  <2>1. accessOrder' \in Seq(Keys) /\ Prefix(accessOrder', Touch(accessOrder, k))
    BY <1>0, <1>1, InsertTouches
  <2>2. QED  BY <1>0, <1>1, <2>1, RecencyStep
<1>2. ASSUME NEW t \in Threads, NEW m \in Msgs, Sign(t, m) PROVE RecencyInv'
  <2>1. PICK s \in Sigs : Insert(VerifyKey(m, s)) /\ recency' = Touch(recency, VerifyKey(m, s))
    BY <1>2 DEF Sign
  <2>2. VerifyKey(m, s) \in Keys
    BY DEF VerifyKey, Keys
  <2>3. QED  BY <1>1, <2>1, <2>2
<1>3. ASSUME NEW t \in Threads, NEW kind, NEW x, NEW s, NEW key,
             CheckStep(t, kind, x, s, key)
      PROVE  RecencyInv'
  <2>1. CASE key \in entries /\ Promote(key) /\ recency' = Touch(recency, key)
    <3>1. accessOrder' \in Seq(Keys) /\ Prefix(accessOrder', Touch(accessOrder, key))
      BY <1>0, <2>1, PromoteTouches
    <3>2. QED  BY <1>0, <2>1, <3>1, RecencyStep
  <2>2. CASE UNCHANGED <<accessOrder, recency>>
    BY <2>2 DEF RecencyInv
  <2>3. QED  BY <1>3, <2>1, <2>2 DEF CheckStep
<1>4. ASSUME NEW t \in Threads, NEW kind, NEW key \in Keys, NEW accepted,
             ImplStep(t, kind, key, accepted)
      PROVE  RecencyInv'
  <2>1. CASE Insert(key) /\ recency' = Touch(recency, key)
    BY <1>1, <2>1
  <2>2. CASE UNCHANGED <<accessOrder, recency>>
    BY <2>2 DEF RecencyInv
  <2>3. QED  BY <1>4, <2>1, <2>2 DEF ImplStep
<1>5. ASSUME NEW t \in Threads, VerifyImpl(t) PROVE RecencyInv'
  <2>1. arg[t] \in [in : Msgs, sig : Sigs]
    BY <1>5 DEF VerifyImpl, ImplStep, CacheInv, ArgsMatch
  <2>2. VerifyKey(arg[t].in, arg[t].sig) \in Keys
    BY <2>1 DEF VerifyKey, Keys
  <2>3. QED  BY <1>4, <1>5, <2>2 DEF VerifyImpl
<1>6. ASSUME NEW t \in Threads, BatchVerifyImpl(t) PROVE RecencyInv'
  <2>1. arg[t] \in [in : Batches, sig : Sigs]
    BY <1>6 DEF BatchVerifyImpl, ImplStep, CacheInv, ArgsMatch
  <2>2. BatchKey(arg[t].in, arg[t].sig) \in Keys
    BY <2>1 DEF BatchKey, Keys
  <2>3. QED  BY <1>4, <1>6, <2>2 DEF BatchVerifyImpl
<1>7. CASE UNCHANGED vars
  BY <1>7 DEF vars, RecencyInv
<1>8. QED
  BY <1>2, <1>3, <1>5, <1>6, <1>7 DEF Next, VerifyCheck, BatchVerifyCheck

LEMMA InitRecencyInv == Init => RecencyInv
BY DEF Init, RecencyInv, Distinct, Prefix

(* A prefix is the history's first Len(accessOrder) keys.                  *)
LEMMA PrefixIsSubSeq ==
    ASSUME NEW S, NEW a \in Seq(S), NEW r \in Seq(S), Prefix(a, r)
    PROVE  a = SubSeq(r, 1, Len(a))
<1>1. Len(a) \in Nat /\ Len(r) \in Nat /\ Len(a) <= Len(r)
  BY LenProperties DEF Prefix
<1>2. \A i \in 1..Len(a) : r[i] \in S
  BY <1>1, ElementOfSeq
<1>3. /\ SubSeq(r, 1, Len(a)) \in Seq(S)
      /\ Len(SubSeq(r, 1, Len(a))) = Len(a)
      /\ \A i \in 1..Len(a) : SubSeq(r, 1, Len(a))[i] = r[i]
  BY <1>1, <1>2, SubSeqProperties
<1>4. QED  BY <1>3, SeqEqual DEF Prefix

(* The run's LRURecency, for every capacity, set of goroutines, messages    *)
(* and signatures: cache.go's accessOrder is always the most recently       *)
(* inserted or hit keys, most recent first, so evict's Back() is the least  *)
(* recently used cached key, however the goroutines interleave.            *)
THEOREM LRUOrderIsRecency == Spec => []LRURecency
<1>1. CacheInv /\ RecencyInv => LRURecency
  <2> SUFFICES ASSUME CacheInv, RecencyInv PROVE LRURecency
    OBVIOUS
  <2>1. accessOrder \in Seq(Keys) /\ recency \in Seq(Keys)
    BY DEF CacheInv, TypeOK
  <2>2. accessOrder = SubSeq(recency, 1, Len(accessOrder))
    BY <2>1, PrefixIsSubSeq DEF RecencyInv
  <2>3. QED  BY <2>2 DEF LRURecency, RecencyInv, Prefix
<1>2. QED
  BY InitCacheInv, NextCacheInv, InitLRUInv, NextLRUInv, InitRecencyInv, NextRecencyInv,
     <1>1, PTL DEF Spec


-----------------------------------------------------------------------------
(* Eviction: what one step may remove from the map.                        *)

\* The step formula of EvictsOnlyLRU.
EvictStep ==
    \A k \in entries \ entries' :
        /\ Cardinality(entries) = Capacity
        /\ k = accessOrder[Len(accessOrder)]

(* insert(k) removes a key only through evict, on a full map, and the key  *)
(* it removes is the list's back.                                           *)
LEMMA InsertEvictsLRU ==
    ASSUME LRUInv, NEW k, Insert(k)
    PROVE  EvictStep
<1>0. Cardinality(entries) \in Nat
  BY FS_CardinalityType DEF LRUInv
<1>1. CASE k \in entries
  BY <1>1 DEF Insert, EvictStep
<1>2. CASE k \notin entries /\ Cardinality(entries) < Capacity
  <2>1. entries' = entries \cup {k}
    BY <1>2 DEF Insert, Evict
  <2>2. QED  BY <2>1 DEF EvictStep
<1>3. CASE k \notin entries /\ ~(Cardinality(entries) < Capacity)
  <2>1. entries' = (entries \ {accessOrder[Len(accessOrder)]}) \cup {k}
    BY <1>3 DEF Insert, Evict
  <2>2. Cardinality(entries) = Capacity
    BY <1>0, <1>3, CapacityAssumption DEF LRUInv
  <2>3. QED  BY <2>1, <2>2 DEF EvictStep
<1>4. QED  BY <1>1, <1>2, <1>3

LEMMA NextEvictStep == LRUInv /\ [Next]_vars => EvictStep
<1> SUFFICES ASSUME LRUInv, [Next]_vars PROVE EvictStep
  OBVIOUS
<1>1. ASSUME NEW t \in Threads, NEW m \in Msgs, Sign(t, m) PROVE EvictStep
  <2>1. PICK s \in Sigs : Insert(VerifyKey(m, s))
    BY <1>1 DEF Sign
  <2>2. QED  BY <2>1, InsertEvictsLRU
<1>2. ASSUME NEW t \in Threads, NEW kind, NEW x, NEW s, NEW key,
             CheckStep(t, kind, x, s, key)
      PROVE  EvictStep
  BY <1>2 DEF CheckStep, Promote, EvictStep
<1>3. ASSUME NEW t \in Threads, NEW kind, NEW key, NEW accepted,
             ImplStep(t, kind, key, accepted)
      PROVE  EvictStep
  <2>1. CASE Insert(key)
    BY <2>1, InsertEvictsLRU
  <2>2. CASE UNCHANGED entries
    BY <2>2 DEF EvictStep
  <2>3. QED  BY <1>3, <2>1, <2>2 DEF ImplStep
<1>4. CASE UNCHANGED vars
  BY <1>4 DEF vars, EvictStep
<1>5. QED
  BY <1>1, <1>2, <1>3, <1>4 DEF Next, VerifyCheck, BatchVerifyCheck, VerifyImpl, BatchVerifyImpl

(* The run's EvictsOnlyLRU, for every capacity and every interleaving of   *)
(* the goroutines: a key leaves cache.entries only when len(cache.entries) *)
(* has reached the capacity, and it is then the back of accessOrder, which *)
(* with LRUOrderIsRecency is the least recently used key.                  *)
THEOREM EvictionDropsLRU == Spec => EvictsOnlyLRU
<1>1. LRUInv /\ [Next]_vars => [EvictStep]_vars
  BY NextEvictStep
<1>2. QED
  BY InitCacheInv, NextCacheInv, InitLRUInv, NextLRUInv, <1>1, PTL
  DEF Spec, EvictsOnlyLRU, EvictStep

=============================================================================
