------------------------- MODULE CryptoCacheProofs -------------------------
(***************************************************************************)
(* Proofs about CryptoCache: the type invariant, and that Verify never     *)
(* returns true for a pair the primitive rejects (spec P5), for every set  *)
(* of goroutines, messages, signatures and every capacity.                 *)
(***************************************************************************)
EXTENDS CryptoCache, SequenceTheorems, FiniteSetTheorems, TLAPS

\* x occurs in the sequence s
Listed(x, s) == \E i \in 1..Len(s) : s[i] = x

(* The two halves a and b of a sequence split around position i, put     *)
(* back together: a \o b is seq without its i-th element.                 *)
LEMMA JoinAroundProps ==
    ASSUME NEW S, NEW seq \in Seq(S), NEW i \in 1..Len(seq),
           NEW a \in Seq(S), NEW b \in Seq(S),
           Len(a) = i - 1, \A l \in 1..i-1 : a[l] = seq[l],
           Len(b) = Len(seq) - i, \A l \in 1..Len(seq)-i : b[l] = seq[i + l]
    PROVE  /\ a \o b \in Seq(S)
           /\ Len(a \o b) = Len(seq) - 1
           /\ \A j \in 1..Len(seq) : j # i => Listed(seq[j], a \o b)
<1>0. Len(seq) \in Nat
  BY LenProperties
<1>1. /\ a \o b \in Seq(S)
      /\ Len(a \o b) = Len(a) + Len(b)
      /\ \A l \in 1 .. Len(a) + Len(b) :
            (a \o b)[l] = IF l <= Len(a) THEN a[l] ELSE b[l - Len(a)]
  BY ConcatProperties
<1>2. ASSUME NEW j \in 1..Len(seq), j # i PROVE Listed(seq[j], a \o b)
  <2>1. CASE j < i
    <3>1. j \in 1..Len(a) + Len(b) /\ (a \o b)[j] = seq[j]
      BY <1>0, <1>1, <2>1
    <3>2. QED  BY <3>1, <1>1 DEF Listed
  <2>2. CASE j > i
    <3>1. j - 1 \in 1..Len(a) + Len(b) /\ ~(j - 1 <= Len(a))
      BY <1>0, <2>2
    <3>2. (a \o b)[j - 1] = b[j - 1 - Len(a)]
      BY <1>1, <3>1
    <3>3. j - 1 - Len(a) \in 1..Len(seq)-i /\ i + (j - 1 - Len(a)) = j
      BY <1>0, <2>2
    <3>4. (a \o b)[j - 1] = seq[j]
      BY <3>2, <3>3
    <3>5. QED  BY <3>1, <3>4, <1>1 DEF Listed
  <2>3. QED  BY <2>1, <2>2, <1>2
<1>3. QED  BY <1>0, <1>1, <1>2

(* DropAt removes exactly position i: the result is one shorter and every  *)
(* other element of seq is still listed.                                    *)
LEMMA DropAtProps ==
    ASSUME NEW S, NEW seq \in Seq(S), NEW i \in 1..Len(seq)
    PROVE  /\ DropAt(seq, i) \in Seq(S)
           /\ Len(DropAt(seq, i)) = Len(seq) - 1
           /\ \A j \in 1..Len(seq) : j # i => Listed(seq[j], DropAt(seq, i))
<1>0. Len(seq) \in Nat
  BY LenProperties
<1>1. /\ SubSeq(seq, 1, i - 1) \in Seq(S)
      /\ Len(SubSeq(seq, 1, i - 1)) = i - 1
      /\ \A l \in 1..i-1 : SubSeq(seq, 1, i - 1)[l] = seq[l]
  BY <1>0, SubSeqProperties
<1>2. /\ SubSeq(seq, i + 1, Len(seq)) \in Seq(S)
      /\ Len(SubSeq(seq, i + 1, Len(seq))) = Len(seq) - i
      /\ \A l \in 1..Len(seq)-i : SubSeq(seq, i + 1, Len(seq))[l] = seq[i + l]
  BY <1>0, SubSeqProperties
<1>3. QED
  BY <1>1, <1>2, JoinAroundProps, Zenon DEF DropAt

(* MoveToFront of a listed key keeps every element listed and the type.    *)
LEMMA MoveToFrontProps ==
    ASSUME NEW S, NEW seq \in Seq(S), NEW k \in S, Listed(k, seq)
    PROVE  /\ MoveToFront(seq, k) \in Seq(S)
           /\ \A j \in 1..Len(seq) : Listed(seq[j], MoveToFront(seq, k))
           /\ Listed(k, MoveToFront(seq, k))
<1> DEFINE i == IndexOf(seq, k)
<1>1. i \in 1..Len(seq) /\ seq[i] = k
  BY DEF IndexOf, Listed
<1> DEFINE d == DropAt(seq, i)
<1>2. /\ d \in Seq(S)
      /\ Len(d) = Len(seq) - 1
      /\ \A j \in 1..Len(seq) : j # i => Listed(seq[j], d)
  BY <1>1, DropAtProps
<1>3. MoveToFront(seq, k) = <<k>> \o d
  BY DEF MoveToFront
<1>4. /\ <<k>> \o d \in Seq(S)
      /\ Len(<<k>> \o d) = Len(d) + 1
      /\ (<<k>> \o d)[1] = k
      /\ \A l \in 1..Len(d) : (<<k>> \o d)[l + 1] = d[l]
  BY <1>2, ConcatProperties
<1>5. ASSUME NEW j \in 1..Len(seq) PROVE Listed(seq[j], <<k>> \o d)
  <2>1. CASE j = i
    BY <1>1, <1>4, <2>1 DEF Listed
  <2>2. CASE j # i
    <3>1. PICK l \in 1..Len(d) : d[l] = seq[j]
      BY <1>2, <2>2 DEF Listed
    <3>2. l + 1 \in 1..Len(<<k>> \o d) /\ (<<k>> \o d)[l + 1] = seq[j]
      BY <3>1, <1>2, <1>4
    <3>3. QED  BY <3>2 DEF Listed
  <2>3. QED  BY <2>1, <2>2
<1>6. Listed(k, <<k>> \o d)
  BY <1>4 DEF Listed
<1>7. QED  BY <1>3, <1>4, <1>5, <1>6

(* Touch keeps the history a sequence of keys.                             *)
LEMMA TouchType ==
    ASSUME NEW S, NEW seq \in Seq(S), NEW k \in S
    PROVE  Touch(seq, k) \in Seq(S)
<1>1. CASE Listed(k, seq)
  BY <1>1, MoveToFrontProps DEF Touch, Listed
<1>2. CASE ~Listed(k, seq)
  BY <1>2 DEF Touch, Listed
<1>3. QED  BY <1>1, <1>2

(* Pushing k on the front keeps every element listed and lists k.          *)
LEMMA ConsProps ==
    ASSUME NEW S, NEW seq \in Seq(S), NEW k \in S
    PROVE  /\ <<k>> \o seq \in Seq(S)
           /\ Listed(k, <<k>> \o seq)
           /\ \A j \in 1..Len(seq) : Listed(seq[j], <<k>> \o seq)
<1>0. Len(seq) \in Nat
  BY LenProperties
<1>1. /\ <<k>> \o seq \in Seq(S)
      /\ Len(<<k>> \o seq) = 1 + Len(seq)
      /\ \A l \in 1 .. 1 + Len(seq) :
            (<<k>> \o seq)[l] = IF l <= 1 THEN k ELSE seq[l - 1]
  BY ConcatProperties
<1>2. ASSUME NEW j \in 1..Len(seq) PROVE Listed(seq[j], <<k>> \o seq)
  <2>1. j + 1 \in 1..Len(<<k>> \o seq) /\ (<<k>> \o seq)[j + 1] = seq[j]
    BY <1>0, <1>1
  <2>2. QED  BY <2>1 DEF Listed
<1>3. Listed(k, <<k>> \o seq)
  BY <1>0, <1>1 DEF Listed
<1>4. QED  BY <1>1, <1>2, <1>3

-----------------------------------------------------------------------------
(* insert(k) keeps the map's keys listed, typed and valid, for a typed key  *)
(* that is valid whenever it is a Verify key.                               *)
LEMMA InsertPreserves ==
    ASSUME TypeOK, EntriesListed, CachedValid,
           NEW k \in Keys, k[1] \in Msgs => k \in Valid,
           Insert(k)
    PROVE  /\ entries' \subseteq Keys
           /\ accessOrder' \in Seq(Keys)
           /\ EntriesListed'
           /\ CachedValid'
<1>0. /\ accessOrder \in Seq(Keys)
      /\ entries \subseteq Keys
      /\ \A e \in entries : Listed(e, accessOrder)
  BY DEF TypeOK, EntriesListed, Listed
<1>1. CASE k \in entries
  <2>1. accessOrder' = MoveToFront(accessOrder, k) /\ entries' = entries
    BY <1>1 DEF Insert
  <2>2. /\ MoveToFront(accessOrder, k) \in Seq(Keys)
        /\ \A j \in 1..Len(accessOrder) : Listed(accessOrder[j], MoveToFront(accessOrder, k))
    BY <1>0, <1>1, MoveToFrontProps
  <2>3. \A e \in entries : Listed(e, MoveToFront(accessOrder, k))
    BY <1>0, <2>2 DEF Listed
  <2>4. QED  BY <1>0, <2>1, <2>2, <2>3 DEF EntriesListed, Listed, CachedValid
<1>2. CASE k \notin entries /\ Cardinality(entries) < Capacity
  <2>1. accessOrder' = <<k>> \o accessOrder /\ entries' = entries \cup {k}
    BY <1>2 DEF Insert, Evict
  <2>2. /\ <<k>> \o accessOrder \in Seq(Keys)
        /\ Listed(k, <<k>> \o accessOrder)
        /\ \A j \in 1..Len(accessOrder) : Listed(accessOrder[j], <<k>> \o accessOrder)
    BY <1>0, ConsProps
  <2>3. \A e \in entries' : Listed(e, accessOrder')
    BY <1>0, <2>1, <2>2 DEF Listed
  <2>4. QED  BY <1>0, <2>1, <2>2, <2>3 DEF EntriesListed, Listed, CachedValid
<1>3. CASE k \notin entries /\ ~(Cardinality(entries) < Capacity)
  <2>1. entries # {}
    BY <1>3, CapacityAssumption, FS_EmptySet
  <2>2. Len(accessOrder) >= 1 /\ Len(accessOrder) \in Nat
    BY <1>0, <2>1, LenProperties DEF Listed
  <2> DEFINE last == accessOrder[Len(accessOrder)]
             front == DropAt(accessOrder, Len(accessOrder))
  <2>3. accessOrder' = <<k>> \o front /\ entries' = (entries \ {last}) \cup {k}
    BY <1>3 DEF Insert, Evict
  <2>4. /\ front \in Seq(Keys)
        /\ \A j \in 1..Len(accessOrder) : j # Len(accessOrder) => Listed(accessOrder[j], front)
    BY <1>0, <2>2, DropAtProps
  <2>5. /\ <<k>> \o front \in Seq(Keys)
        /\ Listed(k, <<k>> \o front)
        /\ \A j \in 1..Len(front) : Listed(front[j], <<k>> \o front)
    BY <2>4, ConsProps
  <2>6. ASSUME NEW e \in entries \ {last} PROVE Listed(e, front)
    <3>1. PICK j \in 1..Len(accessOrder) : accessOrder[j] = e
      BY <1>0, <2>6 DEF Listed
    <3>2. j # Len(accessOrder)
      BY <3>1, <2>6
    <3>3. QED  BY <3>1, <3>2, <2>4
  <2>7. \A e \in entries' : Listed(e, accessOrder')
    BY <2>3, <2>5, <2>6 DEF Listed
  <2>8. QED  BY <1>0, <2>3, <2>5, <2>7 DEF EntriesListed, Listed, CachedValid
<1>4. QED  BY <1>1, <1>2, <1>3

(* check(key) on a hit promotes a listed key and keeps the map's keys      *)
(* listed and typed.                                                        *)
LEMMA PromotePreserves ==
    ASSUME TypeOK, EntriesListed, NEW k \in entries, Promote(k)
    PROVE  /\ entries' = entries
           /\ accessOrder' \in Seq(Keys)
           /\ EntriesListed'
<1>1. /\ accessOrder \in Seq(Keys)
      /\ k \in Keys
      /\ Listed(k, accessOrder)
      /\ \A e \in entries : Listed(e, accessOrder)
  BY DEF TypeOK, EntriesListed, Listed
<1>2. /\ MoveToFront(accessOrder, k) \in Seq(Keys)
      /\ \A j \in 1..Len(accessOrder) : Listed(accessOrder[j], MoveToFront(accessOrder, k))
  BY <1>1, MoveToFrontProps
<1>3. \A e \in entries : Listed(e, MoveToFront(accessOrder, k))
  BY <1>1, <1>2 DEF Listed
<1>4. QED  BY <1>2, <1>3 DEF Promote, EntriesListed, Listed

-----------------------------------------------------------------------------
(* One lemma per action: each preserves CacheInv.                          *)

LEMMA InitCacheInv == Init => CacheInv
BY DEF Init, CacheInv, TypeOK, EntriesListed, CachedValid, ArgsMatch, VerifySound

LEMMA SignPreserves ==
    ASSUME CacheInv, NEW t \in Threads, NEW m \in Msgs, Sign(t, m)
    PROVE  CacheInv'
<1>1. PICK s \in Sigs : /\ <<m, s>> \in Valid
                        /\ Insert(VerifyKey(m, s))
                        /\ recency' = Touch(recency, VerifyKey(m, s))
  BY DEF Sign
<1>2. VerifyKey(m, s) \in Keys /\ (VerifyKey(m, s)[1] \in Msgs => VerifyKey(m, s) \in Valid)
  BY <1>1 DEF VerifyKey, Keys
<1>3. /\ entries' \subseteq Keys
      /\ accessOrder' \in Seq(Keys)
      /\ EntriesListed'
      /\ CachedValid'
  BY <1>1, <1>2, InsertPreserves DEF CacheInv
<1>4. recency' \in Seq(Keys)
  BY <1>1, <1>2, TouchType DEF CacheInv, TypeOK
<1>5. UNCHANGED <<pc, arg, ret>>
  BY DEF Sign
<1>6. QED
  BY <1>3, <1>4, <1>5 DEF CacheInv, TypeOK, ArgsMatch, VerifySound

LEMMA CheckPreserves ==
    ASSUME CacheInv, NEW t \in Threads,
           NEW kind \in {"verify", "batch"}, NEW x, NEW s \in Sigs,
           kind = "verify" => x \in Msgs, kind = "batch" => x \in Batches,
           NEW key \in Keys,
           kind = "verify" => key = VerifyKey(x, s),
           CheckStep(t, kind, x, s, key)
    PROVE  CacheInv'
<1>0. x \in Msgs \cup Batches
  OBVIOUS
<1>1. CASE /\ key \in entries
           /\ Promote(key)
           /\ recency' = Touch(recency, key)
           /\ ret' = [ret EXCEPT ![t] = [kind |-> kind, in |-> x, sig |-> s, ok |-> TRUE]]
           /\ UNCHANGED <<pc, arg>>
  <2>1. /\ entries' = entries
        /\ accessOrder' \in Seq(Keys)
        /\ EntriesListed'
    BY <1>1, PromotePreserves DEF CacheInv
  <2>2. recency' \in Seq(Keys)
    BY <1>1, TouchType DEF CacheInv, TypeOK
  <2>3. ret' \in [Threads -> Result \cup {NoRet}]
    BY <1>0, <1>1 DEF CacheInv, TypeOK, Result
  <2>4. kind = "verify" => <<x, s>> \in Valid
    BY <1>1 DEF CacheInv, CachedValid, VerifyKey
  <2>5. VerifySound'
    BY <1>1, <2>4 DEF CacheInv, VerifySound
  <2>6. QED
    BY <1>1, <2>1, <2>2, <2>3, <2>5 DEF CacheInv, TypeOK, CachedValid, ArgsMatch
<1>2. CASE /\ key \notin entries
           /\ pc' = [pc EXCEPT ![t] = kind]
           /\ arg' = [arg EXCEPT ![t] = [in |-> x, sig |-> s]]
           /\ UNCHANGED <<entries, accessOrder, ret, recency>>
  <2>1. pc' \in [Threads -> {"idle", "verify", "batch"}]
        /\ arg' \in [Threads -> [in : Msgs \cup Batches, sig : Sigs] \cup {NoRet}]
    BY <1>0, <1>2 DEF CacheInv, TypeOK
  <2>2. ArgsMatch'
    BY <1>2 DEF CacheInv, ArgsMatch, TypeOK
  <2>3. QED
    BY <1>2, <2>1, <2>2 DEF CacheInv, TypeOK, EntriesListed, CachedValid, VerifySound
<1>3. QED  BY <1>1, <1>2 DEF CheckStep

LEMMA ImplPreserves ==
    ASSUME CacheInv, NEW t \in Threads, NEW kind \in {"verify", "batch"},
           NEW key \in Keys, NEW accepted \in BOOLEAN,
           kind = "verify" => /\ arg[t] \in [in : Msgs, sig : Sigs]
                              /\ key = VerifyKey(arg[t].in, arg[t].sig)
                              /\ accepted = (<<arg[t].in, arg[t].sig>> \in Valid),
           kind = "batch" => /\ arg[t] \in [in : Batches, sig : Sigs]
                             /\ key[1] = ZeroHash,
           ImplStep(t, kind, key, accepted)
    PROVE  CacheInv'
<1>0. /\ arg[t] \in [in : Msgs \cup Batches, sig : Sigs]
      /\ (key[1] \in Msgs => key \in Valid) \/ ~accepted
  BY ValidAssumption DEF VerifyKey
<1>1. /\ entries' \subseteq Keys
      /\ accessOrder' \in Seq(Keys)
      /\ recency' \in Seq(Keys)
      /\ EntriesListed'
      /\ CachedValid'
  <2>1. CASE accepted /\ Insert(key) /\ recency' = Touch(recency, key)
    <3>1. key[1] \in Msgs => key \in Valid
      BY <1>0, <2>1
    <3>2. QED  BY <2>1, <3>1, InsertPreserves, TouchType DEF CacheInv, TypeOK
  <2>2. CASE ~accepted /\ UNCHANGED <<entries, accessOrder, recency>>
    BY <2>2 DEF CacheInv, TypeOK, EntriesListed, CachedValid
  <2>3. QED  BY <2>1, <2>2 DEF ImplStep
<1>2. /\ ret' = [ret EXCEPT ![t] = [kind |-> kind, in |-> arg[t].in, sig |-> arg[t].sig,
                                    ok |-> accepted]]
      /\ pc' = [pc EXCEPT ![t] = "idle"]
      /\ arg' = [arg EXCEPT ![t] = NoRet]
  BY DEF ImplStep
<1>3. /\ ret' \in [Threads -> Result \cup {NoRet}]
      /\ pc' \in [Threads -> {"idle", "verify", "batch"}]
      /\ arg' \in [Threads -> [in : Msgs \cup Batches, sig : Sigs] \cup {NoRet}]
  BY <1>0, <1>2 DEF CacheInv, TypeOK, Result
<1>4. ArgsMatch'
  BY <1>2 DEF CacheInv, ArgsMatch, TypeOK
<1>5. VerifySound'
  BY <1>2 DEF CacheInv, VerifySound
<1>6. QED  BY <1>1, <1>3, <1>4, <1>5 DEF CacheInv, TypeOK

(* CacheInv is inductive.                                                  *)
LEMMA NextCacheInv == CacheInv /\ [Next]_vars => CacheInv'
<1> SUFFICES ASSUME CacheInv, [Next]_vars PROVE CacheInv'
  OBVIOUS
<1>1. ASSUME NEW t \in Threads, NEW m \in Msgs, Sign(t, m) PROVE CacheInv'
  BY <1>1, SignPreserves
<1>2. ASSUME NEW t \in Threads, NEW m \in Msgs, NEW s \in Sigs, VerifyCheck(t, m, s)
      PROVE CacheInv'
  <2>1. VerifyKey(m, s) \in Keys
    BY DEF VerifyKey, Keys
  <2>2. QED  BY <1>2, <2>1, CheckPreserves DEF VerifyCheck
<1>3. ASSUME NEW t \in Threads, VerifyImpl(t) PROVE CacheInv'
  <2>1. pc[t] = "verify"
    BY <1>3 DEF VerifyImpl, ImplStep
  <2>2. arg[t] \in [in : Msgs, sig : Sigs]
    BY <2>1 DEF CacheInv, ArgsMatch
  <2>3. VerifyKey(arg[t].in, arg[t].sig) \in Keys
    BY <2>2 DEF VerifyKey, Keys
  <2>4. (<<arg[t].in, arg[t].sig>> \in Valid) \in BOOLEAN
    OBVIOUS
  <2>5. ImplStep(t, "verify", VerifyKey(arg[t].in, arg[t].sig),
                 <<arg[t].in, arg[t].sig>> \in Valid)
    BY <1>3 DEF VerifyImpl
  <2>6. QED  BY <2>2, <2>3, <2>4, <2>5, ImplPreserves
<1>4. ASSUME NEW t \in Threads, NEW b \in Batches, NEW s \in Sigs, BatchVerifyCheck(t, b, s)
      PROVE CacheInv'
  <2>1. BatchKey(b, s) \in Keys
    BY DEF BatchKey, Keys
  <2>2. QED  BY <1>4, <2>1, CheckPreserves DEF BatchVerifyCheck
<1>5. ASSUME NEW t \in Threads, BatchVerifyImpl(t) PROVE CacheInv'
  <2>1. pc[t] = "batch"
    BY <1>5 DEF BatchVerifyImpl, ImplStep
  <2>2. arg[t] \in [in : Batches, sig : Sigs]
    BY <2>1 DEF CacheInv, ArgsMatch
  <2>3. BatchKey(arg[t].in, arg[t].sig) \in Keys /\ BatchKey(arg[t].in, arg[t].sig)[1] = ZeroHash
    BY <2>2 DEF BatchKey, Keys
  <2>4. (<<arg[t].in, arg[t].sig>> \in BatchValid) \in BOOLEAN
    OBVIOUS
  <2>5. QED  BY <1>5, <2>2, <2>3, <2>4, ImplPreserves DEF BatchVerifyImpl
<1>6. CASE UNCHANGED vars
  BY <1>6 DEF vars, CacheInv, TypeOK, EntriesListed, CachedValid, ArgsMatch, VerifySound
<1>7. QED  BY <1>1, <1>2, <1>3, <1>4, <1>5, <1>6 DEF Next

-----------------------------------------------------------------------------
(* Type correctness of the cache model: every reachable state has the      *)
(* types of cache.go's fields and of the goroutines' calls.                *)
THEOREM TypeCorrect == Spec => []TypeOK
<1>1. CacheInv => TypeOK
  BY DEF CacheInv
<1>2. QED  BY InitCacheInv, NextCacheInv, <1>1, PTL DEF Spec

(* Spec P5 for Verify, for every capacity, set of goroutines, messages and *)
(* signatures: cache.go's Verify returns true only for a pair the          *)
(* primitive accepts, however the goroutines' checks, primitive calls and  *)
(* inserts interleave and whatever evict drops.                            *)
THEOREM VerifyCacheSound == Spec => []VerifySound
<1>1. CacheInv => VerifySound
  BY DEF CacheInv
<1>2. QED  BY InitCacheInv, NextCacheInv, <1>1, PTL DEF Spec

(* The run's CacheInv: every cached key is listed, every cached Verify key *)
(* is a pair the primitive accepts, and every goroutine between check and  *)
(* the primitive call holds an argument of its kind (cache.go Sign,        *)
(* Verify, BatchVerify, insert, check).                                    *)
THEOREM CacheInvariant == Spec => []CacheInv
BY InitCacheInv, NextCacheInv, PTL DEF Spec

=============================================================================
