---------------------------- MODULE CryptoCache ----------------------------
(***************************************************************************)
(* The verification cache of src/crypto/cache.go.  A bounded LRU of keys,  *)
(* guarded by one mutex, wraps a signature primitive.  Several goroutines  *)
(* call Sign, Verify and BatchVerify concurrently; each critical section   *)
(* (insert, check) is one atomic step, while the primitive is called       *)
(* without the lock, so a Verify is two steps: the check, then the         *)
(* primitive call together with the insert that follows it.               *)
(*                                                                         *)
(* A key is <<digest, signature>>.  For Verify the digest is the message   *)
(* (sha256 is taken as injective).  For BatchVerify the code writes the    *)
(* digest with hasher.Sum(hash[:]), which appends to a copy and leaves     *)
(* `hash` all zero: the digest of every batch is ZeroHash.                 *)
(***************************************************************************)
EXTENDS Naturals, Sequences, FiniteSets

CONSTANTS
    Threads,     \* goroutines calling the cache
    Msgs,        \* messages given to Sign and Verify
    Batches,     \* per-signer message maps given to BatchVerify
    Sigs,        \* quorum signatures
    Valid,       \* pairs <<m, s>> the primitive's Verify accepts
    BatchValid,  \* pairs <<b, s>> the primitive's BatchVerify accepts
    ZeroHash,    \* the all-zero digest
    NoRet,       \* "no result yet"
    Capacity     \* the LRU capacity given to NewCache

ASSUME CapacityAssumption == Capacity \in Nat \ {0}
ASSUME ValidAssumption ==
    /\ Valid \subseteq Msgs \X Sigs
    /\ BatchValid \subseteq Batches \X Sigs
    /\ \A m \in Msgs : \E s \in Sigs : <<m, s>> \in Valid
    /\ ZeroHash \notin Msgs

VARIABLES
    entries,      \* DOMAIN of cache.entries
    accessOrder,  \* cache.accessOrder, front first
    pc,           \* per goroutine: "idle", "verify" or "batch" (missed, calling impl)
    arg,          \* per goroutine: the [in, sig] of its current call
    ret,          \* per goroutine: the last result returned by Verify/BatchVerify
    recency       \* history: every key ever inserted or hit, most recent first

vars == <<entries, accessOrder, pc, arg, ret, recency>>

Keys == (Msgs \cup {ZeroHash}) \X Sigs

Result == [kind : {"verify", "batch"}, in : Msgs \cup Batches, sig : Sigs, ok : BOOLEAN]

-----------------------------------------------------------------------------
(* Keys as the code builds them.                                           *)

\* Verify and Sign: sha256(message) || sig.ToBytes()
VerifyKey(m, s) == <<m, s>>

\* BatchVerify: the digest is never written into `hash`.
BatchKey(b, s) == <<ZeroHash, s>>

(* List helpers.                                                           *)
IndexOf(seq, k) == CHOOSE i \in 1..Len(seq) : seq[i] = k

DropAt(seq, i) == SubSeq(seq, 1, i - 1) \o SubSeq(seq, i + 1, Len(seq))

\* list.MoveToFront on the element holding k
MoveToFront(seq, k) == <<k>> \o DropAt(seq, IndexOf(seq, k))

\* the history: k moves to the front, everything else keeps its order
Touch(seq, k) ==
    IF \E i \in 1..Len(seq) : seq[i] = k THEN MoveToFront(seq, k) ELSE <<k>> \o seq

-----------------------------------------------------------------------------
(* The critical sections, as transformations of <<entries, accessOrder>>.  *)

\* Mutant of Evict: the list's front, the most recently used key, is dropped.
EvictFront(es, ao) ==
    IF Cardinality(es) < Capacity
    THEN <<es, ao>>
    ELSE <<es \ {ao[1]}, Tail(ao)>>

\* evict: when len(entries) reaches capacity, drop the list's back element.
Evict(es, ao) ==
    IF Cardinality(es) < Capacity
    THEN <<es, ao>>
    ELSE <<es \ {ao[Len(ao)]}, DropAt(ao, Len(ao))>>

\* Mutant of Insert: the existing-key branch is dropped.
InsertNoDedup(k) ==
    LET ev == Evict(entries, accessOrder)
    IN  /\ accessOrder' = <<k>> \o ev[2]
        /\ entries' = ev[1] \cup {k}

\* insert: promote an existing key, or evict and push a new one to the front.
Insert(k) ==
    IF k \in entries
    THEN /\ accessOrder' = MoveToFront(accessOrder, k)
         /\ entries' = entries
    ELSE LET ev == Evict(entries, accessOrder)
         IN  /\ accessOrder' = <<k>> \o ev[2]
             /\ entries' = ev[1] \cup {k}

\* Mutant of Promote: a hit does not MoveToFront.
PromoteNoMove(k) == UNCHANGED <<accessOrder, entries>>

\* check on a hit: promote the key.
Promote(k) ==
    /\ accessOrder' = MoveToFront(accessOrder, k)
    /\ UNCHANGED entries

-----------------------------------------------------------------------------
Init ==
    /\ entries = {}
    /\ accessOrder = << >>
    /\ pc = [t \in Threads |-> "idle"]
    /\ arg = [t \in Threads |-> NoRet]
    /\ ret = [t \in Threads |-> NoRet]
    /\ recency = << >>

\* Sign: impl.Sign (no shared state) then insert(key); an error inserts nothing.
Sign(t, m) ==
    /\ pc[t] = "idle"
    /\ \E s \in Sigs :
         /\ <<m, s>> \in Valid
         /\ Insert(VerifyKey(m, s))
         /\ recency' = Touch(recency, VerifyKey(m, s))
    /\ UNCHANGED <<pc, arg, ret>>

\* The check(key) step shared by Verify and BatchVerify: a hit returns true,
\* a miss leaves the goroutine about to call the primitive.
CheckStep(t, kind, x, s, key) ==
    /\ pc[t] = "idle"
    /\ \/ /\ key \in entries
          /\ Promote(key)
          /\ recency' = Touch(recency, key)
          /\ ret' = [ret EXCEPT ![t] = [kind |-> kind, in |-> x, sig |-> s, ok |-> TRUE]]
          /\ UNCHANGED <<pc, arg>>
       \/ /\ key \notin entries
          /\ pc' = [pc EXCEPT ![t] = kind]
          /\ arg' = [arg EXCEPT ![t] = [in |-> x, sig |-> s]]
          /\ UNCHANGED <<entries, accessOrder, ret, recency>>

\* Mutant of ImplStep: the key is inserted whatever the primitive answered.
ImplStepInsertAlways(t, kind, key, accepted) ==
    /\ pc[t] = kind
    /\ Insert(key)
    /\ recency' = Touch(recency, key)
    /\ ret' = [ret EXCEPT ![t] = [kind |-> kind, in |-> arg[t].in, sig |-> arg[t].sig,
                                  ok |-> accepted]]
    /\ pc' = [pc EXCEPT ![t] = "idle"]
    /\ arg' = [arg EXCEPT ![t] = NoRet]

\* The primitive's answer, then insert(key) only on success.
ImplStep(t, kind, key, accepted) ==
    /\ pc[t] = kind
    /\ \/ /\ accepted
          /\ Insert(key)
          /\ recency' = Touch(recency, key)
       \/ /\ ~accepted
          /\ UNCHANGED <<entries, accessOrder, recency>>
    /\ ret' = [ret EXCEPT ![t] = [kind |-> kind, in |-> arg[t].in, sig |-> arg[t].sig,
                                  ok |-> accepted]]
    /\ pc' = [pc EXCEPT ![t] = "idle"]
    /\ arg' = [arg EXCEPT ![t] = NoRet]

VerifyCheck(t, m, s) == CheckStep(t, "verify", m, s, VerifyKey(m, s))

VerifyImpl(t) ==
    ImplStep(t, "verify", VerifyKey(arg[t].in, arg[t].sig), <<arg[t].in, arg[t].sig>> \in Valid)

BatchVerifyCheck(t, b, s) == CheckStep(t, "batch", b, s, BatchKey(b, s))

BatchVerifyImpl(t) ==
    ImplStep(t, "batch", BatchKey(arg[t].in, arg[t].sig), <<arg[t].in, arg[t].sig>> \in BatchValid)

Next ==
    \E t \in Threads :
        \/ \E m \in Msgs : Sign(t, m)
        \/ \E m \in Msgs, s \in Sigs : VerifyCheck(t, m, s)
        \/ VerifyImpl(t)
        \/ \E b \in Batches, s \in Sigs : BatchVerifyCheck(t, b, s)
        \/ BatchVerifyImpl(t)

Spec == Init /\ [][Next]_vars

-----------------------------------------------------------------------------
(* Properties.                                                             *)

TypeOK ==
    /\ entries \subseteq Keys
    /\ accessOrder \in Seq(Keys)
    /\ pc \in [Threads -> {"idle", "verify", "batch"}]
    /\ arg \in [Threads -> [in : Msgs \cup Batches, sig : Sigs] \cup {NoRet}]
    /\ ret \in [Threads -> Result \cup {NoRet}]
    /\ recency \in Seq(Keys)

\* The map and the list of insert/check/evict agree under every interleaving
\* of goroutines: the list holds each cached key exactly once and never more
\* than Capacity keys (cache.go insert/evict).
LRUConsistent ==
    /\ {accessOrder[i] : i \in 1..Len(accessOrder)} = entries
    /\ \A i, j \in 1..Len(accessOrder) : accessOrder[i] = accessOrder[j] => i = j
    /\ Len(accessOrder) <= Capacity

\* LRU order: the list is exactly the Len(accessOrder) keys most recently
\* inserted or hit, most recent first, so evict always drops the least
\* recently used key (cache.go insert, check, evict).
LRURecency ==
    /\ Len(accessOrder) <= Len(recency)
    /\ accessOrder = SubSeq(recency, 1, Len(accessOrder))

\* What evict may do in one step: a key leaves cache.entries only when
\* len(cache.entries) has reached the capacity, and it is the list's back
\* element, so no other goroutine's insert or check ever loses a key
\* (cache.go insert, check, evict).
EvictsOnlyLRU ==
    [][\A k \in entries \ entries' :
          /\ Cardinality(entries) = Capacity
          /\ k = accessOrder[Len(accessOrder)]]_vars

\* Cache correctness (spec P5) for Verify: whenever Verify returned true,
\* whether from the cache or from the primitive, the primitive accepts the
\* pair (cache.go Verify).
VerifySound ==
    \A t \in Threads :
        ret[t] # NoRet /\ ret[t].kind = "verify" /\ ret[t].ok
            => <<ret[t].in, ret[t].sig>> \in Valid

\* Cache correctness (spec P5) for BatchVerify: whenever BatchVerify returned
\* true, the primitive accepts the batch under that signature.
BatchVerifySound ==
    \A t \in Threads :
        ret[t] # NoRet /\ ret[t].kind = "batch" /\ ret[t].ok
            => <<ret[t].in, ret[t].sig>> \in BatchValid

\* Every key the map holds is in the list, so the list element that insert
\* and check look up through cache.entries exists (cache.go insert, check).
EntriesListed ==
    \A k \in entries : \E i \in 1..Len(accessOrder) : accessOrder[i] = k

\* A cached Verify/Sign key records a pair the primitive accepts: only a
\* successful Sign or impl.Verify inserts one (cache.go Sign, Verify).
CachedValid ==
    \A k \in entries : k[1] \in Msgs => k \in Valid

\* A goroutine between check and the primitive call holds a message (Verify)
\* or a batch (BatchVerify) and a signature.
ArgsMatch ==
    \A t \in Threads :
        /\ pc[t] = "verify" => arg[t] \in [in : Msgs, sig : Sigs]
        /\ pc[t] = "batch" => arg[t] \in [in : Batches, sig : Sigs]

\* The inductive invariant behind VerifySound.
CacheInv == TypeOK /\ EntriesListed /\ CachedValid /\ ArgsMatch /\ VerifySound

\* Spec P6 as written: once more than Capacity distinct keys have been used,
\* the Capacity-th most recent one is no longer cached.
SpecLRUEviction ==
    Len(recency) > Capacity => recency[Capacity] \notin entries


=============================================================================
