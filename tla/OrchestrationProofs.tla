------------------------ MODULE OrchestrationProofs ------------------------
(***************************************************************************)
(* Proofs about Experiment.Run, for every number of hosts, replicas and   *)
(* clients, whatever hosts fail and whenever the senders marshal:         *)
(*  - createReplicas and startClients never give one replica or client ID *)
(*    to two hosts (IDsUnique);                                           *)
(*  - when the number of hosts divides NumReplicas, every replica ID is   *)
(*    created once CreateReplicaQF accepts (AllReplicasCreated).          *)
(***************************************************************************)
EXTENDS Orchestration, FiniteSetTheorems, WellFoundedInduction, TLAPS

(* The inductive invariant.  While createReplicas (startClients) runs,    *)
(* every ID handed out so far is below the shared nextID, so the next     *)
(* host's IDs, taken from nextID on, are new; before each of these calls  *)
(* the maps are empty and nextID is 1.                                    *)
IInv ==
    /\ pc \in DOMAIN After \cup {"done", "failed"}
    /\ nextID \in Nat \ {0}
    /\ nodesToReplicas \in [Hosts -> SUBSET Nat]
    /\ nodesToClients \in [Hosts -> SUBSET Nat]
    /\ pc = "connect" => nextID = 1 /\ \A u \in Hosts : nodesToReplicas[u] = {}
    /\ pc = "createReplicas" => \A u \in Hosts : nodesToReplicas[u] \subseteq 1..nextID - 1
    /\ pc = "startClients" => \A u \in Hosts : nodesToClients[u] \subseteq 1..nextID - 1
    /\ IDsUnique

-----------------------------------------------------------------------------
(* Assign hands out an interval of IDs from next on and returns the next   *)
(* free ID, above all of them.                                            *)
LEMMA AssignProps ==
    ASSUME NEW next \in Nat \ {0}, NEW count \in Nat
    PROVE  /\ Assign(next, count).ids \subseteq next..(Assign(next, count).next - 1)
           /\ Assign(next, count).next \in Nat \ {0}
           /\ Assign(next, count).next >= next
<1> DEFINE k == count \div H
           m == IF next + k - 1 <= count THEN next + k - 1 ELSE count
           ids == {id \in next..(next + k - 1) : id <= count}
<1>1. k \in Nat /\ m \in Int
  BY HostsAssumption
<1>2. ids = next..m
  BY <1>1
<1>3. Cardinality(next..m) = IF next > m THEN 0 ELSE m - next + 1
  <2>1. next \in Int /\ m \in Int
    BY <1>1
  <2>2. QED  BY <2>1, FS_Interval, Zenon
<1>4. /\ Assign(next, count).ids = next..m
      /\ Assign(next, count).next = next + Cardinality(next..m)
  BY <1>2 DEF Assign
<1>5. QED  BY <1>1, <1>3, <1>4

-----------------------------------------------------------------------------
LEMMA InitIInv == Init => IInv
BY DEF Init, IInv, IDsUnique, After

\* Every host's IDs in the map f lie below n.
Below(f, n) == \A v \in Hosts : f[v] \subseteq 1..n - 1

\* No ID of the map f belongs to two hosts.
Disjoint(f) == \A v, w \in Hosts : v # w => f[v] \cap f[w] = {}

\* g maps hosts to IDs, disjointly and below n.
WellFormed(g, n) == g \in [Hosts -> SUBSET Nat] /\ Below(g, n) /\ Disjoint(g)

\* A host's new IDs, all at or above nextID, keep the map disjoint and
\* below the new nextID.
LEMMA AddIDsKeeps ==
    ASSUME NEW f \in [Hosts -> SUBSET Nat], NEW u, NEW next \in Nat \ {0}, NEW new \in Nat,
           next <= new,
           NEW ids, ids \subseteq next..new - 1,
           Below(f, next), Disjoint(f),
           NEW g, g = [f EXCEPT ![u] = f[u] \cup ids]
    PROVE  WellFormed(g, new)
<1> USE DEF WellFormed, Below, Disjoint
<1>1. CASE u \notin Hosts
  <2>1. g = f
    BY <1>1
  <2>2. \A v \in Hosts : f[v] \subseteq 1..new - 1
    OBVIOUS
  <2>3. QED  BY <2>1, <2>2
<1>2. CASE u \in Hosts
  <2>1. \A v \in Hosts : g[v] = IF v = u THEN f[v] \cup ids ELSE f[v]
    BY <1>2
  <2>2. g \in [Hosts -> SUBSET Nat]
    <3>1. ids \subseteq Nat
      OBVIOUS
    <3>2. \A v \in Hosts : g[v] \in SUBSET Nat
      BY <2>1, <3>1
    <3>3. DOMAIN g = Hosts
      OBVIOUS
    <3>4. QED  BY <3>2, <3>3, Zenon
  <2>3. \A v \in Hosts : g[v] \subseteq 1..new - 1
    <3>1. 1..next - 1 \subseteq 1..new - 1 /\ next..new - 1 \subseteq 1..new - 1
      OBVIOUS
    <3>2. QED  BY <2>1, <3>1, Zenon
  <2>4. \A v, w \in Hosts : v # w => g[v] \cap g[w] = {}
    BY <2>1
  <2>5. QED  BY <2>2, <2>3, <2>4
<1>3. QED  BY <1>1, <1>2

-----------------------------------------------------------------------------
\* The per-node function of createReplicas or startClients for host u.
LEMMA PerNodeKeeps == IInv /\ PerNode => IInv'
<1> SUFFICES ASSUME IInv, PerNode PROVE IInv'
  OBVIOUS
<1> DEFINE u == NextHost
<1>1. CASE pc = "createReplicas"
  <2> DEFINE r == Assign(nextID, NumReplicas)
  <2>1. /\ nodesToReplicas' = [nodesToReplicas EXCEPT ![u] = @ \cup r.ids]
        /\ nextID' = r.next
        /\ UNCHANGED <<pc, nodesToClients>>
    BY <1>1 DEF PerNode
  <2>2. /\ r.ids \subseteq nextID..(r.next - 1)
        /\ r.next \in Nat \ {0}
        /\ r.next >= nextID
    BY CountAssumption, AssignProps DEF IInv
  <2>3. /\ nodesToReplicas' \in [Hosts -> SUBSET Nat]
        /\ \A v \in Hosts : nodesToReplicas'[v] \subseteq 1..nextID' - 1
        /\ \A v, w \in Hosts : v # w => nodesToReplicas'[v] \cap nodesToReplicas'[w] = {}
    <3> DEFINE ids == r.ids  new == r.next
    <3>1. /\ nodesToReplicas \in [Hosts -> SUBSET Nat]
          /\ nextID \in Nat \ {0} /\ new \in Nat /\ nextID <= new
          /\ ids \subseteq nextID..new - 1
          /\ Below(nodesToReplicas, nextID) /\ Disjoint(nodesToReplicas)
      BY <1>1, <2>2 DEF IInv, IDsUnique, Below, Disjoint
    <3>2. nodesToReplicas' = [nodesToReplicas EXCEPT ![u] = @ \cup ids]
      BY <2>1
    <3> HIDE DEF ids, new, u
    <3>3. WellFormed(nodesToReplicas', new)
      BY <3>1, <3>2, AddIDsKeeps
    <3>4. QED  BY <2>1, <3>3 DEF ids, new, WellFormed, Below, Disjoint
  <2>4. QED  BY <1>1, <2>1, <2>2, <2>3 DEF IInv, IDsUnique
<1>2. CASE pc = "startClients"
  <2> DEFINE r == Assign(nextID, NumClients)
  <2>1. /\ nodesToClients' = [nodesToClients EXCEPT ![u] = @ \cup r.ids]
        /\ nextID' = r.next
        /\ UNCHANGED <<pc, nodesToReplicas>>
    BY <1>2 DEF PerNode
  <2>2. /\ r.ids \subseteq nextID..(r.next - 1)
        /\ r.next \in Nat \ {0}
        /\ r.next >= nextID
    BY CountAssumption, AssignProps DEF IInv
  <2>3. /\ nodesToClients' \in [Hosts -> SUBSET Nat]
        /\ \A v \in Hosts : nodesToClients'[v] \subseteq 1..nextID' - 1
        /\ \A v, w \in Hosts : v # w => nodesToClients'[v] \cap nodesToClients'[w] = {}
    <3> DEFINE ids == r.ids  new == r.next
    <3>1. /\ nodesToClients \in [Hosts -> SUBSET Nat]
          /\ nextID \in Nat \ {0} /\ new \in Nat /\ nextID <= new
          /\ ids \subseteq nextID..new - 1
          /\ Below(nodesToClients, nextID) /\ Disjoint(nodesToClients)
      BY <1>2, <2>2 DEF IInv, IDsUnique, Below, Disjoint
    <3>2. nodesToClients' = [nodesToClients EXCEPT ![u] = @ \cup ids]
      BY <2>1
    <3> HIDE DEF ids, new, u
    <3>3. WellFormed(nodesToClients', new)
      BY <3>1, <3>2, AddIDsKeeps
    <3>4. QED  BY <2>1, <3>3 DEF ids, new, WellFormed, Below, Disjoint
  <2>4. QED  BY <1>2, <2>1, <2>2, <2>3 DEF IInv, IDsUnique
<1>3. CASE pc \notin {"createReplicas", "startClients"}
  <2>1. UNCHANGED <<pc, nextID, nodesToReplicas, nodesToClients>>
    BY <1>3 DEF PerNode
  <2>2. QED  BY <2>1 DEF IInv, IDsUnique
<1>4. QED  BY <1>1, <1>2, <1>3

\* Every quorum call completing resets nextID and, before startClients, the
\* clients' map.
LEMMA CompleteKeeps == IInv /\ Complete => IInv'
<1> SUFFICES ASSUME IInv, Complete PROVE IInv'
  OBVIOUS
<1>1. pc \in QuorumCalls /\ nextID' = 1 /\ UNCHANGED nodesToReplicas
  BY DEF Complete
<1>2. pc' \in DOMAIN After \cup {"done", "failed"} /\ pc' \notin {"connect", "createReplicas"}
  BY <1>1 DEF Complete, After, QuorumCalls
<1>3. pc' = "startClients" => nodesToClients' = [u \in Hosts |-> {}]
  BY <1>1 DEF Complete, After, QuorumCalls
<1>4. nodesToClients' \in [Hosts -> SUBSET Nat]
  BY DEF Complete, IInv
<1>5. \A u, v \in Hosts : u # v => nodesToClients'[u] \cap nodesToClients'[v] = {}
  BY DEF Complete, IInv, IDsUnique
<1>6. QED  BY <1>1, <1>2, <1>3, <1>4, <1>5 DEF IInv, IDsUnique

LEMMA NextIInv == IInv /\ [Next]_vars => IInv'
<1> SUFFICES ASSUME IInv, [Next]_vars PROVE IInv'
  OBVIOUS
<1>1. CASE Connect
  BY <1>1 DEF Connect, IInv, IDsUnique, After
<1>2. CASE PerNode
  BY <1>2, PerNodeKeeps
<1>3. CASE \E u \in Hosts : Marshal(u) \/ Reply(u) \/ Fail(u)
  BY <1>3 DEF Marshal, Reply, Fail, IInv, IDsUnique
<1>4. CASE Complete
  BY <1>4, CompleteKeeps
<1>5. CASE Abort
  BY <1>5 DEF Abort, IInv, IDsUnique
<1>6. CASE UNCHANGED vars
  BY <1>6 DEF vars, IInv, IDsUnique
<1>7. QED  BY <1>1, <1>2, <1>3, <1>4, <1>5, <1>6 DEF Next

(* No replica or client ID is ever given to two hosts, for every number of *)
(* hosts, replicas and clients (controller.go createReplicas and           *)
(* startClients, the shared nextID of their per-node closures).           *)
THEOREM IDsNeverShared == Spec => []IDsUnique
<1>1. IInv => IDsUnique
  BY DEF IInv
<1>2. QED  BY InitIInv, NextIInv, <1>1, PTL DEF Spec


-----------------------------------------------------------------------------
(* When the number of hosts divides NumReplicas, createReplicas creates    *)
(* every replica ID.                                                        *)

(* The inductive invariant.  During createReplicas the called hosts hold  *)
(* exactly the IDs below nextID, NumReplicas \div H of them each; when     *)
(* every host replied, that is 1..NumReplicas.                              *)
CreatedInv ==
    /\ called \subseteq Hosts
    /\ replied \subseteq called
    /\ pc = "connect" => called = {}
    /\ pc = "createReplicas" =>
          /\ nextID = 1 + (NumReplicas \div H) * Cardinality(called)
          /\ UNION {nodesToReplicas[u] : u \in Hosts} = 1..nextID - 1
    /\ pc \notin {"connect", "createReplicas", "failed"} => created = 1..NumReplicas

(* gorums' node order: while some host is not called, NextHost is one.     *)
LEMMA NextHostFree ==
    ASSUME called \subseteq Hosts, called # Hosts
    PROVE  NextHost \in Hosts \ called
<1> DEFINE T == Hosts \ called
           R == OpToRel(<, Nat)
<1>1. T # {} /\ T \subseteq Nat
  <2>1. T # {}
    OBVIOUS
  <2>2. T \subseteq Nat
    BY HostsAssumption DEF Hosts
  <2>3. QED  BY <2>1, <2>2
<1>2. PICK x \in T : \A y \in T : ~(<<y, x>> \in R)
  BY <1>1, NatLessThanWellFounded, WFMin
<1>3. ASSUME NEW y \in T PROVE x <= y
  <2>1. y < x => <<y, x>> \in R
    BY <1>1 DEF OpToRel
  <2>2. ~(<<y, x>> \in R)
    BY <1>2, Zenon
  <2>3. ~(y < x)
    BY <2>1, <2>2, Zenon
  <2>4. x \in Nat /\ y \in Nat
    BY <1>1
  <2>5. QED  BY <2>3, <2>4
<1>4. QED  BY <1>3 DEF NextHost

(* The called hosts are a finite set of at most H; fewer while some host   *)
(* is not called.                                                           *)
LEMMA CalledCard ==
    ASSUME NEW C \in SUBSET Hosts
    PROVE  /\ IsFiniteSet(C)
           /\ Cardinality(C) \in 0..H
           /\ C # Hosts => Cardinality(C) < H
<1>1. IsFiniteSet(Hosts) /\ Cardinality(Hosts) = H
  BY HostsAssumption, FS_Interval DEF Hosts
<1>2. IsFiniteSet(C) /\ Cardinality(C) <= H /\ (Cardinality(C) = H => C = Hosts)
  BY <1>1, FS_Subset
<1>3. Cardinality(C) \in Nat
  BY <1>2, FS_CardinalityType
<1>4. QED  BY <1>2, <1>3, HostsAssumption

(* With room for all count \div H IDs, Assign hands out the whole interval. *)
LEMMA AssignExact ==
    ASSUME NEW next \in Nat \ {0}, NEW count \in Nat,
           next + count \div H - 1 <= count
    PROVE  /\ Assign(next, count).ids = next..(next + count \div H - 1)
           /\ Assign(next, count).next = next + count \div H
<1> DEFINE k == count \div H
<1>1. k \in Nat /\ next + k - 1 <= count
  BY HostsAssumption
<1> HIDE DEF k
<1>2. {id \in next..(next + k - 1) : id <= count} = next..(next + k - 1)
  BY <1>1
<1>3. Cardinality(next..(next + k - 1)) = k
  <2>1. next \in Int /\ next + k - 1 \in Int
    BY <1>1
  <2>2. Cardinality(next..(next + k - 1))
          = IF next > next + k - 1 THEN 0 ELSE (next + k - 1) - next + 1
    BY <2>1, FS_Interval, Zenon
  <2>3. QED  BY <1>1, <2>2
<1>4. QED  BY <1>2, <1>3 DEF Assign, k

LEMMA MulMonotone == \A k, a, b \in Nat : a <= b => k * a <= k * b
OBVIOUS

LEMMA MulSucc == \A k, a \in Nat : k * (a + 1) = k * a + k
OBVIOUS

\* The hosts split the replicas evenly: the condition under which
\* createReplicas' loop bound NumReplicas \div H loses no replica.
EvenSplit == NumReplicas % H = 0

LEMMA InitCreatedInv == Init => CreatedInv
BY DEF Init, CreatedInv

\* The per-node function of createReplicas hands the next host the next
\* NumReplicas \div H IDs.
LEMMA PerNodeCreated ==
    ASSUME EvenSplit, IInv, CreatedInv, PerNode
    PROVE  CreatedInv'
<1> DEFINE u == NextHost
           k == NumReplicas \div H
           c == Cardinality(called)
<1>1. called \subseteq Hosts /\ called # Hosts
  BY DEF PerNode, CreatedInv
<1>2. u \in Hosts \ called
  BY <1>1, NextHostFree
<1>3. called' = called \cup {u} /\ UNCHANGED <<pc, replied, created>>
  BY DEF PerNode
<1>4. called' \subseteq Hosts /\ replied' \subseteq called'
  BY <1>2, <1>3 DEF CreatedInv
<1>5. pc \notin {"connect"}
  BY DEF PerNode, QuorumCalls
<1>6. CASE pc = "createReplicas"
  <2> DEFINE r == Assign(nextID, NumReplicas)
  <2>1. IsFiniteSet(called) /\ c \in 0..H /\ c < H
    BY <1>1, CalledCard
  <2>2. k \in Nat /\ NumReplicas = k * H
    BY HostsAssumption, CountAssumption DEF EvenSplit
  <2>3. nextID = 1 + k * c /\ nextID \in Nat \ {0}
    BY <1>6 DEF CreatedInv, IInv
  <2>4. nextID + k - 1 <= NumReplicas
    <3> HIDE DEF k, c
    <3>0. c \in Nat /\ c + 1 \in Nat /\ c + 1 <= H /\ H \in Nat
      BY <2>1, HostsAssumption
    <3>1. k * (c + 1) <= k * H
      BY <2>2, <3>0, MulMonotone
    <3>2. k * (c + 1) = k * c + k
      BY <2>2, <3>0, MulSucc
    <3>3. k * c + k <= NumReplicas
      BY <2>2, <3>1, <3>2
    <3>4. QED  BY <2>2, <2>3, <3>0, <3>3
  <2>5. r.ids = nextID..(nextID + k - 1) /\ r.next = nextID + k
    BY <2>3, <2>4, CountAssumption, AssignExact
  <2>6. /\ nodesToReplicas' = [nodesToReplicas EXCEPT ![u] = @ \cup r.ids]
        /\ nextID' = r.next
    BY <1>6 DEF PerNode
  <2>7. Cardinality(called') = c + 1
    BY <1>2, <1>3, <2>1, FS_AddElement
  <2>8. nextID' = 1 + k * Cardinality(called')
    BY <2>1, <2>2, <2>3, <2>5, <2>6, <2>7
  <2>9. UNION {nodesToReplicas'[v] : v \in Hosts} = 1..nextID' - 1
    <3>1. nodesToReplicas \in [Hosts -> SUBSET Nat]
      BY DEF IInv
    <3>2. UNION {nodesToReplicas'[v] : v \in Hosts}
            = (UNION {nodesToReplicas[v] : v \in Hosts}) \cup (nextID..(nextID + k - 1))
      <4>1. \A v \in Hosts : nodesToReplicas'[v] = IF v = u THEN nodesToReplicas[v] \cup r.ids
                                                                 ELSE nodesToReplicas[v]
        BY <1>2, <2>6, <3>1
      <4>2. QED  BY <1>2, <2>5, <4>1, Zenon
    <3>3. UNION {nodesToReplicas[v] : v \in Hosts} = 1..nextID - 1
      BY <1>6 DEF CreatedInv
    <3>4. (1..nextID - 1) \cup (nextID..(nextID + k - 1)) = 1..nextID' - 1
      BY <2>2, <2>3, <2>5, <2>6
    <3> HIDE DEF k, c, u, r
    <3>5. QED  BY <3>2, <3>3, <3>4, Zenon
  <2>10. QED  BY <1>3, <1>4, <1>6, <2>8, <2>9 DEF CreatedInv
<1>7. CASE pc # "createReplicas"
  BY <1>3, <1>4, <1>5, <1>7 DEF CreatedInv
<1>8. QED  BY <1>6, <1>7

\* CreateReplicaQF accepts once every host replied: the called hosts are
\* then all H of them, and their IDs are 1..NumReplicas.
LEMMA CompleteCreated ==
    ASSUME EvenSplit, CreatedInv, Complete
    PROVE  CreatedInv'
<1>1. called' = {} /\ replied' = {} /\ pc' \notin {"connect", "createReplicas"}
  BY DEF Complete, After, QuorumCalls
<1>2. CASE pc = "createReplicas"
  <2>1. called = Hosts
    BY DEF Complete, CreatedInv
  <2>2. Cardinality(called) = H
    BY <2>1, HostsAssumption, FS_Interval DEF Hosts
  <2>3. NumReplicas = (NumReplicas \div H) * H
    BY HostsAssumption, CountAssumption DEF EvenSplit
  <2>4. UNION {nodesToReplicas[u] : u \in Hosts} = 1..NumReplicas
    <3>1. nextID = 1 + (NumReplicas \div H) * Cardinality(called)
          /\ UNION {nodesToReplicas[u] : u \in Hosts} = 1..nextID - 1
      BY <1>2 DEF CreatedInv
    <3>2. nextID - 1 = NumReplicas
      BY <2>2, <2>3, <3>1, HostsAssumption, CountAssumption
    <3>3. QED  BY <3>1, <3>2
  <2>5. created' = 1..NumReplicas
    BY <1>2, <2>4 DEF Complete
  <2>6. QED  BY <1>1, <2>5 DEF CreatedInv
<1>3. CASE pc # "createReplicas"
  <2>1. created' = created /\ pc \in QuorumCalls
    BY <1>3 DEF Complete
  <2>2. QED  BY <1>1, <1>3, <2>1 DEF CreatedInv, QuorumCalls, After
<1>4. QED  BY <1>2, <1>3

LEMMA NextCreated ==
    ASSUME EvenSplit
    PROVE  IInv /\ CreatedInv /\ [Next]_vars => CreatedInv'
<1> SUFFICES ASSUME IInv, CreatedInv, [Next]_vars PROVE CreatedInv'
  OBVIOUS
<1>1. CASE Connect
  <2>1. Cardinality({}) = 0
    BY FS_EmptySet
  <2>2. pc = "connect" /\ called = {} /\ nextID = 1 /\ \A u \in Hosts : nodesToReplicas[u] = {}
    BY <1>1 DEF Connect, CreatedInv, IInv
  <2>3. UNION {nodesToReplicas[u] : u \in Hosts} = {}
    BY <2>2
  <2>4. 1..nextID - 1 = {}
    BY <2>2
  <2>5. pc' = "createReplicas" => /\ nextID' = 1 + (NumReplicas \div H) * Cardinality(called')
                                  /\ UNION {nodesToReplicas'[u] : u \in Hosts} = 1..nextID' - 1
    <3>1. called' = {} /\ nextID' = 1 /\ nodesToReplicas' = nodesToReplicas
      BY <1>1, <2>2 DEF Connect
    <3>2. (NumReplicas \div H) * Cardinality(called') = 0
      BY <2>1, <3>1, HostsAssumption, CountAssumption
    <3>3. QED  BY <2>3, <2>4, <3>1, <3>2
  <2>6. QED  BY <1>1, <2>2, <2>5 DEF Connect, CreatedInv
<1>2. CASE PerNode
  BY <1>2, PerNodeCreated
<1>3. ASSUME NEW u \in Hosts, Marshal(u) \/ Reply(u) \/ Fail(u) PROVE CreatedInv'
  BY <1>3 DEF Marshal, Reply, Fail, CreatedInv
<1>4. CASE Complete
  BY <1>4, CompleteCreated
<1>5. CASE Abort
  BY <1>5 DEF Abort, CreatedInv
<1>6. CASE UNCHANGED vars
  BY <1>6 DEF vars, CreatedInv
<1>7. QED  BY <1>1, <1>2, <1>3, <1>4, <1>5, <1>6 DEF Next

(* The run's AllReplicasCreated, for every number of hosts dividing        *)
(* NumReplicas: once CreateReplicaQF has accepted, the configuration holds *)
(* every replica ID 1..NumReplicas (controller.go createReplicas; when H   *)
(* does not divide NumReplicas the property fails, run orch_lost_replicas). *)
THEOREM AllCreatedWhenEven ==
    ASSUME EvenSplit
    PROVE  Spec => []AllReplicasCreated
<1>1. IInv /\ CreatedInv => AllReplicasCreated
  BY DEF CreatedInv, AllReplicasCreated
<1>2. Init => IInv /\ CreatedInv
  BY InitIInv, InitCreatedInv
<1>3. IInv /\ CreatedInv /\ [Next]_vars => IInv' /\ CreatedInv'
  BY NextIInv, NextCreated
<1>4. QED  BY <1>1, <1>2, <1>3, PTL DEF Spec

=============================================================================
