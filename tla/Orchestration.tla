--------------------------- MODULE Orchestration ---------------------------
(***************************************************************************)
(* Experiment.Run of src/internal/orchestration/controller.go.  The       *)
(* controller makes six quorum calls to the worker hosts, one after the   *)
(* other: connect, CreateReplica, StartReplica, StartClient, StopClient,  *)
(* StopReplica.  For each call gorums runs the per-node function for the  *)
(* hosts in node order on the caller's goroutine, enqueues the returned    *)
(* message for the host's sender goroutine, which marshals it later, and  *)
(* collects the replies; the quorum function accepts only when every host *)
(* replied, and a failed host makes the call return an error.             *)
(*                                                                         *)
(* startReplicas and stopReplicas return the shared request `srr` from    *)
(* every per-node call after writing srr.IDs, so what a host receives is  *)
(* whatever srr.IDs holds when its sender marshals it.                    *)
(***************************************************************************)
EXTENDS Naturals, FiniteSets

CONSTANTS
    H,            \* e.config.Size(): the number of worker hosts
    NumReplicas,  \* e.NumReplicas
    NumClients,   \* e.NumClients
    NoMsg,        \* the per-node function returned nil
    Queued        \* enqueued, not yet marshaled by the host's sender

ASSUME HostsAssumption == H \in Nat \ {0}
ASSUME CountAssumption == NumReplicas \in Nat /\ NumClients \in Nat
ASSUME MarkerAssumption == NoMsg # Queued

Hosts == 1..H

\* The quorum calls of Run, each mapped to the one Run makes after it.
After == [connect |-> "createReplicas", createReplicas |-> "startReplicas",
          startReplicas |-> "startClients", startClients |-> "stopClients",
          stopClients |-> "stopReplicas", stopReplicas |-> "done"]

QuorumCalls == DOMAIN After \ {"connect"}

VARIABLES
    pc,               \* the call Run is in, or "done" / "failed"
    called,           \* hosts whose per-node function has run in this call
    replied,          \* hosts whose reply arrived
    failed,           \* hosts whose call failed
    wire,             \* wire[u]: the IDs of u's message, NoMsg, or Queued
    nextID,           \* the nextID captured by the per-node closure
    reqIDs,           \* srr.IDs, shared by the per-node calls of start/stopReplicas
    nodesToReplicas,  \* e.nodesToReplicas
    nodesToClients,   \* e.nodesToClients
    created,          \* replica IDs in the configuration CreateReplicaQF built
    running           \* running[u]: replica IDs host u was told to start and not stop

vars == <<pc, called, replied, failed, wire, nextID, reqIDs, nodesToReplicas,
          nodesToClients, created, running>>

-----------------------------------------------------------------------------
(* The ID loop of createReplicas (lines 106-137) and startClients         *)
(* (lines 182-195): up to count \div H IDs from next on; at the first ID   *)
(* above count the closure returns nil, keeping the IDs appended so far.   *)

\* Mutant of Assign: nextID declared inside the closure, restarting at 1.
AssignLocalCounter(next, count) ==
    LET ids == {id \in 1..(1 + count \div H - 1) : id <= count}
    IN  [ids |-> ids, next |-> 1 + Cardinality(ids),
         msg |-> IF 1 + count \div H - 1 <= count THEN ids ELSE NoMsg]

\* Mutant of Assign: the loop stops one iteration early (i < n/size - 1).
AssignShort(next, count) ==
    LET ids == {id \in next..(next + count \div H - 2) : id <= count}
    IN  [ids |-> ids, next |-> next + Cardinality(ids),
         msg |-> IF next + count \div H - 2 <= count THEN ids ELSE NoMsg]

Assign(next, count) ==
    LET ids == {id \in next..(next + count \div H - 1) : id <= count}
    IN  [ids |-> ids, next |-> next + Cardinality(ids),
         msg |-> IF next + count \div H - 1 <= count THEN ids ELSE NoMsg]

\* getIDs(u, m)
GetIDs(u, m) == m[u]

\* gorums iterates the configuration's nodes in ID order.
NextHost == CHOOSE u \in Hosts \ called : \A v \in Hosts \ called : u <= v

-----------------------------------------------------------------------------
Init ==
    /\ pc = "connect"
    /\ called = {} /\ replied = {} /\ failed = {}
    /\ wire = [u \in Hosts |-> NoMsg]
    /\ nextID = 1
    /\ reqIDs = {}
    /\ nodesToReplicas = [u \in Hosts |-> {}]
    /\ nodesToClients = [u \in Hosts |-> {}]
    /\ created = {}
    /\ running = [u \in Hosts |-> {}]

\* connect: dialing the hosts either succeeds or Run returns its error;
\* createReplicas then also fails if GenerateCA does.
Connect ==
    /\ pc = "connect"
    /\ \/ pc' = "createReplicas"
       \/ pc' = "failed"
    /\ UNCHANGED <<called, replied, failed, wire, nextID, reqIDs, nodesToReplicas,
                   nodesToClients, created, running>>

\* The per-node function of the current call, for the next host in order.
PerNode ==
    /\ pc \in QuorumCalls
    /\ called # Hosts
    /\ LET u == NextHost IN
       /\ called' = called \cup {u}
       /\ \/ /\ pc = "createReplicas"
             /\ LET r == Assign(nextID, NumReplicas) IN
                /\ nodesToReplicas' = [nodesToReplicas EXCEPT ![u] = @ \cup r.ids]
                /\ nextID' = r.next
                /\ wire' = [wire EXCEPT ![u] = r.msg]
             /\ UNCHANGED <<reqIDs, nodesToClients>>
          \/ /\ pc = "startClients"
             /\ LET r == Assign(nextID, NumClients) IN
                /\ nodesToClients' = [nodesToClients EXCEPT ![u] = @ \cup r.ids]
                /\ nextID' = r.next
                /\ wire' = [wire EXCEPT ![u] = r.msg]
             /\ UNCHANGED <<reqIDs, nodesToReplicas>>
          \/ /\ pc \in {"startReplicas", "stopReplicas"}
             /\ reqIDs' = GetIDs(u, nodesToReplicas)
             /\ wire' = [wire EXCEPT ![u] = Queued]
             /\ UNCHANGED <<nextID, nodesToReplicas, nodesToClients>>
          \/ /\ pc = "stopClients"
             /\ wire' = [wire EXCEPT ![u] = GetIDs(u, nodesToClients)]
             /\ UNCHANGED <<reqIDs, nextID, nodesToReplicas, nodesToClients>>
    /\ UNCHANGED <<pc, replied, failed, created, running>>

\* Host u's sender goroutine marshals the shared srr as it is now.
Marshal(u) ==
    /\ wire[u] = Queued
    /\ wire' = [wire EXCEPT ![u] = reqIDs]
    /\ UNCHANGED <<pc, called, replied, failed, nextID, reqIDs, nodesToReplicas,
                   nodesToClients, created, running>>

\* Host u handles its request and replies; the worker starts or stops the
\* replicas the request names.
Reply(u) ==
    /\ pc \in QuorumCalls
    /\ u \in called \ (replied \cup failed)
    /\ wire[u] \notin {NoMsg, Queued}
    /\ replied' = replied \cup {u}
    /\ running' = CASE pc = "startReplicas" -> [running EXCEPT ![u] = @ \cup wire[u]]
                    [] pc = "stopReplicas" -> [running EXCEPT ![u] = @ \ wire[u]]
                    [] OTHER -> running
    /\ UNCHANGED <<pc, called, failed, wire, nextID, reqIDs, nodesToReplicas,
                   nodesToClients, created>>

\* The call to host u fails (transport or worker error).
Fail(u) ==
    /\ pc \in QuorumCalls
    /\ u \in called \ (replied \cup failed)
    /\ wire[u] # NoMsg
    /\ failed' = failed \cup {u}
    /\ UNCHANGED <<pc, called, replied, wire, nextID, reqIDs, nodesToReplicas,
                   nodesToClients, created, running>>

\* Every host replied: the quorum function accepts and Run makes its next
\* call.  CreateReplicaQF collects the created replicas; StopReplicaQF's
\* hashes may disagree ("hash mismatch"); createReplicas and startClients
\* start with fresh maps and nextID = 1.
Complete ==
    /\ pc \in QuorumCalls
    /\ replied = Hosts
    /\ created' = IF pc = "createReplicas"
                  THEN UNION {nodesToReplicas[u] : u \in Hosts} ELSE created
    /\ \/ /\ pc # "stopReplicas"
          /\ pc' = After[pc]
       \/ /\ pc = "stopReplicas"
          /\ pc' \in {"done", "failed"}
    /\ nextID' = 1
    /\ nodesToClients' = IF pc = "startReplicas" THEN [u \in Hosts |-> {}] ELSE nodesToClients
    /\ called' = {} /\ replied' = {}
    /\ wire' = [u \in Hosts |-> NoMsg]
    /\ UNCHANGED <<failed, reqIDs, nodesToReplicas, running>>

\* Some host failed and all others answered: the call returns an error and
\* Run returns it without the remaining calls.
Abort ==
    /\ pc \in QuorumCalls
    /\ failed # {}
    /\ called = Hosts
    /\ replied \cup failed = Hosts
    /\ pc' = "failed"
    /\ UNCHANGED <<called, replied, failed, wire, nextID, reqIDs, nodesToReplicas,
                   nodesToClients, created, running>>

Next ==
    \/ Connect
    \/ PerNode
    \/ \E u \in Hosts : Marshal(u) \/ Reply(u) \/ Fail(u)
    \/ Complete
    \/ Abort

Spec == Init /\ [][Next]_vars

-----------------------------------------------------------------------------
TypeOK ==
    /\ pc \in DOMAIN After \cup {"done", "failed"}
    /\ called \subseteq Hosts /\ replied \subseteq called /\ failed \subseteq called
    /\ nextID \in Nat \ {0}
    /\ \A u \in Hosts : wire[u] \in SUBSET (1..NumReplicas \cup 1..NumClients) \cup {NoMsg, Queued}
    /\ nodesToReplicas \in [Hosts -> SUBSET (1..NumReplicas)]
    /\ nodesToClients \in [Hosts -> SUBSET (1..NumClients)]

\* The shared nextID of the createReplicas and startClients closures gives
\* every replica and every client ID to at most one host (controller.go
\* lines 99-130, 174-187).
IDsUnique ==
    \A u, v \in Hosts : u # v =>
        /\ nodesToReplicas[u] \cap nodesToReplicas[v] = {}
        /\ nodesToClients[u] \cap nodesToClients[v] = {}

\* Every replica ID 1..NumReplicas is created on some host once
\* createReplicas has completed (controller.go createReplicas).
AllReplicasCreated ==
    pc \notin {"connect", "createReplicas", "failed"} => created = 1..NumReplicas

\* After StartReplica completed, every host runs exactly the replicas it
\* created: startReplicas sends host u getIDs(u, nodesToReplicas)
\* (controller.go startReplicas).
HostsRunOwnReplicas ==
    pc \in {"startClients", "stopClients"} => \A u \in Hosts : running[u] = nodesToReplicas[u]

=============================================================================
