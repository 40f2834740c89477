--------------------------- MODULE BackendConfig ---------------------------
(***************************************************************************)
(* The gorums configuration of src/backend/config.go, seen from one       *)
(* replica.  Two goroutines share it:                                     *)
(*  - the main goroutine runs Connect, a sequence of steps that fill      *)
(*    cfg.replicas, dial the peers, set each connected replica's node,    *)
(*    set cfg.connected and add the `connected` event;                    *)
(*  - the event loop (spec 4.6) runs the handlers one event at a time: the *)
(*    replicaConnected handler, which defers itself with DelayUntil while *)
(*    cfg.connected is false, and the consensus handlers, which call Vote, *)
(*    NewView, Propose, Timeout and Fetch on the configuration.           *)
(* Peers open connections to this replica at any time, also before        *)
(* Connect.  Each node's gorums sender goroutine transmits the queued     *)
(* messages in order and drops one whose context was cancelled.          *)
(***************************************************************************)
EXTENDS Naturals, Sequences, FiniteSets

CONSTANTS
    Self,          \* this replica's ID (cfg.mods.ID())
    Peers,         \* the other replicas of the configuration
    MaxSends,      \* bound on the Vote (and NewView) calls per peer
    MaxProposals,  \* bound on the proposals that reach the consensus handler
    SendKinds,     \* the per-replica sends explored: a subset of {"vote", "newView"}
    MulticastKinds \* the multicasts explored: a subset of {"propose", "timeout"}

ASSUME BoundsAssumption == MaxSends \in Nat /\ MaxProposals \in Nat
ASSUME SelfAssumption == Self \notin Peers

\* The ReplicaInfo list given to Connect.
Replicas == Peers \cup {Self}

ASSUME KindsAssumption ==
    SendKinds \subseteq {"vote", "newView"} /\ MulticastKinds \subseteq {"propose", "timeout"}

\* Events of the event loop.
ReplicaConnected(p) == [type |-> "replicaConnected", peer |-> p]
ConnectedEvent == [type |-> "connected", peer |-> "none"]
ProposalEvent == [type |-> "proposal", peer |-> "none"]

VARIABLES
    connectPc,   \* Connect's next step on the main goroutine
    connected,   \* cfg.connected
    replicas,    \* the keys of cfg.replicas
    nodes,       \* replicas whose node field is set
    cfgSet,      \* cfg.cfg # nil
    queue,       \* the event loop's queue
    delayed,     \* events held by DelayUntil(connected{}, e)
    incoming,    \* peers whose connection reached this replica's server
    md,          \* peers whose metadata the replicaConnected handler recorded
    issued,      \* issued[k][p]: Vote/NewView calls made to p so far
    pending,     \* pending[k][p]: numbers of the messages queued at p's sender
    cancelled,   \* cancelled[k][p]: numbers whose context was cancelled
    sent,        \* sent[k][p]: numbers the sender transmitted
    multicast,   \* Propose / Timeout multicasts handed to gorums
    proposals,   \* proposals that reached the consensus handler so far
    crashed      \* the process panicked

vars == <<connectPc, connected, replicas, nodes, cfgSet, queue, delayed, incoming,
          md, issued, pending, cancelled, sent, multicast, proposals, crashed>>

loopVars == <<queue, delayed, md, proposals>>
sendVars == <<issued, pending, cancelled, sent>>

-----------------------------------------------------------------------------
Init ==
    /\ connectPc = "begin"
    /\ connected = FALSE
    /\ replicas = {}
    /\ nodes = {}
    /\ cfgSet = FALSE
    /\ queue = << >>
    /\ delayed = << >>
    /\ incoming = {}
    /\ md = {}
    /\ issued = [k \in SendKinds |-> [p \in Replicas |-> 0]]
    /\ pending = [k \in SendKinds |-> [p \in Replicas |-> << >>]]
    /\ cancelled = [k \in SendKinds |-> [p \in Replicas |-> {}]]
    /\ sent = [k \in SendKinds |-> [p \in Replicas |-> {}]]
    /\ multicast = {}
    /\ proposals = 0
    /\ crashed = FALSE

-----------------------------------------------------------------------------
(* Connect, on the main goroutine.                                         *)

\* Lines 175-202: the manager is built and every replica, this one included,
\* gets its Replica structure (node nil, no-op cancel functions); only the
\* others enter idMapping.
ConnectInit ==
    /\ ~crashed
    /\ connectPc = "begin"
    /\ replicas' = Replicas
    /\ connectPc' = "dial"
    /\ UNCHANGED <<connected, nodes, cfgSet, queue, delayed, incoming, md, sendVars,
                   multicast, proposals, crashed>>

\* Lines 205-207: NewConfiguration dials the peers; on an error Connect
\* returns it and nothing after runs.
ConnectDial ==
    /\ ~crashed
    /\ connectPc = "dial"
    /\ \/ /\ cfgSet' = TRUE
          /\ connectPc' = "nodes"
       \/ /\ connectPc' = "failed"
          /\ UNCHANGED cfgSet
    /\ UNCHANGED <<connected, replicas, nodes, queue, delayed, incoming, md, sendVars,
                   multicast, proposals, crashed>>

\* Lines 211-217: every node of the configuration, i.e. every replica but
\* this one, is attached to its Replica.
ConnectNodes ==
    /\ ~crashed
    /\ connectPc = "nodes"
    /\ nodes' = Peers
    /\ connectPc' = "connected"
    /\ UNCHANGED <<connected, replicas, cfgSet, queue, delayed, incoming, md, sendVars,
                   multicast, proposals, crashed>>

\* Line 219.
ConnectSetConnected ==
    /\ ~crashed
    /\ connectPc = "connected"
    /\ connected' = TRUE
    /\ connectPc' = "event"
    /\ UNCHANGED <<replicas, nodes, cfgSet, queue, delayed, incoming, md, sendVars,
                   multicast, proposals, crashed>>

\* Line 222: the connected event releases the delayed replicaConnected events.
\* Mutant of ConnectAddEvent: Connect returns without adding the event.
ConnectNoEvent ==
    /\ ~crashed
    /\ connectPc = "event"
    /\ connectPc' = "done"
    /\ UNCHANGED <<connected, replicas, nodes, cfgSet, queue, delayed, incoming, md,
                   sendVars, multicast, proposals, crashed>>

ConnectAddEvent ==
    /\ ~crashed
    /\ connectPc = "event"
    /\ queue' = Append(queue, ConnectedEvent)
    /\ connectPc' = "done"
    /\ UNCHANGED <<connected, replicas, nodes, cfgSet, delayed, incoming, md, sendVars,
                   multicast, proposals, crashed>>

-----------------------------------------------------------------------------
(* The environment: peers connect, proposals arrive.                       *)

\* A peer's connection reaches the server, which adds replicaConnected.
Accept(p) ==
    /\ ~crashed
    /\ p \notin incoming
    /\ incoming' = incoming \cup {p}
    /\ queue' = Append(queue, ReplicaConnected(p))
    /\ UNCHANGED <<connectPc, connected, replicas, nodes, cfgSet, delayed, md, sendVars,
                   multicast, proposals, crashed>>

\* A proposal reaches the server and is queued for the consensus handler.
Receive ==
    /\ ~crashed
    /\ proposals < MaxProposals
    /\ proposals' = proposals + 1
    /\ queue' = Append(queue, ProposalEvent)
    /\ UNCHANGED <<connectPc, connected, replicas, nodes, cfgSet, delayed, incoming, md,
                   sendVars, multicast, crashed>>

-----------------------------------------------------------------------------
(* The event loop: one event per step.                                     *)

\* cfg.replicaConnected (lines 122-144): the metadata of a replica found in
\* cfg.replicas is recorded; "Replica with id %d was not found" otherwise.
RecordMetadata(e) ==
    md' = IF e.peer \in replicas THEN md \cup {e.peer} ELSE md

\* Mutant of HandleReplicaConnected: the handler returns without DelayUntil.
HandleReplicaConnectedNoDelay(e) ==
    /\ IF connected THEN RecordMetadata(e) ELSE UNCHANGED md
    /\ UNCHANGED delayed

\* The handler registered at lines 91-97: before cfg.connected the event is
\* deferred until the connected event has been processed.
HandleReplicaConnected(e) ==
    IF connected
    THEN RecordMetadata(e) /\ UNCHANGED delayed
    ELSE delayed' = Append(delayed, e) /\ UNCHANGED md

\* Lines 296-307: the consensus handler fetches a missing parent block;
\* cfg.cfg.Fetch on a nil configuration panics.  FetchQF's answer does not
\* change the configuration.
HandleProposal ==
    IF cfgSet THEN UNCHANGED crashed ELSE crashed' = TRUE

Tick ==
    /\ ~crashed
    /\ queue # << >>
    /\ LET e == Head(queue) IN
       \/ /\ e.type = "replicaConnected"
          /\ queue' = Tail(queue)
          /\ HandleReplicaConnected(e)
          /\ UNCHANGED crashed
       \/ /\ e.type = "connected"
          /\ queue' = Tail(queue) \o delayed
          /\ delayed' = << >>
          /\ UNCHANGED <<md, crashed>>
       \/ /\ e.type = "proposal"
          /\ queue' = Tail(queue)
          /\ HandleProposal
          /\ UNCHANGED <<md, delayed>>
    /\ UNCHANGED <<connectPc, connected, replicas, nodes, cfgSet, incoming, sendVars,
                   multicast, proposals>>

\* Mutant of Send: the new context is made first and then cancelled.
SendCancelsOwn(k, p) ==
    LET n == issued[k][p] + 1 IN
    /\ issued' = [issued EXCEPT ![k][p] = n]
    /\ pending' = [pending EXCEPT ![k][p] = Append(@, n)]
    /\ cancelled' = [cancelled EXCEPT ![k][p] = @ \cup {n}]
    /\ UNCHANGED sent

\* Replica.Vote / Replica.NewView (lines 42-62): cancel the previous call's
\* context, then queue the message under a new one, without waiting.
Send(k, p) ==
    LET n == issued[k][p] + 1 IN
    /\ issued' = [issued EXCEPT ![k][p] = n]
    /\ pending' = [pending EXCEPT ![k][p] = Append(@, n)]
    /\ cancelled' = [cancelled EXCEPT ![k][p] = @ \cup ({issued[k][p]} \ {0})]
    /\ UNCHANGED sent

\* A consensus handler votes for p or sends it a new-view; the replica must
\* be in cfg.replicas (Replica(id)), and one without a node, this replica
\* or any before ConnectNodes, is skipped (lines 43-45, 55-57).
CallSend(k, p) ==
    /\ ~crashed
    /\ p \in replicas
    /\ issued[k][p] < MaxSends
    /\ IF p \in nodes THEN Send(k, p) ELSE UNCHANGED sendVars
    /\ UNCHANGED <<connectPc, connected, replicas, nodes, cfgSet, queue, delayed, incoming,
                   md, multicast, proposals, crashed>>

\* Propose / Timeout (lines 272-293): dropped while cfg.cfg is nil.
Multicast(k) ==
    /\ ~crashed
    /\ k \notin multicast
    /\ multicast' = IF cfgSet THEN multicast \cup {k} ELSE multicast
    /\ UNCHANGED <<connectPc, connected, replicas, nodes, cfgSet, queue, delayed, incoming,
                   md, sendVars, proposals, crashed>>

\* p's gorums sender transmits its oldest queued message, or drops it if
\* its context is cancelled.
Transmit(k, p) ==
    /\ ~crashed
    /\ pending[k][p] # << >>
    /\ LET n == Head(pending[k][p]) IN
       sent' = IF n \in cancelled[k][p] THEN sent ELSE [sent EXCEPT ![k][p] = @ \cup {n}]
    /\ pending' = [pending EXCEPT ![k][p] = Tail(@)]
    /\ UNCHANGED <<connectPc, connected, replicas, nodes, cfgSet, queue, delayed, incoming,
                   md, issued, cancelled, multicast, proposals, crashed>>

ConnectStep ==
    ConnectInit \/ ConnectDial \/ ConnectNodes \/ ConnectSetConnected \/ ConnectAddEvent

Next ==
    \/ ConnectStep
    \/ \E p \in Peers : Accept(p)
    \/ Receive
    \/ Tick
    \/ \E k \in SendKinds, p \in Replicas : CallSend(k, p) \/ Transmit(k, p)
    \/ \E k \in MulticastKinds : Multicast(k)

\* The main goroutine, the event loop and the senders keep running; peers
\* and proposals are the environment and need not come.
Fairness ==
    /\ WF_vars(ConnectStep)
    /\ WF_vars(Tick)
    /\ \A k \in SendKinds, p \in Peers : WF_vars(Transmit(k, p))

Spec == Init /\ [][Next]_vars /\ Fairness

-----------------------------------------------------------------------------
TypeOK ==
    /\ connectPc \in {"begin", "dial", "nodes", "connected", "event", "done", "failed"}
    /\ connected \in BOOLEAN /\ cfgSet \in BOOLEAN /\ crashed \in BOOLEAN
    /\ replicas \subseteq Replicas /\ nodes \subseteq Peers
    /\ incoming \subseteq Peers /\ md \subseteq Peers
    /\ issued \in [SendKinds -> [Replicas -> 0..MaxSends]]
    /\ proposals \in 0..MaxProposals

InQueue(e, s) == \E i \in 1..Len(s) : s[i] = e

\* No replicaConnected event is lost between the server, the event loop's
\* DelayUntil and the connected event: each accepted connection is queued,
\* delayed, or has its metadata recorded (config.go lines 91-97, 219-222).
EventsNotLost ==
    \A p \in incoming :
        \/ p \in md
        \/ InQueue(ReplicaConnected(p), queue)
        \/ InQueue(ReplicaConnected(p), delayed)

\* Once Connect succeeds, every peer that connected has its metadata
\* recorded: the delayed handler runs after the connected event.
MetadataRecorded ==
    \A p \in Peers : p \in incoming ~> (p \in md \/ connectPc = "failed" \/ crashed)

\* Each Vote or NewView is followed by the transmission of that message or
\* a later one to the same replica: cancelling the previous context never
\* cancels the last message (config.go lines 47-50, 59-61).
LastSendTransmitted ==
    \A k \in SendKinds, p \in Peers, n \in 1..MaxSends :
        issued[k][p] = n ~> ((\E m \in sent[k][p] : m >= n) \/ crashed)

\* The safety half of LastSendTransmitted: the last Vote or NewView made to
\* a replica is never cancelled, and it is still queued at that replica's
\* sender or has been transmitted; Replica.Vote cancels only the previous
\* call's context (config.go lines 47-50, 59-61).
LastSendKept ==
    \A k \in SendKinds, p \in Peers :
        issued[k][p] > 0 =>
            /\ issued[k][p] \notin cancelled[k][p]
            /\ issued[k][p] \in sent[k][p] \/ InQueue(issued[k][p], pending[k][p])

\* Spec 4.8: configuration sends before the connection exists are dropped,
\* as Propose and Timeout do when cfg.cfg is nil; Fetch dereferences it.
NoNilConfiguration == ~crashed

=============================================================================
