------------------------ MODULE BackendConfigProofs ------------------------
(***************************************************************************)
(* Proof that no replicaConnected event is lost (EventsNotLost), for every *)
(* set of peers and every bound: whatever the order in which Connect's     *)
(* steps, the peers' connections and the event loop interleave, an        *)
(* accepted connection's event is queued, held by DelayUntil, or has been *)
(* handled with the metadata recorded.  And that the last Vote or NewView *)
(* to each replica is never cancelled: it is queued or transmitted         *)
(* (LastSendKept).                                                         *)
(***************************************************************************)
EXTENDS BackendConfig, SequenceTheorems, TLAPS

\* The events the server and Connect put on the loop.
Events == {ReplicaConnected(p) : p \in Peers} \cup {ConnectedEvent, ProposalEvent}

(* The inductive invariant.  EventsNotLost alone is not inductive: the    *)
(* handler records the metadata only of a peer in cfg.replicas, so it     *)
(* needs that cfg.replicas is complete once cfg.connected is set (Connect *)
(* fills it in its first step), and that the queues hold events only.     *)
IInv ==
    /\ queue \in Seq(Events)
    /\ delayed \in Seq(Events)
    /\ incoming \subseteq Peers
    /\ connected \in BOOLEAN
    /\ connected => replicas = Replicas
    /\ connectPc \in {"begin", "dial", "nodes", "connected", "event", "done", "failed"}
    /\ connectPc \in {"begin", "dial", "nodes"} => ~connected
    /\ connectPc # "begin" => replicas = Replicas
    /\ EventsNotLost

-----------------------------------------------------------------------------
(* Where an event sits in a sequence after the loop's queue operations.    *)

LEMMA InQueueAppend ==
    ASSUME NEW S, NEW s \in Seq(S), NEW x \in S, NEW e
    PROVE  /\ InQueue(e, s) => InQueue(e, Append(s, x))
           /\ InQueue(x, Append(s, x))
BY AppendProperties DEF InQueue

LEMMA InQueueTail ==
    ASSUME NEW S, NEW s \in Seq(S), s # << >>, NEW e, InQueue(e, s), e # Head(s)
    PROVE  InQueue(e, Tail(s))
<1>1. PICK i \in 1..Len(s) : s[i] = e
  BY DEF InQueue
<1>2. i # 1
  BY <1>1
<1>3. /\ Tail(s) \in Seq(S) /\ Len(Tail(s)) = Len(s) - 1
      /\ \A j \in 1..Len(Tail(s)) : Tail(s)[j] = s[j + 1]
  BY HeadTailProperties
<1>4. i - 1 \in 1..Len(Tail(s)) /\ Tail(s)[i - 1] = e
  BY <1>1, <1>2, <1>3
<1>5. QED  BY <1>4 DEF InQueue

LEMMA InQueueConcat ==
    ASSUME NEW S, NEW s \in Seq(S), NEW t \in Seq(S), NEW e,
           InQueue(e, s) \/ InQueue(e, t)
    PROVE  InQueue(e, s \o t)
<1>1. /\ Len(s \o t) = Len(s) + Len(t)
      /\ \A l \in 1 .. Len(s) + Len(t) :
            (s \o t)[l] = IF l <= Len(s) THEN s[l] ELSE t[l - Len(s)]
  BY ConcatProperties
<1>2. CASE InQueue(e, s)
  <2>1. PICK i \in 1..Len(s) : s[i] = e
    BY <1>2 DEF InQueue
  <2>2. i \in 1..Len(s \o t) /\ (s \o t)[i] = e
    BY <1>1, <2>1, LenProperties
  <2>3. QED  BY <2>2 DEF InQueue
<1>3. CASE InQueue(e, t)
  <2>1. PICK j \in 1..Len(t) : t[j] = e
    BY <1>3 DEF InQueue
  <2>2. Len(s) + j \in 1..Len(s \o t) /\ (s \o t)[Len(s) + j] = e
    BY <1>1, <2>1, LenProperties
  <2>3. QED  BY <2>2 DEF InQueue
<1>4. QED  BY <1>2, <1>3

-----------------------------------------------------------------------------
(* The invariant holds initially and every step preserves it.             *)

LEMMA InitIInv == Init => IInv
<1> SUFFICES ASSUME Init PROVE IInv
  OBVIOUS
<1>1. queue \in Seq(Events) /\ delayed \in Seq(Events)
  BY EmptySeq DEF Init
<1>2. QED  BY <1>1 DEF Init, IInv, EventsNotLost

\* Connect's event and a received proposal are appended to the queue and
\* touch nothing else the invariant reads but Connect's own step.
LEMMA AppendKeeps ==
    ASSUME IInv, NEW x \in Events,
           queue' = Append(queue, x), delayed' = delayed, md' = md,
           incoming' = incoming, connected' = connected, replicas' = replicas,
           connectPc' = connectPc \/ (connectPc = "event" /\ connectPc' = "done")
    PROVE  IInv'
<1>1. queue' \in Seq(Events)
  BY AppendProperties DEF IInv
<1>2. EventsNotLost'
  BY InQueueAppend DEF IInv, EventsNotLost
<1>3. QED  BY <1>1, <1>2 DEF IInv

\* A peer's connection: its event is appended as the peer is added.
LEMMA AcceptKeeps ==
    ASSUME IInv, NEW p \in Peers, Accept(p)
    PROVE  IInv'
<1>1. ReplicaConnected(p) \in Events
  BY DEF Events
<1>2. queue' \in Seq(Events)
  BY <1>1, AppendProperties DEF IInv, Accept
<1>3. ASSUME NEW q \in incoming'
      PROVE  \/ q \in md'
             \/ InQueue(ReplicaConnected(q), queue')
             \/ InQueue(ReplicaConnected(q), delayed')
  <2>1. CASE q \in incoming
    BY <1>1, <2>1, InQueueAppend DEF IInv, EventsNotLost, Accept
  <2>2. CASE q = p
    BY <1>1, <2>2, InQueueAppend DEF IInv, Accept
  <2>3. QED  BY <2>1, <2>2 DEF Accept
<1>4. QED  BY <1>2, <1>3 DEF IInv, EventsNotLost, Accept

LEMMA NextIInv == IInv /\ [Next]_vars => IInv'
<1> SUFFICES ASSUME IInv, [Next]_vars PROVE IInv'
  OBVIOUS
<1>1. CASE ConnectInit
  BY <1>1 DEF ConnectInit, IInv, EventsNotLost
<1>2. CASE ConnectDial
  BY <1>2 DEF ConnectDial, IInv, EventsNotLost
<1>3. CASE ConnectNodes
  BY <1>3 DEF ConnectNodes, IInv, EventsNotLost
<1>4. CASE ConnectSetConnected
  BY <1>4 DEF ConnectSetConnected, IInv, EventsNotLost
<1>5. CASE ConnectAddEvent
  <2>1. ConnectedEvent \in Events
    BY DEF Events
  <2>2. QED  BY <1>5, <2>1, AppendKeeps DEF ConnectAddEvent
<1>6. ASSUME NEW p \in Peers, Accept(p) PROVE IInv'
  BY <1>6, AcceptKeeps
<1>7. CASE Receive
  <2>1. ProposalEvent \in Events
    BY DEF Events
  <2>2. QED  BY <1>7, <2>1, AppendKeeps DEF Receive
<1>8. CASE Tick
  <2> DEFINE e == Head(queue)
  <2>1. /\ queue # << >> /\ e \in Events /\ Tail(queue) \in Seq(Events)
        /\ \A x : InQueue(x, queue) /\ x # e => InQueue(x, Tail(queue))
    BY <1>8, HeadTailProperties, InQueueTail DEF Tick, IInv
  <2>2. /\ incoming' = incoming /\ connected' = connected
        /\ replicas' = replicas /\ connectPc' = connectPc
    BY <1>8 DEF Tick
  \* The handler of replicaConnected: recorded, or deferred by DelayUntil.
  <2>3. CASE /\ e.type = "replicaConnected"
             /\ queue' = Tail(queue)
             /\ HandleReplicaConnected(e)
    <3>1. PICK q \in Peers : e = ReplicaConnected(q)
      BY <2>1, <2>3 DEF Events, ConnectedEvent, ProposalEvent
    <3>2. /\ delayed' \in Seq(Events)
          /\ md \subseteq md'
          /\ \A x : InQueue(x, delayed) => InQueue(x, delayed')
      <4>1. CASE connected
        BY <2>3, <4>1 DEF HandleReplicaConnected, RecordMetadata, IInv
      <4>2. CASE ~connected
        <5>1. delayed' = Append(delayed, e) /\ md' = md
          BY <2>3, <4>2 DEF HandleReplicaConnected
        <5>2. QED  BY <2>1, <5>1, AppendProperties, InQueueAppend DEF IInv
      <4>3. QED  BY <4>1, <4>2
    <3>3. ASSUME NEW p \in incoming
          PROVE  \/ p \in md'
                 \/ InQueue(ReplicaConnected(p), queue')
                 \/ InQueue(ReplicaConnected(p), delayed')
      <4>1. CASE ReplicaConnected(p) # e
        BY <2>1, <2>3, <3>2, <4>1 DEF IInv, EventsNotLost
      <4>2. CASE ReplicaConnected(p) = e /\ connected
        <5>1. p \in replicas
          BY <4>2 DEF IInv, Replicas
        <5>2. e.peer = p
          BY <4>2 DEF ReplicaConnected
        <5>3. QED  BY <2>3, <4>2, <5>1, <5>2 DEF HandleReplicaConnected, RecordMetadata
      <4>3. CASE ReplicaConnected(p) = e /\ ~connected
        <5>1. delayed' = Append(delayed, e)
          BY <2>3, <4>3 DEF HandleReplicaConnected
        <5>2. QED  BY <2>1, <4>3, <5>1, InQueueAppend DEF IInv
      <4>4. QED  BY <4>1, <4>2, <4>3
    <3>4. QED  BY <2>1, <2>2, <2>3, <3>2, <3>3 DEF IInv, EventsNotLost
  \* The connected event: the delayed events go back on the queue.
  <2>4. CASE /\ e.type = "connected"
             /\ queue' = Tail(queue) \o delayed
             /\ delayed' = << >>
             /\ UNCHANGED <<md, crashed>>
    <3>1. /\ queue' \in Seq(Events) /\ delayed' \in Seq(Events)
      BY <2>1, <2>4, ConcatProperties, EmptySeq DEF IInv
    <3>2. \A p \in Peers : ReplicaConnected(p) # e
      BY <2>4 DEF ReplicaConnected
    <3>3. ASSUME NEW p \in incoming
          PROVE  \/ p \in md'
                 \/ InQueue(ReplicaConnected(p), queue')
      BY <2>1, <2>4, <3>2, InQueueConcat DEF IInv, EventsNotLost
    <3>4. QED  BY <2>2, <3>1, <3>3 DEF IInv, EventsNotLost
  \* A proposal: the consensus handler, which may crash on Fetch.
  <2>5. CASE /\ e.type = "proposal"
             /\ queue' = Tail(queue)
             /\ HandleProposal
             /\ UNCHANGED <<md, delayed>>
    <3>1. \A p \in Peers : ReplicaConnected(p) # e
      BY <2>5 DEF ReplicaConnected
    <3>2. QED  BY <2>1, <2>2, <2>5, <3>1 DEF IInv, EventsNotLost
  <2>6. QED  BY <1>8, <2>3, <2>4, <2>5 DEF Tick
<1>9. ASSUME NEW k \in SendKinds, NEW p \in Replicas, CallSend(k, p) PROVE IInv'
  BY <1>9 DEF CallSend, Send, IInv, EventsNotLost
<1>10. ASSUME NEW k \in SendKinds, NEW p \in Replicas, Transmit(k, p) PROVE IInv'
  BY <1>10 DEF Transmit, IInv, EventsNotLost
<1>11. ASSUME NEW k \in MulticastKinds, Multicast(k) PROVE IInv'
  BY <1>11 DEF Multicast, IInv, EventsNotLost
<1>12. CASE UNCHANGED vars
  BY <1>12 DEF vars, IInv, EventsNotLost
<1>13. QED
  BY <1>1, <1>2, <1>3, <1>4, <1>5, <1>6, <1>7, <1>8, <1>9, <1>10, <1>11, <1>12
     DEF Next, ConnectStep

-----------------------------------------------------------------------------
(* No replicaConnected event is lost, whatever the order of Connect's      *)
(* steps, the peers' connections and the event loop's handlers: the event *)
(* DelayUntil holds before cfg.connected is set returns to the queue with *)
(* the connected event (config.go lines 91-97, 122-144, 219-222).          *)
THEOREM EventsNeverLost == Spec => []EventsNotLost
<1>1. Init => IInv
  BY InitIInv
<1>2. IInv /\ [Next]_vars => IInv'
  BY NextIInv
<1>3. IInv => EventsNotLost
  BY DEF IInv
<1>4. QED  BY <1>1, <1>2, <1>3, PTL DEF Spec


-----------------------------------------------------------------------------
(* The last Vote or NewView to a replica is never cancelled.               *)

(* The inductive invariant behind LastSendKept.  Replica.Vote cancels the *)
(* context of the previous call only, so every cancelled message is older  *)
(* than the last one; the last one is queued at the sender until the       *)
(* sender transmits it.                                                    *)
SendInv ==
    /\ issued \in [SendKinds -> [Replicas -> Nat]]
    /\ pending \in [SendKinds -> [Replicas -> Seq(Nat)]]
    /\ cancelled \in [SendKinds -> [Replicas -> SUBSET Nat]]
    /\ sent \in [SendKinds -> [Replicas -> SUBSET Nat]]
    /\ \A k \in SendKinds, p \in Replicas : cancelled[k][p] \subseteq 1..issued[k][p] - 1
    /\ \A k \in SendKinds, p \in Replicas :
          issued[k][p] > 0 =>
              issued[k][p] \in sent[k][p] \/ InQueue(issued[k][p], pending[k][p])


LEMMA InitSendInv == Init => SendInv
BY EmptySeq DEF Init, SendInv, Replicas

\* Vote / NewView to p: the previous message, older than the new one, is
\* cancelled and the new one is queued.
LEMMA SendKeeps ==
    ASSUME SendInv, NEW k \in SendKinds, NEW p \in Replicas, Send(k, p)
    PROVE  SendInv'
<1> DEFINE n == issued[k][p] + 1
<1>1. issued[k][p] \in Nat /\ pending[k][p] \in Seq(Nat) /\ n \in Nat
  BY DEF SendInv, Replicas
<1>2. /\ issued' = [issued EXCEPT ![k][p] = n]
      /\ pending' = [pending EXCEPT ![k][p] = Append(@, n)]
      /\ cancelled' = [cancelled EXCEPT ![k][p] = @ \cup ({issued[k][p]} \ {0})]
      /\ sent' = sent
  BY DEF Send
<1>3. Append(pending[k][p], n) \in Seq(Nat) /\ InQueue(n, Append(pending[k][p], n))
  BY <1>1, AppendProperties, InQueueAppend
<1>4. /\ issued' \in [SendKinds -> [Replicas -> Nat]]
      /\ pending' \in [SendKinds -> [Replicas -> Seq(Nat)]]
      /\ cancelled' \in [SendKinds -> [Replicas -> SUBSET Nat]]
      /\ sent' \in [SendKinds -> [Replicas -> SUBSET Nat]]
  BY <1>1, <1>2, <1>3 DEF SendInv, Replicas
<1>5. ASSUME NEW k2 \in SendKinds, NEW p2 \in Replicas
      PROVE  /\ cancelled'[k2][p2] \subseteq 1..issued'[k2][p2] - 1
             /\ issued'[k2][p2] > 0 =>
                   issued'[k2][p2] \in sent'[k2][p2]
                   \/ InQueue(issued'[k2][p2], pending'[k2][p2])
  <2>1. CASE k2 = k /\ p2 = p
    <3>1. issued'[k2][p2] = n /\ pending'[k2][p2] = Append(pending[k][p], n)
          /\ cancelled'[k2][p2] = cancelled[k][p] \cup ({issued[k][p]} \ {0})
      BY <1>2, <2>1 DEF SendInv, Replicas
    <3>2. cancelled[k][p] \subseteq 1..issued[k][p] - 1
      BY DEF SendInv, Replicas
    <3>3. cancelled[k][p] \cup ({issued[k][p]} \ {0}) \subseteq 1..n - 1
      BY <1>1, <3>2
    <3>4. QED  BY <1>3, <3>1, <3>3
  <2>2. CASE ~(k2 = k /\ p2 = p)
    <3>1. issued'[k2][p2] = issued[k2][p2] /\ pending'[k2][p2] = pending[k2][p2]
          /\ cancelled'[k2][p2] = cancelled[k2][p2] /\ sent'[k2][p2] = sent[k2][p2]
      BY <1>2, <2>2 DEF SendInv, Replicas
    <3>2. QED  BY <3>1 DEF SendInv, Replicas
  <2>3. QED  BY <2>1, <2>2
<1>6. QED  BY <1>4, <1>5 DEF SendInv, Replicas

\* p's sender takes its oldest message: a message that is not cancelled,
\* in particular the last one, is transmitted.
LEMMA TransmitKeeps ==
    ASSUME SendInv, NEW k \in SendKinds, NEW p \in Replicas, Transmit(k, p)
    PROVE  SendInv'
<1> DEFINE h == Head(pending[k][p])
<1>1. pending[k][p] \in Seq(Nat) /\ pending[k][p] # << >> /\ issued[k][p] \in Nat
  BY DEF SendInv, Replicas, Transmit
<1>2. h \in Nat /\ Tail(pending[k][p]) \in Seq(Nat)
  BY <1>1, HeadTailProperties
<1>3. /\ sent' = IF h \in cancelled[k][p] THEN sent ELSE [sent EXCEPT ![k][p] = @ \cup {h}]
      /\ pending' = [pending EXCEPT ![k][p] = Tail(@)]
      /\ UNCHANGED <<issued, cancelled>>
  BY DEF Transmit
<1>4. /\ pending' \in [SendKinds -> [Replicas -> Seq(Nat)]]
      /\ sent' \in [SendKinds -> [Replicas -> SUBSET Nat]]
  BY <1>2, <1>3 DEF SendInv, Replicas
<1>5. \A k2 \in SendKinds, p2 \in Replicas : sent[k2][p2] \subseteq sent'[k2][p2]
  BY <1>3 DEF SendInv, Replicas
<1>6. ASSUME NEW k2 \in SendKinds, NEW p2 \in Replicas, issued[k2][p2] > 0
      PROVE  issued[k2][p2] \in sent'[k2][p2] \/ InQueue(issued[k2][p2], pending'[k2][p2])
  <2>1. CASE issued[k2][p2] \in sent[k2][p2]
    BY <1>5, <2>1
  <2>2. CASE ~(k2 = k /\ p2 = p) /\ issued[k2][p2] \notin sent[k2][p2]
    <3>1. pending'[k2][p2] = pending[k2][p2]
      BY <1>3, <2>2 DEF SendInv, Replicas
    <3>2. QED  BY <1>6, <2>2, <3>1 DEF SendInv, Replicas
  <2>3. CASE k2 = k /\ p2 = p /\ issued[k][p] \notin sent[k][p]
    <3>1. InQueue(issued[k][p], pending[k][p])
      BY <1>6, <2>3 DEF SendInv, Replicas
    <3>2. CASE h = issued[k][p]
      <4>1. h \notin cancelled[k][p]
        BY <1>1, <3>2 DEF SendInv, Replicas
      <4>2. sent'[k][p] = sent[k][p] \cup {h}
        BY <1>3, <4>1 DEF SendInv, Replicas
      <4>3. QED  BY <2>3, <3>2, <4>2
    <3>3. CASE h # issued[k][p]
      <4>1. InQueue(issued[k][p], Tail(pending[k][p]))
        BY <1>1, <3>1, <3>3, InQueueTail
      <4>2. pending'[k][p] = Tail(pending[k][p])
        BY <1>3 DEF SendInv, Replicas
      <4>3. QED  BY <2>3, <4>1, <4>2
    <3>4. QED  BY <3>2, <3>3
  <2>4. QED  BY <2>1, <2>2, <2>3
<1>7. QED  BY <1>3, <1>4, <1>6 DEF SendInv, Replicas

LEMMA NextSendInv == SendInv /\ [Next]_vars => SendInv'
<1> SUFFICES ASSUME SendInv, [Next]_vars PROVE SendInv'
  OBVIOUS
<1>1. ASSUME NEW k \in SendKinds, NEW p \in Replicas, CallSend(k, p) PROVE SendInv'
  <2>1. CASE p \in nodes
    BY <1>1, <2>1, SendKeeps DEF CallSend
  <2>2. CASE p \notin nodes
    BY <1>1, <2>2 DEF CallSend, sendVars, SendInv
  <2>3. QED  BY <2>1, <2>2
<1>2. ASSUME NEW k \in SendKinds, NEW p \in Replicas, Transmit(k, p) PROVE SendInv'
  BY <1>2, TransmitKeeps
<1>3. CASE UNCHANGED sendVars
  BY <1>3 DEF sendVars, SendInv
<1>4. ConnectStep => UNCHANGED sendVars
  BY DEF ConnectStep, ConnectInit, ConnectDial, ConnectNodes, ConnectSetConnected,
         ConnectAddEvent
<1>5. (\E p \in Peers : Accept(p)) \/ Receive \/ Tick => UNCHANGED sendVars
  BY DEF Accept, Receive, Tick
<1>6. (\E k \in MulticastKinds : Multicast(k)) => UNCHANGED sendVars
  BY DEF Multicast
<1>7. UNCHANGED vars => UNCHANGED sendVars
  BY DEF vars, sendVars
<1>8. QED
  BY <1>1, <1>2, <1>3, <1>4, <1>5, <1>6, <1>7 DEF Next

(* The run's LastSendKept, for every set of peers and every bound: however *)
(* the consensus handlers' Vote and NewView calls interleave with the      *)
(* senders, the last message to each replica is never cancelled and is    *)
(* queued or transmitted (config.go Replica.Vote, Replica.NewView).        *)
THEOREM LastSendNeverCancelled == Spec => []LastSendKept
<1>1. SendInv => LastSendKept
  BY DEF SendInv, LastSendKept, Replicas
<1>2. QED  BY InitSendInv, NextSendInv, <1>1, PTL DEF Spec

=============================================================================
