---------------------------- MODULE TwinsNetwork ----------------------------
(***************************************************************************)
(* The twins simulator of src/twins/network.go and scenario.go, driving   *)
(* chained-HotStuff replicas (spec.md 4.3, 4.4; HotStuffRules).            *)
(*                                                                         *)
(* run() lets the leaders of view 1 propose; then each tick() appends the *)
(* pending messages to their receivers' event loops and, for the nodes in *)
(* Go map order (any order), adds a tick event to the node's loop and     *)
(* drains it.  What a node sends while it runs is checked by shouldDrop   *)
(* against the sender's effective view and the partitions of that view,   *)
(* and queued for the next tick.  Twins are nodes with the same replica   *)
(* ID: broadcasts skip the sender's ID, sends to an ID reach every node of *)
(* it.  Each node's timeoutManager counts ticks and raises a local        *)
(* TimeoutEvent when its countdown reaches 0.                             *)
(*                                                                         *)
(* pendingMessages is kept per receiver: tick() hands every node the      *)
(* messages addressed to it in the order they were queued, which is all   *)
(* the global list determines.                                            *)
(***************************************************************************)
EXTENDS Integers, Sequences, FiniteSets, HotStuffRules

CONSTANTS
    Nodes,         \* network IDs
    RID,           \* RID[n]: the replica ID of node n
    Scenarios,     \* the scenarios explored: views[v] = [leader, partitions] for view v
    MaxView,       \* the views a scenario plans
    DropTypes,     \* message types dropped between partitions
    TimeoutTicks,  \* timeoutManager.timeout (5 in createTwinsNodes)
    MaxTicks       \* the ticks of run(ticks)

MsgTypes == {"propose", "vote", "timeout", "newView", "hash"}

ASSUME TwinsAssumption ==
    /\ RID \in [Nodes -> Nat \ {0}]
    /\ MaxView \in Nat \ {0}
    /\ Scenarios \subseteq [1..MaxView -> [leader : Nat \ {0}, partitions : SUBSET SUBSET Nodes]]
    /\ DropTypes \subseteq MsgTypes
    /\ TimeoutTicks \in Nat \ {0} /\ MaxTicks \in Nat

ReplicaIDs == {RID[n] : n \in Nodes}

\* Mutant of QuorumSize: one vote short of a quorum.
QuorumSizeShort == Quorum(Cardinality(ReplicaIDs)) - 1

\* c.Len() = len(network.replicas) and hotstuff.QuorumSize.
QuorumSize == Quorum(Cardinality(ReplicaIDs))

NodesOf(r) == {n \in Nodes : RID[n] = r}

\* The planned views, and one more that a timeout can reach.
BlockIds == {Genesis} \cup ((1..MaxView + 1) \X Nodes)

Msg(t, b, v, from) == [type |-> t, block |-> b, view |-> v, from |-> from]
TickEvent == Msg("tick", Genesis, 0, 0)
TimeoutEvent(v) == Msg("timeoutEvent", Genesis, v, 0)
ViewChangeEvent(v) == Msg("viewChange", Genesis, v, 0)

VARIABLES
    views,      \* Network.views: the scenario being run
    parentOf,   \* the block tree: parentOf[b] is the block b's QC certifies
    node,       \* node[n]: consensus, synchronizer and timeoutManager state
    pending,    \* pending[n]: pendingMessages addressed to n
    phase,      \* "start" (run's proposals), "deliver", "pick", "run", "end"
    running,    \* the node whose event loop is being drained
    ran,        \* nodes already run in this tick (or that proposed in run)
    tickNo,     \* ticks completed
    lost        \* history: message types shouldDrop dropped between partitions

vars == <<views, parentOf, node, pending, phase, running, ran, tickNo, lost>>

\* The twins leaderRotation: the leader the plan names; 0 (no replica)
\* beyond the plan.
Leader(v) == IF v \in 1..MaxView THEN views[v].leader ELSE 0

-----------------------------------------------------------------------------
(* shouldDrop and the sends.                                               *)

\* Network.shouldDrop(sender, receiver, message) for sender state ss.
\* Views start at 1, so the i < 0 branch is never taken.
ShouldDrop(ss, s, r, t) ==
    LET i == IF ss.effView > ss.view THEN ss.effView - 1 ELSE ss.view - 1
    IN  IF i >= MaxView THEN TRUE
        ELSE IF \E P \in views[i + 1].partitions : s \in P /\ r \in P THEN FALSE
        ELSE t \in DropTypes

\* Dropped by the partitions of a planned view rather than by the end of
\* the plan.
CutByPartition(ss, s, r, t) ==
    /\ ShouldDrop(ss, s, r, t)
    /\ (IF ss.effView > ss.view THEN ss.effView ELSE ss.view) <= MaxView

\* An outcome of a handler: the node's state, pendingMessages, the tree and
\* the drop history.
\* configuration.sendMessage to the nodes R, each send subject to shouldDrop.
SendMessage(o, s, R, m) ==
    [o EXCEPT
        !.pend = [r \in Nodes |->
                    IF r \in R /\ ~ShouldDrop(o.st, s, r, m.type)
                    THEN Append(o.pend[r], m) ELSE o.pend[r]],
        !.lost = o.lost \cup {t \in {m.type} : \E r \in R : CutByPartition(o.st, s, r, t)}]

\* broadcastMessage: every node whose replica ID is not the sender's.
Broadcast(o, s, m) == SendMessage(o, s, {r \in Nodes : RID[r] # RID[s]}, m)

\* replica.Vote / replica.NewView: sendMessage to every node of the ID.
SendTo(o, s, id, m) == SendMessage(o, s, NodesOf(id), m)

\* configuration.Fetch: some node the request is not dropped to holds the
\* block in its store (LocalGet); map order does not change the answer.
Fetch(ss, s, b) ==
    \E r \in Nodes : ~ShouldDrop(ss, s, r, "hash") /\ b \in node[r].store

-----------------------------------------------------------------------------
(* The replica (spec.md 4.3, 4.4).                                         *)

HighQC(st, b) == IF BlockView(b) > BlockView(st.highQC) THEN b ELSE st.highQC

\* The leader of view w proposes on its highQC: configuration.Propose
\* broadcasts it, and the leader handles its own proposal from its loop.
Propose(o, s, w) ==
    LET b == <<w, s>>
        o1 == [o EXCEPT !.par[b] = o.st.highQC,
                        !.st.store = @ \cup {b},
                        !.st.queue = Append(@, Msg("propose", b, w, RID[s]))]
    IN  Broadcast(o1, s, Msg("propose", b, w, RID[s]))

\* advanceView to w: ViewChangeEvent, the proposal of the new leader, and
\* after a timeout the NewView to it.
AdvanceTo(o, s, w, byTimeout) ==
    LET o1 == [o EXCEPT !.st.view = w, !.st.quiet = 0,
                        !.st.queue = Append(@, ViewChangeEvent(w))]
    IN  IF Leader(w) = RID[s] THEN Propose(o1, s, w)
        ELSE IF byTimeout /\ Leader(w) \in ReplicaIDs
             THEN SendTo(o1, s, Leader(w), Msg("newView", o1.st.highQC, w, RID[s]))
             ELSE o1

\* A QC for b: highQC and, if it is not behind, the next view.
OnQC(o, s, b) ==
    LET o1 == [o EXCEPT !.st.highQC = HighQC(o.st, b)]
    IN  IF BlockView(b) >= o.st.view THEN AdvanceTo(o1, s, BlockView(b) + 1, FALSE) ELSE o1

\* Mutant of Exec: the blocks to run are taken from genesis on, not from
\* above bExec.
ExecFromGenesis(o, b2) ==
    LET b0 == CommitTarget(o.par, b2) IN
    IF b0 # Genesis /\ BlockView(b0) > BlockView(o.st.bExec)
    THEN [o EXCEPT !.st.executed = @ \o ToExecute(o.par, b0, Genesis),
                   !.st.bExec = b0]
    ELSE o

\* commandModule.Exec for each block the commit rule releases.
Exec(o, b2) ==
    LET b0 == CommitTarget(o.par, b2) IN
    IF b0 # Genesis /\ BlockView(b0) > BlockView(o.st.bExec)
    THEN [o EXCEPT !.st.executed = @ \o ToExecute(o.par, b0, o.st.bExec),
                   !.st.bExec = b0]
    ELSE o

OnPropose(o, s, e) ==
    LET b == e.block
        p == o.par[b]
    IN  IF p \notin o.st.store /\ ~Fetch(o.st, s, p) THEN o
        ELSE LET o1 == OnQC([o EXCEPT !.st.store = @ \cup {p, b}], s, p)
                 voting == /\ BlockView(b) >= o1.st.view
                           /\ VoteRule(o1.par, b, o1.st.lastVoted, o1.st.bLock)
                 o2 == IF voting
                       THEN SendTo([o1 EXCEPT !.st.lastVoted = BlockView(b),
                                              !.st.bLock = IF BlockView(p) > BlockView(@)
                                                           THEN p ELSE @],
                                   s, Leader(BlockView(b) + 1),
                                   Msg("vote", b, BlockView(b), RID[s]))
                       ELSE o1
             IN  Exec(o2, p)

OnVote(o, s, e) ==
    LET o1 == [o EXCEPT !.st.votes = @ \cup {<<e.block, e.from>>}]
        n == Cardinality({r \in ReplicaIDs : <<e.block, r>> \in o1.st.votes})
    IN  IF n = QuorumSize /\ <<e.block, e.from>> \notin o.st.votes
        THEN OnQC(o1, s, e.block) ELSE o1

\* The local TimeoutEvent: a TimeoutMsg for the current view to all others.
OnLocalTimeout(o, s, e) ==
    IF e.view # o.st.view THEN o
    ELSE Broadcast([o EXCEPT !.st.tmos = @ \cup {<<e.view, RID[s]>>}], s,
                   Msg("timeout", o.st.highQC, e.view, RID[s]))

\* A TimeoutMsg: tallied per view; q of them form a TC for view v + 1.
OnTimeoutMsg(o, s, e) ==
    LET o1 == [o EXCEPT !.st.tmos = @ \cup {<<e.view, e.from>>}]
        n == Cardinality({r \in ReplicaIDs : <<e.view, r>> \in o1.st.tmos})
    IN  IF n >= QuorumSize /\ e.view >= o.st.view
        THEN AdvanceTo(o1, s, e.view + 1, TRUE) ELSE o1

OnNewView(o, s, e) == [o EXCEPT !.st.highQC = HighQC(o.st, e.block)]

-----------------------------------------------------------------------------
(* The timeoutManager.                                                     *)

\* Countdowns below 0 behave alike (only == 0 fires), so they are kept at -1.
\* timeoutManager.advance, the observer of tick.
Advance(o, s) ==
    IF o.st.countdown - 1 = 0
    THEN [o EXCEPT !.st.queue = Append(@, TimeoutEvent(o.st.view)),
                   !.st.countdown = TimeoutTicks,
                   !.st.effView = IF @ <= o.st.view THEN o.st.view + 1 ELSE @,
                   !.st.quiet = IF @ > TimeoutTicks THEN @ ELSE @ + 1]
    ELSE [o EXCEPT !.st.countdown = IF @ - 1 < 0 THEN -1 ELSE @ - 1,
                   !.st.quiet = IF @ > TimeoutTicks THEN @ ELSE @ + 1]

\* timeoutManager.viewChange, the observer of ViewChangeEvent.
ViewChange(o) == [o EXCEPT !.st.countdown = TimeoutTicks]

\* One event of the node's loop: its handler, then its observers.
Handle(o, s, e) ==
    CASE e.type = "tick"         -> Advance(o, s)
      [] e.type = "viewChange"   -> ViewChange(o)
      [] e.type = "timeoutEvent" -> OnLocalTimeout(o, s, e)
      [] e.type = "propose"      -> OnPropose(o, s, e)
      [] e.type = "vote"         -> OnVote(o, s, e)
      [] e.type = "timeout"      -> OnTimeoutMsg(o, s, e)
      [] e.type = "newView"      -> OnNewView(o, s, e)

-----------------------------------------------------------------------------
(* checkCommits (scenario.go), the verdict ExecuteScenario returns.        *)

\* Replicas without a twin: checkCommits only looks at these.
Correct == {n \in Nodes : NodesOf(RID[n]) = {n}}

\* Mutant of CheckCommits: the loop ends at the shortest log instead of
\* when no replica has a block at i.
CheckCommitsShortest(lg) ==
    LET f[i \in 0..MaxView + 1] ==
            LET have == {n \in Correct : Len(lg[n]) > i}
            IN  IF have # Correct \/ i = MaxView + 1 THEN <<TRUE, i>>
                ELSE IF Cardinality({lg[n][i + 1] : n \in have}) # 1 THEN <<FALSE, i>>
                ELSE f[i + 1]
    IN  f[0]

\* At each index i, the hashes of the i-th executed block of the replicas
\* without a twin that have one; stop when none has (safe) or when they
\* differ (unsafe).  The result is <<safe, commits>>.  A log holds at most
\* one block per view, so no replica has one at i = MaxView + 1.
CheckCommits(lg) ==
    LET f[i \in 0..MaxView + 1] ==
            LET have == {n \in Correct : Len(lg[n]) > i}
            IN  IF have = {} \/ i = MaxView + 1 THEN <<TRUE, i>>
                ELSE IF Cardinality({lg[n][i + 1] : n \in have}) # 1 THEN <<FALSE, i>>
                ELSE f[i + 1]
    IN  f[0]

-----------------------------------------------------------------------------
InitNode ==
    [view |-> 1, highQC |-> Genesis, lastVoted |-> 0, bLock |-> Genesis,
     bExec |-> Genesis, store |-> {Genesis}, executed |-> << >>,
     votes |-> {}, tmos |-> {}, effView |-> 0, countdown |-> 0,
     queue |-> << >>, quiet |-> 0]

\* createTwinsNodes: every node built with the same modules; the
\* timeoutManager's countdown is the zero value.
Init ==
    /\ views \in Scenarios
    /\ parentOf = [b \in BlockIds |-> Genesis]
    /\ node = [n \in Nodes |-> InitNode]
    /\ pending = [n \in Nodes |-> << >>]
    /\ phase = "start"
    /\ running = 0
    /\ ran = {}
    /\ tickNo = 0
    /\ lost = {}

Outcome(s, st) == [st |-> st, pend |-> pending, par |-> parentOf, lost |-> lost]

Apply(s, o) ==
    /\ node' = [node EXCEPT ![s] = o.st]
    /\ pending' = o.pend
    /\ parentOf' = o.par
    /\ lost' = o.lost

\* run: each node that GetLeader(1) names proposes, in map order.
RunPropose(s) ==
    /\ phase = "start"
    /\ s \notin ran
    /\ ran' = ran \cup {s}
    /\ IF RID[s] = Leader(1) THEN Apply(s, Propose(Outcome(s, node[s]), s, 1))
       ELSE UNCHANGED <<node, pending, parentOf, lost>>
    /\ phase' = IF ran' = Nodes THEN "deliver" ELSE "start"
    /\ UNCHANGED <<views, running, tickNo>>

\* Mutant of Deliver: pendingMessages is reset before the loop over it.
DeliverResetFirst ==
    /\ phase = "deliver"
    /\ pending' = [n \in Nodes |-> << >>]
    /\ ran' = {}
    /\ phase' = "pick"
    /\ UNCHANGED <<views, parentOf, node, running, tickNo, lost>>

\* tick, first loop: pendingMessages to the event loops.
Deliver ==
    /\ phase = "deliver"
    /\ node' = [n \in Nodes |-> [node[n] EXCEPT !.queue = @ \o pending[n]]]
    /\ pending' = [n \in Nodes |-> << >>]
    /\ ran' = {}
    /\ phase' = "pick"
    /\ UNCHANGED <<views, parentOf, running, tickNo, lost>>

\* tick, second loop: the next node in map order gets its tick event.
Pick(s) ==
    /\ phase = "pick"
    /\ s \notin ran
    /\ node' = [node EXCEPT ![s].queue = Append(@, TickEvent)]
    /\ running' = s
    /\ phase' = "run"
    /\ UNCHANGED <<views, parentOf, pending, ran, tickNo, lost>>

\* EventLoop.Tick on the running node.
Step ==
    /\ phase = "run"
    /\ node[running].queue # << >>
    /\ LET s == running
           e == Head(node[s].queue)
       IN  Apply(s, Handle(Outcome(s, [node[s] EXCEPT !.queue = Tail(@)]), s, e))
    /\ UNCHANGED <<views, phase, running, ran, tickNo>>

\* The loop is empty: the next node, or the tick is over.
Drained ==
    /\ phase = "run"
    /\ node[running].queue = << >>
    /\ ran' = ran \cup {running}
    /\ tickNo' = IF ran' = Nodes THEN tickNo + 1 ELSE tickNo
    /\ phase' = IF ran' # Nodes THEN "pick"
                ELSE IF tickNo' < MaxTicks THEN "deliver" ELSE "end"
    /\ running' = 0
    /\ UNCHANGED <<views, parentOf, node, pending, lost>>

Next ==
    \/ \E s \in Nodes : RunPropose(s) \/ Pick(s)
    \/ Deliver
    \/ Step
    \/ Drained

Spec == Init /\ [][Next]_vars

-----------------------------------------------------------------------------
IsPrefix(s, t) == Len(s) <= Len(t) /\ SubSeq(t, 1, Len(s)) = s

TypeOK ==
    /\ phase \in {"start", "deliver", "pick", "run", "end"}
    /\ ran \subseteq Nodes
    /\ tickNo \in 0..MaxTicks
    /\ lost \subseteq MsgTypes
    /\ \A n \in Nodes : node[n].view \in 1..MaxView + 1

\* Spec I2 and the checkCommits verdict: the blocks any two replicas without
\* a twin executed are one a prefix of the other, whatever the partitions
\* and the twins' equivocation (scenario.go checkCommits, commandModule.Exec).
CommitsAgree ==
    \A n, m \in Correct : IsPrefix(node[n].executed, node[m].executed)
                          \/ IsPrefix(node[m].executed, node[n].executed)

\* The verdict of ExecuteScenario: checkCommits reports the run safe and
\* counts as commits the longest log of a replica without a twin, i.e.
\* no two of them executed different blocks at one index and the loop
\* neither stops early nor late (scenario.go checkCommits, lines 101-132).
ScenarioVerdict ==
    CheckCommits([n \in Nodes |-> node[n].executed])
        = <<TRUE, Cardinality({i \in 1..MaxView + 1 : \E n \in Correct : Len(node[n].executed) >= i})>>

\* A scenario without partitions commits: by the end of run(ticks) every
\* replica without a twin has executed a block (spec 4.7: the simulator
\* delivers every message it does not drop; network.go tick, shouldDrop).
HealedRunCommits ==
    (phase = "end" /\ \A v \in 1..MaxView : views[v].partitions = {Nodes})
        => \A n \in Correct : node[n].executed # << >>

\* Spec 4.4, Entered -> Timed-out: a node that has spent more than the
\* timeout's ticks in its view has timed out in it (timeoutManager.advance).
TimerFires ==
    \A n \in Nodes : node[n].quiet > TimeoutTicks => node[n].effView > node[n].view

\* scenario.go lines 62-63: Timeout and NewView messages are permitted
\* between partitions.
TimeoutsPermitted ==
    lost \cap {"timeout", "newView"} = {}

\* The executed logs of the replicas without a twin, seen as the Ledger.
Abstract == INSTANCE Ledger
                WITH Replicas <- Correct, Blocks <- BlockIds,
                     logs <- [n \in Correct |-> node[n].executed]

\* The simulator's replicas implement the Ledger: commandModule.Exec only
\* appends, never a block twice, and the correct replicas' logs stay
\* prefix-compatible under partitions and equivocating twins (scenario.go
\* Exec, with spec 4.3's commit rule and I2).
ImplementsLedger == Abstract!Spec

=============================================================================
