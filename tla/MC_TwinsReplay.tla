--------------------------- MODULE MC_TwinsReplay ---------------------------
(***************************************************************************)
(* Two runs of the twins simulator on the same scenario, one after the    *)
(* other, as a test that replays a scenario does: run A goes to the end   *)
(* of run(ticks), then run B starts from scratch.  Each run chooses its   *)
(* own node order in every tick (network.go tick ranges over the map      *)
(* n.nodes), so the pair explores every two orders.                       *)
(***************************************************************************)
EXTENDS MC_TwinsNetwork

VARIABLES
    viewsB, parentOfB, nodeB, pendingB, phaseB, runningB, ranB, tickNoB, lostB

varsA == <<views, parentOf, node, pending, phase, running, ran, tickNo, lost>>
varsB == <<viewsB, parentOfB, nodeB, pendingB, phaseB, runningB, ranB, tickNoB, lostB>>

B == INSTANCE TwinsNetwork
        WITH views <- viewsB, parentOf <- parentOfB, node <- nodeB,
             pending <- pendingB, phase <- phaseB, running <- runningB,
             ran <- ranB, tickNo <- tickNoB, lost <- lostB

\* No partitions: both twins of replica 1 propose in view 1 and every
\* other node receives both proposals.
EquivocationPlan ==
    {<< [leader |-> 1, partitions |-> {{1, 2, 3, 4, 5}}],
        [leader |-> 2, partitions |-> {{1, 2, 3, 4, 5}}],
        [leader |-> 3, partitions |-> {{1, 2, 3, 4, 5}}],
        [leader |-> 4, partitions |-> {{1, 2, 3, 4, 5}}] >>}

ReplayInit == Init /\ B!Init /\ viewsB = views

\* Run A takes its steps; once it has ended, run B takes its own.
ReplayNext ==
    \/ Next /\ UNCHANGED varsB
    \/ phase = "end" /\ B!Next /\ UNCHANGED varsA

ReplaySpec == ReplayInit /\ [][ReplayNext]_<<varsA, varsB>>

\* Spec 4.7: the simulator's deterministic serialization (deliver, then a
\* tick to every node, each drained in turn) makes a scenario reproducible:
\* two runs of it end with every node having executed the same blocks
\* (network.go tick; scenario.go ExecuteScenario, NodeCommits).
Reproducible ==
    (phase = "end" /\ phaseB = "end") => \A n \in Nodes : node[n].executed = nodeB[n].executed

=============================================================================
