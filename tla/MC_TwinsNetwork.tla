------------------------- MODULE MC_TwinsNetwork -------------------------
(* Model-checking instances of TwinsNetwork: four replicas, with and      *)
(* without a twin of replica 1, and partition plans for a few views.     *)
EXTENDS TwinsNetwork

All == {1, 2, 3, 4}

\* Four replicas, one node each.
SoloRID == [n \in 1..4 |-> n]

\* Replica 1 has a twin, node 5.
TwinRID == [n \in 1..5 |-> IF n = 5 THEN 1 ELSE n]

\* View 1's leader is cut off from the others, so view 1 cannot make
\* progress and only a timeout can move the replicas on.
StalledPlan ==
    {<< [leader |-> 1, partitions |-> {{1}, {2, 3, 4}}], [leader |-> 2, partitions |-> {All}],
        [leader |-> 3, partitions |-> {All}], [leader |-> 4, partitions |-> {All}] >>}

\* View 1 forms its QC; in views 2 and 3 the replicas are in two halves,
\* so view 2 times out and the timeouts (routed by view 3's partitions,
\* the effective view) cross the cut.
SplitPlan ==
    {<< [leader |-> 1, partitions |-> {All}], [leader |-> 2, partitions |-> {{1, 2}, {3, 4}}],
        [leader |-> 3, partitions |-> {{1, 2}, {3, 4}}], [leader |-> 4, partitions |-> {All}] >>}

\* Partition patterns of the five nodes: healed; the twins apart; the
\* twins apart with node 2 in both halves.
Patterns == {{{1, 2, 3, 4, 5}}, {{1, 2, 3}, {4, 5}}, {{1, 2, 3}, {2, 4, 5}}}

\* Five views led round-robin, each healed or with replica 4 cut off: the
\* first two blocks can both be committed.
LedgerPlans ==
    {v \in [1..5 -> [leader : {1, 2, 3, 4}, partitions : {{All}, {{1, 2, 3}, {4}}}]] :
        \A i \in 1..5 : v[i].leader = ((i - 1) % 4) + 1}

\* Every scenario of four views: views 1 and 2 led by replica 1 (the twins)
\* or 2 under any pattern, view 3 led by either with no partition, view 4
\* led by the twins, healed or split.
TwinScenarios ==
    {v \in [1..4 -> [leader : {1, 2}, partitions : Patterns]] :
        /\ v[3].partitions = {{1, 2, 3, 4, 5}}
        /\ v[4] \in {[leader |-> 1, partitions |-> P] :
                        P \in {{{1, 2, 3, 4, 5}}, {{1, 2, 3}, {4, 5}}}}}

=============================================================================
