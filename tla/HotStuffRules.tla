--------------------------- MODULE HotStuffRules ---------------------------
(***************************************************************************)
(* The chained-HotStuff rule engine of spec.md 4.3, which is not under    *)
(* src/: pure predicates over the block tree.  A block is named by the    *)
(* pair <<view, proposer's network ID>> (a node proposes at most once per  *)
(* view), and the tree is the function `par` from a block to its parent,  *)
(* whose QC the block carries.  Genesis is <<0, 0>>.                       *)
(***************************************************************************)
EXTENDS Naturals, Sequences

Genesis == <<0, 0>>

BlockView(b) == b[1]

\* The blocks from genesis (excluded) to b, oldest first.
Path(par, b) ==
    LET f[x \in DOMAIN par] ==
            IF x = Genesis THEN << >> ELSE Append(f[par[x]], x)
    IN  f[b]

\* extends(a, b): a is a proper descendant of b.
Extends(par, a, b) ==
    /\ a # b
    /\ \/ b = Genesis
       \/ \E i \in 1..Len(Path(par, a)) : Path(par, a)[i] = b

\* voteRule(proposal): a later view than the last vote, and the proposal
\* extends bLock or carries a QC newer than bLock (the liveness rule).
VoteRule(par, b, lastVoted, bLock) ==
    /\ BlockView(b) > lastVoted
    /\ \/ Extends(par, b, bLock)
       \/ BlockView(par[b]) > BlockView(bLock)

\* commitRule: b0 <- b1 <- b2 with contiguous views, b2 just QC'd, commits
\* b0; Genesis stands for "nothing to commit".
CommitTarget(par, b2) ==
    LET b1 == par[b2]
        b0 == IF b1 = Genesis THEN Genesis ELSE par[b1]
    IN  IF /\ b2 # Genesis /\ b1 # Genesis /\ b0 # Genesis
           /\ BlockView(b2) = BlockView(b1) + 1
           /\ BlockView(b1) = BlockView(b0) + 1
        THEN b0 ELSE Genesis

\* The ancestors of b0 above bExec, in ascending view order: what the
\* executor runs when b0 is committed.
ToExecute(par, b0, bExec) ==
    SelectSeq(Path(par, b0), LAMBDA x : BlockView(x) > BlockView(bExec))

\* hotstuff.QuorumSize(n) = n - f with f = (n - 1) / 3.
Quorum(n) == n - (n - 1) \div 3

=============================================================================
