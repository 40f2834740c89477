----------------------------- MODULE Carousel -----------------------------
(***************************************************************************)
(* The Carousel leader rotation of src/leaderrotation/carousel.go.        *)
(*                                                                         *)
(* GetLeader(round) reads the committed head, the participants of the QC   *)
(* it carries and up to f of its ancestors.  Each replica owns its own     *)
(* PRNG seeded from wall-clock time (NewCarousel), so the draw among the   *)
(* candidates is a free choice of each call.                               *)
(*                                                                         *)
(* The committed chain grows by Commit steps, rounds advance by            *)
(* AdvanceView, and the Observers call GetLeader on the current round.     *)
(* Committed ancestors are in the local block chain (blocks are never     *)
(* pruned here), so BlockChain().Get on them succeeds.                     *)
(***************************************************************************)
EXTENDS Naturals, Sequences, FiniteSets

CONSTANTS
    N,            \* Configuration().Len()
    ChainLength,  \* Consensus().ChainLength(): 3 for chained HotStuff
    MaxView,      \* bound on the rounds explored
    ViewModulus,  \* 2^64: consensus.View is a uint64
    Observers,    \* replicas whose GetLeader calls are recorded
    NoLeader      \* "GetLeader not called in this round and state"

ASSUME NAssumption == N \in Nat \ {0}
ASSUME ChainLengthAssumption == ChainLength \in Nat \ {0}
ASSUME BoundAssumption ==
    /\ MaxView \in Nat \ {0}
    /\ ViewModulus \in Nat /\ ViewModulus > MaxView + ChainLength
ASSUME ObserverAssumption == Observers \subseteq 1..N /\ NoLeader \notin 1..N

Replicas == 1..N

\* hotstuff.NumFaulty and hotstuff.QuorumSize (spec.md glossary)
NumFaulty == (N - 1) \div 3
QuorumSize == N - NumFaulty

\* chooseRoundRobin: leader(v) = (v - 1) mod N over the IDs 1..N (spec.md 4.5)
ChooseRoundRobin(round) == ((round - 1) % N) + 1

\* uint64 subtraction round - consensus.View(ChainLength)
ViewMinus(a, b) == (a - b) % ViewModulus

Views == 1..MaxView
Block == [view : Views, proposer : Replicas]
QuorumSets == {Q \in SUBSET Replicas : Cardinality(Q) >= QuorumSize}

VARIABLES
    round,    \* the view GetLeader is asked about
    chain,    \* committed blocks above genesis, oldest first
    headQC,   \* participants of the commit head's QC; {} for genesis (nil signature)
    leader    \* leader[r]: what GetLeader(round) last returned at r

vars == <<round, chain, headQC, leader>>

-----------------------------------------------------------------------------
(* GetLeader, piece by piece.                                              *)

HeadView == IF chain = << >> THEN 0 ELSE chain[Len(chain)].view

\* Mutant of Walked: the loop drops its i < f bound and walks to genesis.
WalkedToGenesis == 1..Len(chain)

\* The loop: from the commit head towards genesis, at most f blocks.
Walked == {i \in 1..Len(chain) : Len(chain) - i < NumFaulty}

LastAuthors == {chain[i].proposer : i \in Walked}

Candidates == headQC \ LastAuthors

\* The round-robin fallbacks: startup, or the head is not round - ChainLength.
UsesCarousel(r) ==
    /\ headQC # {}
    /\ HeadView = ViewMinus(r, ChainLength)

\* Mutant of LeaderChoices: the participants are not filtered by lastAuthors.
LeaderChoicesUnfiltered(r) ==
    IF UsesCarousel(r) THEN headQC ELSE {ChooseRoundRobin(r)}

\* The values GetLeader(r) may return: candidates[rnd.Int() % len(candidates)]
\* is any candidate, since rnd is seeded from the clock.
LeaderChoices(r) ==
    IF UsesCarousel(r) THEN Candidates ELSE {ChooseRoundRobin(r)}

-----------------------------------------------------------------------------
Init ==
    /\ round = 1
    /\ chain = << >>
    /\ headQC = {}
    /\ leader = [r \in Observers |-> NoLeader]

\* Replica r calls GetLeader(round).
GetLeader(r) ==
    /\ \E l \in LeaderChoices(round) : leader' = [leader EXCEPT ![r] = l]
    /\ UNCHANGED <<round, chain, headQC>>

\* The synchronizer moves to the next view.
AdvanceView ==
    /\ round < MaxView
    /\ round' = round + 1
    /\ leader' = [r \in Observers |-> NoLeader]
    /\ UNCHANGED <<chain, headQC>>

\* A block of an earlier view, carrying a QC of a quorum, becomes the new
\* commit head.
Commit ==
    /\ \E b \in Block, Q \in QuorumSets :
         /\ HeadView < b.view
         /\ b.view < round
         /\ chain' = Append(chain, b)
         /\ headQC' = Q
    /\ leader' = [r \in Observers |-> NoLeader]
    /\ UNCHANGED round

Next ==
    \/ \E r \in Observers : GetLeader(r)
    \/ AdvanceView
    \/ Commit

Spec == Init /\ [][Next]_vars

-----------------------------------------------------------------------------
TypeOK ==
    /\ round \in Views
    /\ chain \in Seq(Block)
    /\ headQC \in QuorumSets \cup {{}}
    /\ leader \in [Observers -> Replicas \cup {NoLeader}]

\* GetLeader never indexes an empty candidates slice: whenever the carousel
\* path is taken (a QC'd head of view round - ChainLength), the loop's
\* lastAuthors leave some participant of the head's QC, so
\* candidates[rnd.Int() % len(candidates)] (carousel.go:62) cannot panic.
CandidatesNonEmpty ==
    UsesCarousel(round) => Candidates # {}

\* Spec S6: a leader GetLeader chose on the carousel path voted for the
\* commit head's QC and proposed none of the last f committed blocks.
LeaderAvoidsRecentAuthors ==
    \A r \in Observers :
        leader[r] # NoLeader /\ UsesCarousel(round) =>
            /\ leader[r] \in headQC
            /\ \A i \in 1..Len(chain) :
                   Len(chain) - i < NumFaulty => chain[i].proposer # leader[r]

\* Spec 4.5: the rotation is a deterministic function of the committed chain
\* and the view, so two replicas that see the same commit head and ask about
\* the same round get the same leader (carousel.go GetLeader, NewCarousel).
LeaderAgreement ==
    \A r1, r2 \in Observers :
        leader[r1] # NoLeader /\ leader[r2] # NoLeader => leader[r1] = leader[r2]

=============================================================================
