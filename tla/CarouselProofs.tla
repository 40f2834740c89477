-------------------------- MODULE CarouselProofs --------------------------
(***************************************************************************)
(* Proofs about Carousel: GetLeader's candidate set is never empty on the *)
(* carousel path, and the leader it returns is a QC participant that      *)
(* proposed none of the last f committed blocks, for every N >= 1 and     *)
(* every chain length and view bound.                                     *)
(***************************************************************************)
EXTENDS Carousel, SequenceTheorems, FiniteSetTheorems, TLAPS

\* Every recorded answer of GetLeader is one the current state allows.
LeaderChosen ==
    \A r \in Observers : leader[r] # NoLeader => leader[r] \in LeaderChoices(round)

CarouselInv == TypeOK /\ LeaderChosen

-----------------------------------------------------------------------------
(* Arithmetic of f and q.                                                  *)

\* Fewer than a quorum are faulty: N - f > f because 3f <= N - 1.
LEMMA QuorumExceedsFaulty ==
    /\ NumFaulty \in Nat
    /\ QuorumSize \in Nat
    /\ NumFaulty < QuorumSize
  BY NAssumption DEF NumFaulty, QuorumSize

\* chooseRoundRobin returns a replica ID.
LEMMA RoundRobinInRange ==
    ASSUME NEW v \in Nat
    PROVE  ChooseRoundRobin(v) \in Replicas
  BY NAssumption DEF ChooseRoundRobin, Replicas

-----------------------------------------------------------------------------
(* The loop adds at most f authors.                                        *)

\* The loop visits at most f blocks.
LEMMA WalkedBound ==
    ASSUME chain \in Seq(Block)
    PROVE  /\ Walked \subseteq 1..Len(chain)
           /\ IsFiniteSet(Walked)
           /\ Cardinality(Walked) <= NumFaulty
<1> DEFINE L == Len(chain)
<1>1. L \in Nat /\ NumFaulty \in Nat
  BY LenProperties, QuorumExceedsFaulty
<1>2. Walked \subseteq (L - NumFaulty + 1)..L
  BY <1>1 DEF Walked
<1>3. IsFiniteSet((L - NumFaulty + 1)..L)
      /\ Cardinality((L - NumFaulty + 1)..L) = NumFaulty
  <2>1. L - NumFaulty + 1 \in Int /\ L \in Int
    BY <1>1
  <2>2. IsFiniteSet((L - NumFaulty + 1)..L)
      /\ Cardinality((L - NumFaulty + 1)..L)
           = IF L - NumFaulty + 1 > L THEN 0 ELSE L - (L - NumFaulty + 1) + 1
    BY <2>1, FS_Interval
  <2> QED
    BY <1>1, <2>2
<1>4. IsFiniteSet(Walked) /\ Cardinality(Walked) <= Cardinality((L - NumFaulty + 1)..L)
  BY <1>2, <1>3, FS_Subset
<1> QED
  BY <1>3, <1>4 DEF Walked

\* lastAuthors is finite and has at most f members.
LEMMA LastAuthorsBound ==
    ASSUME chain \in Seq(Block)
    PROVE  /\ IsFiniteSet(LastAuthors)
           /\ Cardinality(LastAuthors) <= NumFaulty
<1> DEFINE g == [i \in Walked |-> chain[i].proposer]
<1>1. /\ Walked \subseteq 1..Len(chain)
      /\ IsFiniteSet(Walked)
      /\ Cardinality(Walked) <= NumFaulty
  BY WalkedBound
<1>2. g \in Surjection(Walked, LastAuthors)
  BY <1>1 DEF Surjection, LastAuthors
<1>3. IsFiniteSet(LastAuthors) /\ Cardinality(LastAuthors) <= Cardinality(Walked)
  BY <1>1, <1>2, FS_Surjection
<1>4. Cardinality(LastAuthors) \in Nat /\ Cardinality(Walked) \in Nat
  BY <1>1, <1>3, FS_CardinalityType
<1> QED
  BY <1>1, <1>3, <1>4, QuorumExceedsFaulty

\* A quorum certificate leaves a candidate once the last f authors are out.
LEMMA CandidatesOfQuorum ==
    ASSUME chain \in Seq(Block), headQC \in QuorumSets
    PROVE  Candidates # {}
<1>1. IsFiniteSet(LastAuthors) /\ Cardinality(LastAuthors) <= NumFaulty
  BY LastAuthorsBound
<1>2. IsFiniteSet(headQC) /\ Cardinality(headQC) >= QuorumSize
  <2>1. IsFiniteSet(Replicas)
    <3>1. 1 \in Int /\ N \in Int
      BY NAssumption
    <3> QED
      BY <3>1, FS_Interval DEF Replicas
  <2> QED
    BY <2>1, FS_Subset DEF QuorumSets
<1>3. SUFFICES ASSUME headQC \subseteq LastAuthors PROVE FALSE
  BY DEF Candidates
<1>4. Cardinality(headQC) <= Cardinality(LastAuthors)
  BY <1>1, <1>3, FS_Subset
<1>5. Cardinality(headQC) \in Nat /\ Cardinality(LastAuthors) \in Nat
  BY <1>1, <1>2, FS_CardinalityType
<1> QED
  BY <1>1, <1>2, <1>4, <1>5, QuorumExceedsFaulty

-----------------------------------------------------------------------------
(* The invariant.                                                          *)

\* On the carousel path the leader choices are the non-empty candidates;
\* otherwise the round-robin ID.
LEMMA ChoicesInReplicas ==
    ASSUME TypeOK
    PROVE  LeaderChoices(round) \subseteq Replicas
<1>1. round \in Nat
  BY BoundAssumption DEF TypeOK, Views
<1>2. headQC \subseteq Replicas
  BY DEF TypeOK, QuorumSets
<1> QED
  BY <1>1, <1>2, RoundRobinInRange DEF LeaderChoices, Candidates

LEMMA InitCarouselInv == Init => CarouselInv
  BY BoundAssumption DEF Init, CarouselInv, TypeOK, LeaderChosen, Views, QuorumSets

LEMMA NextCarouselInv == CarouselInv /\ [Next]_vars => CarouselInv'
<1> SUFFICES ASSUME CarouselInv, [Next]_vars PROVE CarouselInv'
  OBVIOUS
<1>1. CASE \E r \in Observers : GetLeader(r)
  <2>1. PICK r \in Observers : GetLeader(r)
    BY <1>1
  <2>2. PICK l \in LeaderChoices(round) : leader' = [leader EXCEPT ![r] = l]
    BY <2>1 DEF GetLeader
  <2>3. l \in Replicas
    BY <2>2, ChoicesInReplicas DEF CarouselInv
  <2>4. UNCHANGED <<round, chain, headQC>>
    BY <2>1 DEF GetLeader
  <2>5. LeaderChoices(round)' = LeaderChoices(round)
    BY <2>4 DEF LeaderChoices, UsesCarousel, HeadView, Candidates, LastAuthors, Walked
  <2>6. TypeOK'
    BY <2>2, <2>3, <2>4 DEF CarouselInv, TypeOK
  <2>7. LeaderChosen'
    BY <2>2, <2>5, ObserverAssumption DEF CarouselInv, TypeOK, LeaderChosen
  <2> QED
    BY <2>6, <2>7 DEF CarouselInv
<1>2. CASE AdvanceView
  BY <1>2, BoundAssumption DEF AdvanceView, CarouselInv, TypeOK, LeaderChosen, Views
<1>3. CASE Commit
  <2>1. PICK b \in Block, Q \in QuorumSets : chain' = Append(chain, b) /\ headQC' = Q
    BY <1>3 DEF Commit
  <2>2. chain' \in Seq(Block)
    BY <2>1, AppendProperties DEF CarouselInv, TypeOK
  <2> QED
    BY <1>3, <2>1, <2>2 DEF Commit, CarouselInv, TypeOK, LeaderChosen
<1>4. CASE UNCHANGED vars
  <2>1. LeaderChoices(round)' = LeaderChoices(round)
    BY <1>4 DEF vars, LeaderChoices, UsesCarousel, HeadView, Candidates, LastAuthors, Walked
  <2> QED
    BY <1>4, <2>1 DEF vars, CarouselInv, TypeOK, LeaderChosen
<1> QED
  BY <1>1, <1>2, <1>3, <1>4 DEF Next

-----------------------------------------------------------------------------
(* Theorems.                                                               *)

\* Carousel GetLeader (carousel.go:62) never draws from an empty candidate
\* slice, for every number of replicas.
THEOREM CandidatesExist == Spec => []CandidatesNonEmpty
<1>1. CarouselInv => CandidatesNonEmpty
  BY CandidatesOfQuorum DEF CarouselInv, TypeOK, CandidatesNonEmpty, UsesCarousel
<1> QED
  BY InitCarouselInv, NextCarouselInv, <1>1, PTL DEF Spec

\* Spec S6 for every number of replicas: the leader Carousel GetLeader
\* returns on the carousel path is a QC participant and proposed none of the
\* last f committed blocks.
THEOREM RecentAuthorsExcluded == Spec => []LeaderAvoidsRecentAuthors
<1>1. CarouselInv => LeaderAvoidsRecentAuthors
  <2> SUFFICES ASSUME CarouselInv, NEW r \in Observers,
                      leader[r] # NoLeader, UsesCarousel(round)
               PROVE  /\ leader[r] \in headQC
                      /\ \A i \in 1..Len(chain) :
                            Len(chain) - i < NumFaulty => chain[i].proposer # leader[r]
    BY DEF LeaderAvoidsRecentAuthors
  <2>1. leader[r] \in Candidates
    BY DEF CarouselInv, LeaderChosen, LeaderChoices
  <2> QED
    BY <2>1 DEF Candidates, LastAuthors, Walked
<1> QED
  BY InitCarouselInv, NextCarouselInv, <1>1, PTL DEF Spec

=============================================================================
