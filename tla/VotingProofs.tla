---------------------------- MODULE VotingProofs ----------------------------
(***************************************************************************)
(* Proofs about the votes on conflicts, for all conflicts, blocks, voters  *)
(* and weights and however the handlers of blocks interleave: a vote only  *)
(* gives way to a later one, a quorum of voters is noticed by the last     *)
(* handler that adds them up, what is accepted has a quorum of issuers,    *)
(* liked conflicts do not compete, and the steps of the conflict DAG are   *)
(* those of SpecDAG.                                                       *)
(***************************************************************************)
EXTENDS Voting, ConflictDAGProofs, FiniteSetTheorems, NaturalsInduction, WellFoundedInduction, TLAPS

-----------------------------------------------------------------------------
(* Weights are sums, in whatever order the fold takes the voters. *)

(* The element a fold takes out of a set next, and what one round of it computes. *)
Pick(s) == CHOOSE x \in s : TRUE
Round(g, s) == IF s = {} THEN 0 ELSE Weight[Pick(s)] + g[s \ {Pick(s)}]

(* g adds up the weights of the subsets of S. *)
Adds(g, S) == g = [s \in SUBSET S |-> Round(g, s)]

Sum(S) == CHOOSE g : Adds(g, S)

LEMMA WeightIsSum ==
    ASSUME NEW V
    PROVE  WeightOf(V) = Sum(V)[V]
    BY DEF WeightOf, MapThenSumSet, MapThenFoldSet, Sum, Adds, Round, Pick

LEMMA PickOne ==
    ASSUME NEW s, s # {}
    PROVE  Pick(s) \in s
    BY DEF Pick

(* A set of natural numbers has a least one. *)
LEMMA LeastNumber ==
    ASSUME NEW T \in SUBSET Nat, T # {}
    PROVE  \E m \in T : \A n \in T : m <= n
<1>1. PICK t \in T : \A s \in T : ~(<<s, t>> \in OpToRel(<, Nat))
    BY NatLessThanWellFounded, WFMin
<1>2. ASSUME NEW n \in T PROVE t <= n
    <2>1. ~(n < t)
        BY <1>1 DEF OpToRel
    <2> QED BY <2>1
<1> QED
    BY <1>2

(* Sets of voters are finite: those of a nonempty collection have a smallest one. *)
LEMMA SmallestSet ==
    ASSUME NEW C \in SUBSET (SUBSET Voter), C # {}
    PROVE  \E s \in C : \A x \in s : s \ {x} \notin C
<1> DEFINE T == {Cardinality(s) : s \in C}
<1>1. ASSUME NEW s \in SUBSET Voter PROVE IsFiniteSet(s) /\ Cardinality(s) \in Nat
    BY FS_Subset, FS_CardinalityType, VoterAssumption
<1>2. T \in SUBSET Nat /\ T # {}
    BY <1>1
<1>3. PICK m \in T : \A n \in T : m <= n
    <2> HIDE DEF T
    <2> QED BY <1>2, LeastNumber
<1>4. PICK s \in C : Cardinality(s) = m
    BY <1>3
<1>5. ASSUME NEW x \in s, s \ {x} \in C PROVE FALSE
    <2>1. Cardinality(s \ {x}) = Cardinality(s) - 1
        BY <1>1, FS_RemoveElement
    <2>2. m <= Cardinality(s \ {x})
        BY <1>3, <1>5
    <2>3. m \in Nat
        BY <1>2
    <2> QED BY <1>4, <2>1, <2>2, <2>3
<1> QED
    BY <1>5

(* The subsets of S with at most n elements. *)
Small(S, n) == {s \in SUBSET S : Cardinality(s) <= n}

LEMMA SumExists ==
    ASSUME NEW S \in SUBSET Voter
    PROVE  \E g : Adds(g, S)
<1> DEFINE Partial(g, n) == g = [s \in Small(S, n) |-> Round(g, s)]
           Bad == {n \in Nat : ~ \E g : Partial(g, n)}
<1>1. ASSUME NEW s \in SUBSET S PROVE IsFiniteSet(s) /\ Cardinality(s) \in Nat
    BY FS_Subset, FS_CardinalityType, VoterAssumption
<1>2. ASSUME Bad # {} PROVE FALSE
    <2>1. PICK n \in Bad : \A m \in Bad : n <= m
        <3>1. Bad \in SUBSET Nat
            OBVIOUS
        <3> HIDE DEF Bad
        <3> QED BY <1>2, <3>1, LeastNumber
    <2>2. n \in Nat
        OBVIOUS
    <2>3. n # 0
        <3> DEFINE g == [s \in Small(S, 0) |-> 0]
        <3>1. ASSUME NEW s \in Small(S, 0) PROVE s = {}
            <4>1. s \in SUBSET S /\ Cardinality(s) = 0
                BY <1>1 DEF Small
            <4> QED BY <1>1, <4>1, FS_EmptySet
        <3>2. g = [s \in Small(S, 0) |-> Round(g, s)]
            <4>1. ASSUME NEW s \in Small(S, 0) PROVE Round(g, s) = 0
                BY <3>1 DEF Round
            <4> HIDE DEF g
            <4> QED BY <4>1 DEF g
        <3>3. Partial(g, 0)
            BY <3>2
        <3> HIDE DEF g, Partial
        <3> QED BY <2>1, <3>3
    <2>4. n - 1 \in Nat /\ n - 1 \notin Bad
        BY <2>1, <2>2, <2>3
    <2>5. PICK g : Partial(g, n - 1)
        BY <2>4
    <2> DEFINE h == [s \in Small(S, n) |-> Round(g, s)]
    <2>6. ASSUME NEW s \in Small(S, n) PROVE s \in SUBSET S /\ (s # {} => s \ {Pick(s)} \in Small(S, n - 1))
        <3>1. s \in SUBSET S /\ Cardinality(s) <= n
            BY DEF Small
        <3>2. ASSUME s # {} PROVE Cardinality(s \ {Pick(s)}) = Cardinality(s) - 1
            BY <1>1, <3>1, <3>2, PickOne, FS_RemoveElement
        <3>3. Cardinality(s) \in Nat
            BY <1>1, <3>1
        <3> QED BY <2>2, <3>1, <3>2, <3>3 DEF Small
    <2>7. ASSUME NEW s \in Small(S, n - 1) PROVE s \in Small(S, n) /\ h[s] = g[s]
        <3>1. s \in Small(S, n)
            <4>1. s \in SUBSET S /\ Cardinality(s) <= n - 1 /\ Cardinality(s) \in Nat
                BY <1>1 DEF Small
            <4> QED BY <2>2, <4>1 DEF Small
        <3>2. g[s] = Round(g, s)
            BY <2>5
        <3> QED BY <3>1, <3>2
    <2>8. ASSUME NEW s \in Small(S, n) PROVE Round(h, s) = Round(g, s)
        <3>1. s # {} => h[s \ {Pick(s)}] = g[s \ {Pick(s)}]
            BY <2>6, <2>7
        <3> HIDE DEF h
        <3> QED BY <3>1 DEF Round
    <2>9. Partial(h, n)
        <3>1. h = [s \in Small(S, n) |-> Round(h, s)]
            <4> HIDE DEF h
            <4> QED BY <2>8 DEF h
        <3> QED BY <3>1
    <2> HIDE DEF h, Partial
    <2> QED BY <2>1, <2>9
<1>3. Small(S, Cardinality(S)) = SUBSET S
    BY FS_Subset, FS_CardinalityType, VoterAssumption DEF Small
<1>4. Cardinality(S) \in Nat
    BY <1>1
<1>5. PICK g : Partial(g, Cardinality(S))
    BY <1>2, <1>4
<1>6. Adds(g, S)
    BY <1>3, <1>5 DEF Adds
<1> QED
    BY <1>6

LEMMA SumAdds ==
    ASSUME NEW S \in SUBSET Voter
    PROVE  Adds(Sum(S), S)
    BY SumExists DEF Sum

(* The sum over a set does not depend on the set it is a subset of. *)
LEMMA SumUnique ==
    ASSUME NEW S \in SUBSET Voter
    PROVE  \A s \in SUBSET S : Sum(S)[s] = Sum(Voter)[s]
<1> DEFINE C == {s \in SUBSET S : Sum(S)[s] # Sum(Voter)[s]}
<1>1. SUFFICES ASSUME C # {} PROVE FALSE
    OBVIOUS
<1>2. PICK s \in C : \A x \in s : s \ {x} \notin C
    <2>1. C \in SUBSET (SUBSET Voter)
        OBVIOUS
    <2> HIDE DEF C
    <2> QED BY <1>1, <2>1, SmallestSet
<1>3. s \in SUBSET S /\ s \in SUBSET Voter
    BY <1>2
<1>4. Sum(S)[s] = Round(Sum(S), s)
    BY <1>3, SumAdds DEF Adds
<1>5. Sum(Voter)[s] = Round(Sum(Voter), s)
    BY <1>3, SumAdds DEF Adds
<1>6. s # {} => Sum(S)[s \ {Pick(s)}] = Sum(Voter)[s \ {Pick(s)}]
    BY <1>2, <1>3, PickOne
<1>7. Round(Sum(S), s) = Round(Sum(Voter), s)
    BY <1>6 DEF Round
<1> QED
    BY <1>2, <1>4, <1>5, <1>7

LEMMA WeightRound ==
    ASSUME NEW V \in SUBSET Voter
    PROVE  WeightOf(V) = IF V = {} THEN 0 ELSE Weight[Pick(V)] + WeightOf(V \ {Pick(V)})
<1>1. ASSUME NEW U \in SUBSET Voter PROVE WeightOf(U) = Sum(Voter)[U]
    BY SumUnique, WeightIsSum
<1>2. Sum(Voter)[V] = Round(Sum(Voter), V)
    BY SumAdds DEF Adds
<1> QED
    BY <1>1, <1>2 DEF Round

LEMMA WeightNat ==
    ASSUME NEW V \in SUBSET Voter
    PROVE  WeightOf(V) \in Nat
<1> DEFINE C == {s \in SUBSET Voter : WeightOf(s) \notin Nat}
<1>1. SUFFICES ASSUME C # {} PROVE FALSE
    OBVIOUS
<1>2. PICK s \in C : \A x \in s : s \ {x} \notin C
    <2>1. C \in SUBSET (SUBSET Voter)
        OBVIOUS
    <2> HIDE DEF C
    <2> QED BY <1>1, <2>1, SmallestSet
<1>3. s # {} => Pick(s) \in s
    BY PickOne
<1>4. s # {} => Weight[Pick(s)] \in Nat /\ WeightOf(s \ {Pick(s)}) \in Nat
    BY <1>2, <1>3, VoterAssumption
<1> QED
    BY <1>2, <1>4, WeightRound

(* Adding a voter, whichever voters the folds take out first. *)
LEMMA WeightAdd ==
    ASSUME NEW V \in SUBSET Voter, NEW v \in Voter, v \notin V
    PROVE  WeightOf(V \cup {v}) = WeightOf(V) + Weight[v]
<1> DEFINE C == {s \in SUBSET Voter : \E x \in Voter \ s : WeightOf(s \cup {x}) # WeightOf(s) + Weight[x]}
<1>1. SUFFICES ASSUME C # {} PROVE FALSE
    OBVIOUS
<1>2. PICK s \in C : \A x \in s : s \ {x} \notin C
    <2>1. C \in SUBSET (SUBSET Voter)
        OBVIOUS
    <2> HIDE DEF C
    <2> QED BY <1>1, <2>1, SmallestSet
<1>3. PICK x \in Voter \ s : WeightOf(s \cup {x}) # WeightOf(s) + Weight[x]
    BY <1>2
<1> DEFINE t == s \cup {x}
           y == Pick(t)
<1>4. s \in SUBSET Voter /\ t \in SUBSET Voter /\ t # {} /\ y \in t
    BY <1>2, PickOne
<1>5. WeightOf(t) = Weight[y] + WeightOf(t \ {y})
    BY <1>4, WeightRound
<1>6. Weight[x] \in Nat /\ WeightOf(s) \in Nat
    BY <1>4, WeightNat, VoterAssumption
<1>7. CASE y = x
    <2>1. t \ {y} = s
        BY <1>7
    <2> HIDE DEF t, y
    <2>2. WeightOf(t) = WeightOf(s) + Weight[x]
        <3>1. WeightOf(t) = Weight[x] + WeightOf(s)
            BY <1>5, <1>7, <2>1, Zenon
        <3> QED BY <1>6, <3>1
    <2> QED BY <1>3, <2>2 DEF t
<1>8. CASE y # x
    <2> DEFINE u == s \ {y}
    <2>1. y \in s /\ y \in Voter
        BY <1>4, <1>8
    <2>2. u \in SUBSET Voter /\ u \notin C
        BY <1>2, <1>4, <2>1
    <2>3. t \ {y} = u \cup {x} /\ x \notin u /\ y \notin u /\ u \cup {y} = s
        BY <1>8, <2>1
    <2> HIDE DEF u, y, t
    <2>4. WeightOf(u \cup {x}) = WeightOf(u) + Weight[x] /\ WeightOf(u \cup {y}) = WeightOf(u) + Weight[y]
        BY <1>3, <2>1, <2>2, <2>3
    <2>5. Weight[y] \in Nat /\ WeightOf(u) \in Nat
        BY <2>1, <2>2, WeightNat, VoterAssumption
    <2>6. WeightOf(t) = WeightOf(s) + Weight[x]
        BY <1>5, <1>6, <2>3, <2>4, <2>5
    <2> QED BY <1>3, <2>6 DEF t
<1> QED
    BY <1>7, <1>8

(* More voters have at least the weight. *)
LEMMA WeightMonotone ==
    ASSUME NEW U \in SUBSET Voter, NEW V \in SUBSET U
    PROVE  WeightOf(V) <= WeightOf(U)
<1> DEFINE C == {s \in SUBSET Voter : \E r \in SUBSET s : ~(WeightOf(r) <= WeightOf(s))}
<1>1. SUFFICES ASSUME C # {} PROVE FALSE
    OBVIOUS
<1>2. PICK s \in C : \A x \in s : s \ {x} \notin C
    <2>1. C \in SUBSET (SUBSET Voter)
        OBVIOUS
    <2> HIDE DEF C
    <2> QED BY <1>1, <2>1, SmallestSet
<1>3. PICK r \in SUBSET s : ~(WeightOf(r) <= WeightOf(s))
    BY <1>2
<1>4. s \in SUBSET Voter /\ WeightOf(r) \in Nat /\ WeightOf(s) \in Nat
    BY <1>2, WeightNat
<1>5. r # s
    BY <1>3, <1>4
<1>6. PICK x \in s : x \notin r
    BY <1>5
<1> DEFINE u == s \ {x}
<1>7. u \in SUBSET Voter /\ r \in SUBSET u /\ u \notin C
    BY <1>2, <1>4, <1>6
<1>8. u \cup {x} = s /\ x \notin u /\ x \in Voter
    BY <1>4, <1>6
<1>9. WeightOf(r) <= WeightOf(u)
    BY <1>7
<1> HIDE DEF u
<1>10. WeightOf(s) = WeightOf(u) + Weight[x] /\ WeightOf(u) \in Nat /\ Weight[x] \in Nat
    BY <1>7, <1>8, WeightAdd, WeightNat, VoterAssumption
<1> QED
    BY <1>3, <1>4, <1>9, <1>10

(* Somebody has weight, so nobody is no quorum. *)
LEMMA QuorumFacts ==
    /\ ~IsQuorum({}) /\ ~ReachesThreshold(0)
    /\ \A V : ReachesThreshold(WeightOf(V)) <=> IsQuorum(V)
    /\ \A U \in SUBSET Voter : \A V \in SUBSET U : IsQuorum(V) => IsQuorum(U)
<1> DEFINE total == WeightOf(Voter)
<1>1. WeightOf({}) = 0
    BY WeightRound
<1>2. total \in Nat /\ total > 0
    <2>1. PICK v \in Voter : Weight[v] > 0
        BY VoterAssumption
    <2>2. WeightOf({v}) = Weight[v]
        <3>1. WeightOf({} \cup {v}) = WeightOf({}) + Weight[v] /\ {} \cup {v} = {v} /\ Weight[v] \in Nat
            BY WeightAdd, VoterAssumption
        <3> QED BY <1>1, <3>1
    <2>3. WeightOf({v}) <= total /\ total \in Nat /\ Weight[v] \in Nat
        BY WeightMonotone, WeightNat, VoterAssumption
    <2> HIDE DEF total
    <2> QED BY <2>1, <2>2, <2>3
<1>3. ~ReachesThreshold(0)
    BY <1>2 DEF ReachesThreshold, AcceptanceThreshold
<1>4. \A V : ReachesThreshold(WeightOf(V)) <=> IsQuorum(V)
    BY DEF ReachesThreshold, IsQuorum
<1>5. ASSUME NEW U \in SUBSET Voter, NEW V \in SUBSET U, IsQuorum(V) PROVE IsQuorum(U)
    <2>1. WeightOf(V) \in Nat /\ WeightOf(U) \in Nat /\ WeightOf(V) <= WeightOf(U)
        BY WeightNat, WeightMonotone
    <2>2. 100 * WeightOf(V) >= AcceptanceThreshold * total
        BY <1>5 DEF IsQuorum
    <2>3. AcceptanceThreshold * total \in Nat
        BY <1>2 DEF AcceptanceThreshold
    <2> HIDE DEF total
    <2>4. 100 * WeightOf(U) >= AcceptanceThreshold * total
        BY <2>1, <2>2, <2>3
    <2> QED BY <2>4 DEF IsQuorum, total
<1> QED
    BY <1>1, <1>3, <1>4, <1>5

-----------------------------------------------------------------------------
(* The inductive invariant, part by part. *)

(* Votes, weights and blocks refer to stored conflicts, and a handler belongs to a booked block. *)
VotesPlaced ==
    /\ \A c \in ConflictID : c \notin Stored => voters[c] = {} /\ weight[c] = 0
    /\ \A b \in Block : blockConflicts[b] \subseteq Stored
    /\ \A b \in Block : b \notin booked => thread[b] = Idle

(* The gadget has decided about c, or will. *)
Decided(c) ==
    confirmationState[c] # Pending \/ \E task \in tasks : task[1] = c /\ ReachesThreshold(task[2])

(* A handler is about to add up the voters of c, or has found enough of them. *)
AboutToBeWeighed(c) ==
    \E t \in Thread : \E vote \in thread[t].casting :
        /\ vote.conflict = c
        /\ thread[t].pc = "weigh" \/ (thread[t].pc = "set" /\ ReachesThreshold(thread[t].read))

(* Whatever the order in which handlers add up and store: a weight that is enough was announced, *)
(* and after the last change of the voters somebody adds them up.                                  *)
WeightsNoticed ==
    \A c \in ConflictID :
        /\ ReachesThreshold(weight[c]) => Decided(c)
        /\ IsQuorum(voters[c]) => Decided(c) \/ AboutToBeWeighed(c)

(* Voters, votes under way, weights under way and decisions all go back to supporters. *)
VotesSupported ==
    /\ \A c \in ConflictID : voters[c] \subseteq Supporters(c)
    /\ \A b \in Block : thread[b].add \subseteq Walk(blockConflicts[b], ParentEdges)
    /\ \A t \in Thread : \A vote \in thread[t].casting :
        /\ vote.opinion = For => vote.voter \in Supporters(vote.conflict)
        /\ thread[t].pc = "set" /\ ReachesThreshold(thread[t].read) => IsQuorum(Supporters(vote.conflict))
    /\ \A task \in tasks : ReachesThreshold(task[2]) => IsQuorum(Supporters(task[1]))

VotesInv == VotingTypeOK /\ DAGInv /\ VotesPlaced

-----------------------------------------------------------------------------
(* The conflict DAG underneath. *)

LEMMA WalkGrows ==
    ASSUME NEW S \in SUBSET ConflictID, NEW T \in SUBSET ConflictID, S \subseteq T, NEW small, NEW large,
           small \subseteq large, large \subseteq ConflictID \X ConflictID
    PROVE  Walk(S, small) \subseteq Walk(T, large)
<1> DEFINE W == Walk(T, large)
<1>1. W \in SUBSET ConflictID /\ S \subseteq W
    BY WalkStart
<1>2. ASSUME NEW e \in small, e[1] \in W PROVE e[2] \in W
    <2>1. e \in large /\ e[2] \in ConflictID /\ e = <<e[1], e[2]>>
        OBVIOUS
    <2> HIDE DEF W
    <2> QED BY <1>2, <2>1, WalkPush DEF W
<1> HIDE DEF W
<1>3. Walk(S, small) \subseteq W
    BY <1>1, <1>2, WalkLeast
<1> QED
    BY <1>3 DEF W

(* Walks along the parents stay among the stored conflicts. *)
LEMMA WalkParentsStored ==
    ASSUME DAGInv, NEW S \in SUBSET Stored
    PROVE  Walk(S, ParentEdges) \subseteq Stored
<1>1. Stored \in SUBSET ConflictID
    BY DEF Stored
<1>2. \A e \in ParentEdges : e[1] \in Stored => e[2] \in Stored
    BY DEF ParentEdges, DAGInv
<1> QED
    BY <1>1, <1>2, WalkLeast

(* So do the walks to the competitors and what builds on them. *)
LEMMA WalkChildrenStored ==
    ASSUME DAGInv, NEW S \in SUBSET Stored
    PROVE  Walk(UNION {ConflictingConflicts(c) : c \in S}, ChildEdges) \subseteq Stored
<1>1. Stored \in SUBSET ConflictID
    BY DEF Stored
<1>2. ASSUME NEW c \in ConflictID PROVE ConflictingConflicts(c) \subseteq Stored
    <2>1. ASSUME NEW d \in ConflictingConflicts(c) PROVE d \in Stored
        <3>1. PICK r \in conflictSetIDs[c] : <<r, d>> \in conflictMembers /\ d \in ConflictID
            BY DEF ConflictingConflicts, MembersBeside
        <3>2. conflictSetIDs[d] # {}
            <4>1. conflictMembers = {e \in ResourceID \X ConflictID : e[1] \in conflictSetIDs[e[2]]}
                BY DEF DAGInv, ReferencesConsistent
            <4> QED BY <3>1, <4>1
        <3> QED BY <3>1, <3>2 DEF DAGInv, ReferencesConsistent
    <2> QED BY <2>1
<1>3. UNION {ConflictingConflicts(c) : c \in S} \subseteq Stored
    BY <1>1, <1>2
<1>4. ASSUME NEW e \in ChildEdges PROVE e[2] \in Stored
    <2>1. childConflicts = {f \in ConflictID \X ConflictID : f[1] \in parents[f[2]]}
        BY DEF DAGInv, ReferencesConsistent
    <2>2. e[2] \in ConflictID /\ parents[e[2]] # {}
        BY <2>1 DEF ChildEdges
    <2> QED BY <2>2 DEF DAGInv, ReferencesConsistent
<1> HIDE DEF ChildEdges
<1> QED
    BY <1>1, <1>3, <1>4, WalkLeast

(* What a step of the DAG leaves as it was. *)
DAGGrows ==
    /\ Stored \subseteq Stored'
    /\ \A c \in Stored : parents'[c] = parents[c]
    /\ \A c \in Stored : confirmationState[c] # Pending => confirmationState'[c] # Pending

LEMMA NewConflictDAG ==
    ASSUME VotesInv, NEW c \in ConflictID, NewConflict(c)
    PROVE  DAGInv' /\ DAGGrows /\ NextDAG /\ Stored' = Stored \cup {c} /\ c \notin Stored
<1> DEFINE P == IF c \in First THEN ParentsOf[c] ELSE UnconfirmedConflicts(ParentsOf[c])
           R == ResourcesOf[c]
<1>1. CreateConflict(c, P, R) /\ c \notin Stored
    BY DEF NewConflict, CreateConflict
<1>2. P \subseteq Stored /\ P \in SUBSET ConflictID /\ R \in SUBSET ResourceID /\ R # {}
    <2>1. ParentsOf[c] \subseteq Stored
        BY DEF NewConflict
    <2>2. P \subseteq ParentsOf[c]
        BY DEF UnconfirmedConflicts
    <2>3. ResourcesOf \in [ConflictID -> (SUBSET ResourceID) \ {{}}]
        BY VoterAssumption
    <2>4. Stored \subseteq ConflictID
        BY DEF Stored
    <2> HIDE DEF P
    <2> QED BY <2>1, <2>2, <2>3, <2>4
<1> HIDE DEF P, R
<1>3. CreateContract(c, P, R)
    BY <1>1, <1>2 DEF CreateContract
<1>4. DAGInv'
    BY <1>1, <1>2, <1>3, CreateConflictPreserves DEF VotesInv
<1>5. NextDAG
    BY <1>1, <1>2, <1>3 DEF NextDAG
<1>6. NewState(c, P, R) \in {Rejected, Pending}
    BY DEF NewState
<1>7. TypeOK
    BY DEF VotesInv, DAGInv
<1>8. Stored' = Stored \cup {c}
    BY <1>1, <1>6, <1>7 DEF CreateConflict, Stored, TypeOK, Undefined, Rejected, Pending
<1>9. \A d \in Stored : parents'[d] = parents[d] /\ confirmationState'[d] = confirmationState[d]
    BY <1>1, <1>7 DEF CreateConflict, Stored, TypeOK
<1> QED
    BY <1>1, <1>4, <1>5, <1>8, <1>9 DEF DAGGrows

LEMMA HandleConflictDAG ==
    ASSUME VotesInv, NEW c \in Stored, SetConflictAccepted(c)
    PROVE  DAGInv' /\ DAGGrows /\ NextDAG /\ Stored' = Stored /\ parents' = parents /\ confirmationState'[c] # Pending
<1> DEFINE A == NewlyAccepted(c)
           R == NewlyRejected(A)
<1>0. c \in ConflictID
    BY DEF Stored
<1>1. DAGInv' /\ NextDAG
    BY <1>0, SetConflictAcceptedPreserves DEF VotesInv, NextDAG
<1>2. TypeOK
    BY DEF VotesInv, DAGInv
<1>3. A \subseteq Stored /\ R \subseteq Stored
    <2>1. A \in SUBSET Stored
        BY <1>0, <1>2, AcceptedUpwards
    <2> HIDE DEF A
    <2> QED BY <1>2, <2>1, RejectedDownwards
<1>4. /\ confirmationState' = [d \in ConflictID |->
            IF d \in R THEN Rejected ELSE IF d \in A THEN Accepted ELSE confirmationState[d]]
      /\ parents' = parents
    BY DEF SetConflictAccepted
<1>5. confirmationState[c] # Accepted => c \in A
    <2>1. c \in Walk({c}, {e \in ParentEdges : e[1] \in Stored /\ confirmationState[e[1]] # Accepted})
        BY <1>0, WalkStart
    <2> QED BY <2>1 DEF NewlyAccepted
<1> HIDE DEF A, R
<1>6. Stored' = Stored
    BY <1>3, <1>4 DEF Stored, Undefined, Rejected, Accepted
<1>7. \A d \in Stored : confirmationState[d] # Pending => confirmationState'[d] # Pending
    BY <1>4 DEF Stored, Pending, Rejected, Accepted
<1>8. confirmationState'[c] # Pending
    BY <1>0, <1>4, <1>5 DEF Pending, Rejected, Accepted
<1> QED
    BY <1>1, <1>4, <1>6, <1>7, <1>8 DEF DAGGrows

LEMMA DAGUnchanged ==
    ASSUME VotesInv, UNCHANGED dagVars
    PROVE  DAGInv' /\ DAGGrows /\ Stored' = Stored
<1>1. UNCHANGED <<parents, conflictSetIDs, confirmationState, childConflicts, conflictMembers, unannounced, triggered>>
    BY DEF dagVars
<1>2. Stored' = Stored
    BY <1>1 DEF Stored
<1>3. DAGInv'
    BY <1>1, <1>2 DEF VotesInv, DAGInv, TypeOK, ReferencesConsistent, NoConflictingAccepted, RejectionInherited
<1> QED
    BY <1>1, <1>2, <1>3 DEF DAGGrows

LEMMA AnnounceDAG ==
    ASSUME VotesInv, NEW c \in ConflictID, Announce(c)
    PROVE  DAGInv' /\ DAGGrows /\ NextDAG /\ Stored' = Stored /\ UNCHANGED <<parents, confirmationState>>
<1>1. TriggerConflictCreated(c)
    BY DEF Announce
<1>2. DAGInv' /\ NextDAG
    BY <1>1, TriggerPreserves DEF VotesInv, NextDAG
<1>3. UNCHANGED <<parents, confirmationState>>
    BY <1>1 DEF TriggerConflictCreated
<1> QED
    BY <1>2, <1>3 DEF DAGGrows, Stored

-----------------------------------------------------------------------------
(* Types and places. *)

(* A handler in a DAG with the stored conflicts S. *)
ThreadFine(th, S) ==
    /\ th \in Handler
    /\ th.add \cup th.revoke \subseteq S
    /\ th.casting = {} <=> th.pc \in {"idle", "booked", "vote"}
    /\ \A u, v \in th.casting : u = v /\ u.conflict \in S

LEMMA IdleFine ==
    ASSUME NEW S
    PROVE  ThreadFine(Idle, S)
    BY DEF ThreadFine, Idle, Handler

LEMMA GoOnFine ==
    ASSUME NEW S, NEW th \in Handler, th.add \cup th.revoke \subseteq S
    PROVE  ThreadFine(GoOn(th), S)
<1>1. CASE th.add \cup th.revoke = {}
    BY <1>1, IdleFine DEF GoOn
<1>2. CASE th.add \cup th.revoke # {}
    <2>1. GoOn(th) = [th EXCEPT !.pc = "vote", !.casting = {}, !.read = 0]
        BY <1>2 DEF GoOn
    <2>2. /\ GoOn(th) \in Handler /\ GoOn(th).pc = "vote" /\ GoOn(th).casting = {}
          /\ GoOn(th).add = th.add /\ GoOn(th).revoke = th.revoke
        <3>1. th = [pc |-> th.pc, add |-> th.add, revoke |-> th.revoke, casting |-> th.casting, read |-> th.read]
            BY DEF Handler
        <3>2. GoOn(th) = [pc |-> "vote", add |-> th.add, revoke |-> th.revoke, casting |-> {}, read |-> 0]
            BY <2>1, <3>1
        <3> QED BY <3>2 DEF Handler
    <2> QED BY <2>2 DEF ThreadFine
<1> QED
    BY <1>1, <1>2

LEMMA VoteTyped ==
    ASSUME NEW b \in Block, NEW c \in ConflictID, NEW o \in {For, Against}
    PROVE  Vote(b, c, o) \in ConflictVote /\ Vote(b, c, o).conflict = c
    BY VoterAssumption DEF Vote, ConflictVote

(* VotesInv in the words the steps use. *)
LEMMA VotesInvParts ==
    ASSUME VotesInv
    PROVE  /\ DAGInv /\ Stored \subseteq ConflictID
           /\ booked \subseteq Block /\ invalid \subseteq booked
           /\ blockConflicts \in [Block -> SUBSET ConflictID] /\ \A b \in Block : blockConflicts[b] \subseteq Stored
           /\ forks \subseteq booked \X Stored
           /\ votes \in [Voter -> [ConflictID -> [power : Nat \cup {-1}, opinion : {"Undefined", For, Against}]]]
           /\ voters \in [ConflictID -> SUBSET Voter] /\ weight \in [ConflictID -> Nat]
           /\ \A c \in ConflictID : c \notin Stored => voters[c] = {} /\ weight[c] = 0
           /\ DOMAIN thread = Thread /\ thread = [t \in Thread |-> thread[t]] /\ \A t \in Thread : ThreadFine(thread[t], Stored)
           /\ \A b \in Block : b \notin booked => thread[b] = Idle
           /\ tasks \subseteq Stored \X Nat
    BY DEF VotesInv, VotingTypeOK, VotesPlaced, ThreadFine, Stored

(* And the other way round. *)
LEMMA VotesInvFrom ==
    ASSUME DAGInv', booked' \subseteq Block, invalid' \subseteq booked',
           blockConflicts' \in [Block -> SUBSET ConflictID], \A b \in Block : blockConflicts'[b] \subseteq Stored',
           forks' \subseteq booked' \X Stored',
           votes' \in [Voter -> [ConflictID -> [power : Nat \cup {-1}, opinion : {"Undefined", For, Against}]]],
           voters' \in [ConflictID -> SUBSET Voter], weight' \in [ConflictID -> Nat],
           \A c \in ConflictID : c \notin Stored' => voters'[c] = {} /\ weight'[c] = 0,
           thread' = [t \in Thread |-> thread'[t]], \A t \in Thread : ThreadFine(thread'[t], Stored'),
           \A b \in Block : b \notin booked' => thread'[b] = Idle,
           tasks' \subseteq Stored' \X Nat
    PROVE  VotesInv'
<1>1. VotesPlaced'
    BY DEF VotesPlaced
<1>2. TypeOK'
    BY DEF DAGInv
<1>3. thread' \in [Thread -> Handler]
    BY DEF ThreadFine
<1>4. VotingTypeOK'
    BY <1>2, <1>3 DEF VotingTypeOK, ThreadFine
<1> QED
    BY <1>1, <1>4 DEF VotesInv

(* Steps that only change one handler. *)
LEMMA ThreadStepVotes ==
    ASSUME VotesInv, UNCHANGED <<dagVars, blockConflicts, booked, forks, votes, voters, weight, tasks>>,
           invalid' \subseteq booked,
           NEW b \in Thread, NEW th, thread' = [thread EXCEPT ![b] = th], ThreadFine(th, Stored),
           b \in Block => b \in booked
    PROVE  VotesInv'
<1>1. DAGInv' /\ Stored' = Stored
    BY DAGUnchanged
<1>2. thread' = [t \in Thread |-> thread'[t]] /\ thread'[b] = th /\ \A t \in Thread \ {b} : thread'[t] = thread[t]
    BY VotesInvParts
<1>3. \A t \in Thread : ThreadFine(thread'[t], Stored')
    BY <1>1, <1>2, VotesInvParts
<1>4. \A x \in Block : x \notin booked' => thread'[x] = Idle
    BY <1>2, VotesInvParts DEF Thread
<1> QED
    BY <1>1, <1>2, <1>3, <1>4, VotesInvParts, VotesInvFrom

LEMMA NewConflictVotes ==
    ASSUME VotesInv, NEW c \in ConflictID, NewConflict(c)
    PROVE  VotesInv'
<1>1. DAGInv' /\ Stored' = Stored \cup {c}
    BY NewConflictDAG
<1>2. /\ forks' = forks \cup {f \in booked \X {c} : c \in Spends[f[1]]}
      /\ UNCHANGED <<blockConflicts, booked, votes, voters, weight, thread, invalid, tasks>>
    BY DEF NewConflict
<1>3. forks' \subseteq booked' \X Stored'
    BY <1>1, <1>2, VotesInvParts
<1>4. thread' = [t \in Thread |-> thread'[t]] /\ \A t \in Thread : ThreadFine(thread'[t], Stored')
    <2>1. \A t \in Thread : ThreadFine(thread[t], Stored')
        BY <1>1, VotesInvParts DEF ThreadFine
    <2> QED BY <1>2, <2>1, VotesInvParts
<1>5. tasks' \subseteq Stored' \X Nat
    BY <1>1, <1>2, VotesInvParts
<1>6. \A d \in ConflictID : d \notin Stored' => voters'[d] = {} /\ weight'[d] = 0
    BY <1>1, <1>2, VotesInvParts
<1>7. \A b \in Block : blockConflicts'[b] \subseteq Stored'
    BY <1>1, <1>2, VotesInvParts
<1> QED
    BY <1>1, <1>2, <1>3, <1>4, <1>5, <1>6, <1>7, VotesInvParts, VotesInvFrom

(* Steps that change the DAG, but neither which conflicts are stored nor anything of the votes. *)
LEMMA DecisionVotes ==
    ASSUME VotesInv, DAGInv', Stored' = Stored, tasks' \subseteq tasks,
           UNCHANGED <<blockConflicts, booked, forks, votes, voters, weight, thread, invalid>>
    PROVE  VotesInv'
<1>1. thread' = [t \in Thread |-> thread'[t]]
    BY VotesInvParts
<1>2. \A t \in Thread : ThreadFine(thread'[t], Stored')
    BY VotesInvParts
<1> QED
    BY <1>1, <1>2, VotesInvParts, VotesInvFrom

LEMMA BookBlockVotes ==
    ASSUME VotesInv, NEW b \in Block, BookBlock(b)
    PROVE  VotesInv'
<1>1. DAGInv' /\ Stored' = Stored
    BY DAGUnchanged DEF BookBlock
<1>2. /\ b \notin booked /\ booked' = booked \cup {b} /\ thread' = [thread EXCEPT ![b].pc = "booked"]
      /\ blockConflicts' = [blockConflicts EXCEPT ![b] = UnconfirmedConflicts(Spends[b] \cap Stored)]
      /\ UNCHANGED <<forks, votes, voters, weight, invalid, tasks>>
    BY DEF BookBlock
<1>3. b \in Thread /\ thread[b] = Idle
    BY <1>2, VotesInvParts DEF Thread
<1>4. /\ thread' = [t \in Thread |-> thread'[t]] /\ thread'[b] = [Idle EXCEPT !.pc = "booked"]
      /\ \A t \in Thread \ {b} : thread'[t] = thread[t]
    BY <1>2, <1>3, VotesInvParts
<1>5. ThreadFine([Idle EXCEPT !.pc = "booked"], Stored)
    BY DEF ThreadFine, Idle, Handler
<1>6. \A t \in Thread : ThreadFine(thread'[t], Stored')
    BY <1>1, <1>4, <1>5, VotesInvParts
<1>7. \A x \in Block : x \notin booked' => thread'[x] = Idle
    BY <1>2, <1>4, VotesInvParts DEF Thread
<1>8. UnconfirmedConflicts(Spends[b] \cap Stored) \subseteq Stored
    BY DEF UnconfirmedConflicts
<1>9. blockConflicts' \in [Block -> SUBSET ConflictID] /\ \A x \in Block : blockConflicts'[x] \subseteq Stored'
    BY <1>1, <1>2, <1>8, VotesInvParts
<1>10. forks' \subseteq booked' \X Stored' /\ booked' \subseteq Block /\ invalid' \subseteq booked' /\ tasks' \subseteq Stored' \X Nat
    BY <1>1, <1>2, VotesInvParts
<1> QED
    BY <1>1, <1>2, <1>4, <1>6, <1>7, <1>9, <1>10, VotesInvParts, VotesInvFrom

LEMMA DetermineVotesStored ==
    ASSUME VotesInv, NEW b \in Block
    PROVE  /\ DetermineConflictsToAdd(b) \subseteq Stored
           /\ DetermineConflictsToAdd(b) \subseteq Walk(blockConflicts[b], ParentEdges)
           /\ DetermineConflictsToRevoke(DetermineConflictsToAdd(b)) \subseteq Stored
<1> DEFINE S == {c \in blockConflicts[b] : \A d \in ConflictingConflicts(c) :
                    ~IdenticalVoteWithHigherPowerExists(Vote(b, d, For))}
<1>1. S \subseteq blockConflicts[b] /\ S \in SUBSET Stored /\ S \in SUBSET ConflictID /\ blockConflicts[b] \in SUBSET ConflictID
    BY VotesInvParts
<1>2. DetermineConflictsToAdd(b) = Walk(S, ParentEdges)
    BY DEF DetermineConflictsToAdd
<1> HIDE DEF S
<1>3. Walk(S, ParentEdges) \subseteq Stored
    BY <1>1, WalkParentsStored, VotesInvParts
<1>4. ParentEdges \subseteq ConflictID \X ConflictID
    BY DEF ParentEdges
<1>5. Walk(S, ParentEdges) \subseteq Walk(blockConflicts[b], ParentEdges)
    BY <1>1, <1>4, WalkGrows
<1>6. DetermineConflictsToRevoke(Walk(S, ParentEdges)) \subseteq Stored
    BY <1>3, WalkChildrenStored, VotesInvParts DEF DetermineConflictsToRevoke
<1> QED
    BY <1>2, <1>3, <1>5, <1>6

LEMMA DetermineVotesVotes ==
    ASSUME VotesInv, NEW b \in Block, DetermineVotes(b)
    PROVE  VotesInv'
<1> DEFINE added == DetermineConflictsToAdd(b)
           revoked == DetermineConflictsToRevoke(added)
           isInvalid == revoked \cap (added \cup blockConflicts[b]) # {}
           new == [Idle EXCEPT !.add = added, !.revoke = revoked]
           th == IF isInvalid \/ Weight[Issuer[b]] = 0 THEN Idle ELSE GoOn(new)
<1>1. /\ thread[b].pc = "booked" /\ thread' = [thread EXCEPT ![b] = th]
      /\ invalid' = IF isInvalid THEN invalid \cup {b} ELSE invalid
      /\ UNCHANGED <<dagVars, blockConflicts, booked, forks, votes, voters, weight, tasks>>
    BY DEF DetermineVotes
<1>2. b \in booked /\ b \in Thread
    <2>1. b \notin booked => thread[b] = Idle
        BY VotesInvParts
    <2> QED BY <1>1, <2>1 DEF Thread, Idle
<1>3. invalid' \subseteq booked
    BY <1>1, <1>2, VotesInvParts
<1>4. added \subseteq Stored /\ revoked \subseteq Stored
    BY DetermineVotesStored
<1>5. ThreadFine(th, Stored)
    <2>1. new \in Handler /\ new.add = added /\ new.revoke = revoked
        <3>1. Stored \subseteq ConflictID
            BY VotesInvParts
        <3> HIDE DEF added, revoked
        <3> QED BY <1>4, <3>1 DEF Idle, Handler
    <2>2. ThreadFine(GoOn(new), Stored)
        <3> HIDE DEF new, added, revoked
        <3> QED BY <1>4, <2>1, GoOnFine
    <2> HIDE DEF new, isInvalid
    <2> QED BY <2>2, IdleFine
<1> HIDE DEF th
<1> QED
    BY <1>1, <1>2, <1>3, <1>5, ThreadStepVotes

LEMMA CastVoteVotes ==
    ASSUME VotesInv, NEW b \in Block, NEW c \in ConflictID, CastVote(b, c)
    PROVE  VotesInv'
<1> DEFINE cast(th, o) == IF votes[Issuer[b]][c].power < SequenceNumber[b]
                          THEN [th EXCEPT !.pc = "store", !.casting = {Vote(b, c, o)}]
                          ELSE GoOn(th)
           forth == [thread[b] EXCEPT !.add = @ \ {c}]
           against == [thread[b] EXCEPT !.revoke = @ \ {c}]
<1>1. /\ thread[b].pc = "vote"
      /\ \/ c \in thread[b].add /\ thread' = [thread EXCEPT ![b] = cast(forth, For)]
         \/ c \in thread[b].revoke /\ thread' = [thread EXCEPT ![b] = cast(against, Against)]
      /\ UNCHANGED <<dagVars, blockConflicts, booked, forks, votes, voters, weight, invalid, tasks>>
    <2>2. /\ thread[b].pc = "vote"
          /\ UNCHANGED <<dagVars, blockConflicts, booked, forks, votes, voters, weight, invalid, tasks>>
        BY DEF CastVote
    <2>3. \/ c \in thread[b].add /\ thread' = [thread EXCEPT ![b] = cast(forth, For)]
          \/ c \in thread[b].revoke /\ thread' = [thread EXCEPT ![b] = cast(against, Against)]
        BY Zenon DEF CastVote, IsNext
    <2> HIDE DEF cast, forth, against
    <2> QED BY <2>2, <2>3
<1>2. b \in booked /\ b \in Thread /\ invalid' \subseteq booked
    <2>1. b \notin booked => thread[b] = Idle
        BY VotesInvParts
    <2>2. invalid' \subseteq booked
        BY <1>1, VotesInvParts
    <2> QED BY <1>1, <2>1, <2>2 DEF Thread, Idle
<1>3. ThreadFine(thread[b], Stored)
    BY <1>2, VotesInvParts
<1>4. ASSUME NEW th \in Handler, th.add \cup th.revoke \subseteq Stored, NEW o \in {For, Against}, c \in Stored
      PROVE  ThreadFine(cast(th, o), Stored)
    <2>1. ThreadFine(GoOn(th), Stored)
        BY <1>4, GoOnFine
    <2>2. ThreadFine([th EXCEPT !.pc = "store", !.casting = {Vote(b, c, o)}], Stored)
        <3>1. Vote(b, c, o) \in ConflictVote /\ Vote(b, c, o).conflict = c
            BY VoteTyped
        <3> QED BY <1>4, <3>1 DEF ThreadFine, Handler
    <2> QED BY <2>1, <2>2
<1>5. /\ forth \in Handler /\ forth.add \cup forth.revoke \subseteq Stored
      /\ against \in Handler /\ against.add \cup against.revoke \subseteq Stored
    BY <1>3 DEF ThreadFine, Handler
<1> HIDE DEF cast, forth, against
<1>6. CASE c \in thread[b].add /\ thread' = [thread EXCEPT ![b] = cast(forth, For)]
    <2>1. c \in Stored
        BY <1>3, <1>6 DEF ThreadFine
    <2>2. ThreadFine(cast(forth, For), Stored)
        BY <1>4, <1>5, <2>1
    <2> QED BY <1>1, <1>2, <1>6, <2>2, ThreadStepVotes
<1>7. CASE c \in thread[b].revoke /\ thread' = [thread EXCEPT ![b] = cast(against, Against)]
    <2>1. c \in Stored
        BY <1>3, <1>7 DEF ThreadFine
    <2>2. ThreadFine(cast(against, Against), Stored)
        BY <1>4, <1>5, <2>1
    <2> QED BY <1>1, <1>2, <1>7, <2>2, ThreadStepVotes
<1> QED
    BY <1>1, <1>6, <1>7

(* The vote of a handler that is casting one. *)
LEMMA CastingOne ==
    ASSUME VotesInv, NEW t \in Thread, NEW vote \in thread[t].casting
    PROVE  /\ thread[t].casting = {vote} /\ vote \in ConflictVote /\ vote.conflict \in Stored /\ vote.conflict \in ConflictID
           /\ vote.voter \in Voter /\ vote.power \in Nat /\ vote.opinion \in {For, Against}
           /\ thread[t].pc \notin {"idle", "booked", "vote"}
           /\ t \in Block => t \in booked
<1>1. ThreadFine(thread[t], Stored) /\ Stored \subseteq ConflictID
    BY VotesInvParts
<1>2. thread[t].casting = {vote} /\ vote \in ConflictVote /\ vote.conflict \in Stored
    BY <1>1 DEF ThreadFine, Handler
<1>3. ASSUME t \in Block, t \notin booked PROVE FALSE
    <2>1. thread[t] = Idle
        BY <1>3, VotesInvParts
    <2> QED BY <2>1 DEF Idle
<1>4. thread[t].pc \notin {"idle", "booked", "vote"}
    BY <1>1 DEF ThreadFine
<1> QED
    BY <1>1, <1>2, <1>3, <1>4 DEF ConflictVote

Ballot == [power : Nat \cup {-1}, opinion : {"Undefined", For, Against}]

(* Store and AddVoter or DeleteVoter, entry by entry. *)
LEMMA StoreEntries ==
    ASSUME VotesInv, NEW vote \in ConflictVote
    PROVE  /\ Store(vote) \in [Voter -> [ConflictID -> Ballot]]
           /\ \A v \in Voter, c \in ConflictID :
                Store(vote)[v][c] # votes[v][c] => Store(vote)[v][c].power > votes[v][c].power
           /\ UpdateVoters(vote) \in [ConflictID -> SUBSET Voter]
           /\ \A c \in ConflictID \ {vote.conflict} : UpdateVoters(vote)[c] = voters[c]
           /\ UpdateVoters(vote)[vote.conflict] = IF vote.opinion = For THEN voters[vote.conflict] \cup {vote.voter}
                                                   ELSE voters[vote.conflict] \ {vote.voter}
<1> DEFINE w == vote.voter
           d == vote.conflict
           old == votes[w][d]
           new == IF old.power >= vote.power THEN old ELSE [power |-> vote.power, opinion |-> vote.opinion]
<1>1. w \in Voter /\ d \in ConflictID /\ vote.power \in Nat /\ vote.opinion \in {For, Against}
    BY DEF ConflictVote
<1>2. votes \in [Voter -> [ConflictID -> Ballot]] /\ voters \in [ConflictID -> SUBSET Voter]
    BY VotesInvParts DEF Ballot
<1>3. old \in Ballot /\ new \in Ballot /\ (new # old => new.power > old.power)
    BY <1>1, <1>2 DEF Ballot
<1>4. Store(vote) = [votes EXCEPT ![w] = [votes[w] EXCEPT ![d] = new]]
    BY DEF Store
<1> HIDE DEF new
<1>5. Store(vote) \in [Voter -> [ConflictID -> Ballot]]
    BY <1>1, <1>2, <1>3, <1>4
<1>6. ASSUME NEW v \in Voter, NEW c \in ConflictID, Store(vote)[v][c] # votes[v][c]
      PROVE  Store(vote)[v][c].power > votes[v][c].power
    <2>1. v = w /\ c = d /\ Store(vote)[v][c] = new
        BY <1>1, <1>2, <1>4, <1>6
    <2> QED BY <1>3, <1>6, <2>1
<1>7. UpdateVoters(vote) \in [ConflictID -> SUBSET Voter]
    BY <1>1, <1>2 DEF UpdateVoters
<1>8. /\ \A c \in ConflictID \ {d} : UpdateVoters(vote)[c] = voters[c]
      /\ UpdateVoters(vote)[d] = IF vote.opinion = For THEN voters[d] \cup {w} ELSE voters[d] \ {w}
    BY <1>1, <1>2 DEF UpdateVoters
<1> QED
    BY <1>5, <1>6, <1>7, <1>8

LEMMA StoreVoteVotes ==
    ASSUME VotesInv, NEW b \in Block, StoreVote(b)
    PROVE  VotesInv'
<1>1. PICK vote \in thread[b].casting : votes' = Store(vote) /\ voters' = UpdateVoters(vote)
    BY DEF StoreVote
<1>2. /\ thread[b].pc = "store" /\ thread' = [thread EXCEPT ![b].pc = "weigh"]
      /\ UNCHANGED <<dagVars, blockConflicts, booked, forks, weight, invalid, tasks>>
    BY DEF StoreVote
<1>3. b \in Thread
    BY DEF Thread
<1>4. vote \in ConflictVote /\ vote.conflict \in Stored /\ b \in booked
    BY <1>3, CastingOne
<1>5. DAGInv' /\ Stored' = Stored
    BY <1>2, DAGUnchanged
<1>6. /\ thread' = [t \in Thread |-> thread'[t]] /\ thread'[b] = [thread[b] EXCEPT !.pc = "weigh"]
      /\ \A t \in Thread \ {b} : thread'[t] = thread[t]
    BY <1>2, <1>3, VotesInvParts
<1>7. ThreadFine(thread[b], Stored)
    BY <1>3, VotesInvParts
<1>8. ThreadFine(thread'[b], Stored)
    BY <1>2, <1>6, <1>7 DEF ThreadFine, Handler
<1>9. \A t \in Thread : ThreadFine(thread'[t], Stored')
    BY <1>5, <1>6, <1>8, VotesInvParts
<1>10. \A x \in Block : x \notin booked' => thread'[x] = Idle
    BY <1>2, <1>4, <1>6, VotesInvParts DEF Thread
<1>11. /\ votes' \in [Voter -> [ConflictID -> [power : Nat \cup {-1}, opinion : {"Undefined", For, Against}]]]
       /\ voters' \in [ConflictID -> SUBSET Voter]
       /\ \A c \in ConflictID \ {vote.conflict} : voters'[c] = voters[c]
    BY <1>1, <1>4, StoreEntries DEF Ballot
<1>12. \A c \in ConflictID : c \notin Stored' => voters'[c] = {} /\ weight'[c] = 0
    BY <1>2, <1>4, <1>5, <1>11, VotesInvParts
<1> QED
    BY <1>2, <1>5, <1>6, <1>9, <1>10, <1>11, <1>12, VotesInvParts, VotesInvFrom

LEMMA WeighVotes ==
    ASSUME VotesInv, NEW t \in Thread, Weigh(t)
    PROVE  VotesInv'
<1>1. PICK vote \in thread[t].casting :
            thread' = [thread EXCEPT ![t].pc = "set", ![t].read = ReadWeight(vote)]
    BY DEF Weigh
<1>2. thread[t].pc = "weigh" /\ UNCHANGED <<dagVars, blockConflicts, booked, forks, votes, voters, weight, invalid, tasks>>
    BY DEF Weigh
<1> DEFINE th == [thread[t] EXCEPT !.pc = "set", !.read = ReadWeight(vote)]
<1>3. thread' = [thread EXCEPT ![t] = th]
    BY <1>1, VotesInvParts
<1>4. vote.conflict \in ConflictID /\ (t \in Block => t \in booked)
    BY CastingOne
<1>5. ReadWeight(vote) \in Nat
    BY <1>4, VotesInvParts, WeightNat DEF ReadWeight
<1>6. ThreadFine(thread[t], Stored)
    BY VotesInvParts
<1>7. ThreadFine(th, Stored)
    BY <1>2, <1>5, <1>6 DEF ThreadFine, Handler
<1>8. invalid' \subseteq booked
    BY <1>2, VotesInvParts
<1> HIDE DEF th
<1> QED
    BY <1>2, <1>3, <1>4, <1>7, <1>8, ThreadStepVotes

LEMMA SetWeightVotes ==
    ASSUME VotesInv, NEW t \in Thread, SetWeight(t)
    PROVE  VotesInv'
<1>1. PICK vote \in thread[t].casting :
        /\ weight' = [weight EXCEPT ![vote.conflict] = thread[t].read]
        /\ tasks' = IF weight[vote.conflict] = thread[t].read THEN tasks
                    ELSE tasks \cup {<<vote.conflict, thread[t].read>>}
    BY DEF SetWeight
<1>2. /\ thread' = [thread EXCEPT ![t] = GoOn(thread[t])]
      /\ UNCHANGED <<dagVars, blockConflicts, booked, forks, votes, voters, invalid>>
    BY DEF SetWeight
<1>3. vote.conflict \in Stored /\ vote.conflict \in ConflictID /\ (t \in Block => t \in booked)
    BY CastingOne
<1>4. DAGInv' /\ Stored' = Stored
    BY <1>2, DAGUnchanged
<1>5. ThreadFine(thread[t], Stored) /\ thread[t].read \in Nat
    BY VotesInvParts DEF ThreadFine, Handler
<1>6. ThreadFine(GoOn(thread[t]), Stored)
    BY <1>5, GoOnFine DEF ThreadFine
<1>7. /\ thread' = [x \in Thread |-> thread'[x]] /\ thread'[t] = GoOn(thread[t])
      /\ \A x \in Thread \ {t} : thread'[x] = thread[x]
    BY <1>2, VotesInvParts
<1>8. \A x \in Thread : ThreadFine(thread'[x], Stored')
    BY <1>4, <1>6, <1>7, VotesInvParts
<1>9. \A x \in Block : x \notin booked' => thread'[x] = Idle
    BY <1>2, <1>3, <1>7, VotesInvParts DEF Thread
<1>10. /\ weight' \in [ConflictID -> Nat] /\ tasks' \subseteq Stored' \X Nat
       /\ \A c \in ConflictID \ {vote.conflict} : weight'[c] = weight[c]
    BY <1>1, <1>3, <1>4, <1>5, VotesInvParts
<1>11. \A c \in ConflictID : c \notin Stored' => voters'[c] = {} /\ weight'[c] = 0
    BY <1>2, <1>3, <1>4, <1>10, VotesInvParts
<1> QED
    BY <1>2, <1>4, <1>7, <1>8, <1>9, <1>10, <1>11, VotesInvParts, VotesInvFrom

(* The fork of c visits b: what it changes. *)
LEMMA ForkBlockParts ==
    ASSUME VotesInv, NEW b \in Block, NEW c \in ConflictID, ForkBlock(b, c)
    PROVE  /\ c \in Stored /\ b \in booked /\ thread[Forker].pc = "idle" /\ Forker \in Thread
           /\ forks' \subseteq forks
           /\ UNCHANGED <<dagVars, booked, weight, invalid, tasks>>
           /\ blockConflicts' \in [Block -> SUBSET ConflictID]
           /\ \A x \in Block : blockConflicts[x] \subseteq blockConflicts'[x] /\ blockConflicts'[x] \subseteq blockConflicts[x] \cup {c}
           /\ \/ UNCHANGED <<votes, voters, thread>>
              \/ /\ votes' = Store(Vote(b, c, For)) /\ voters' = UpdateVoters(Vote(b, c, For))
                 /\ c \in blockConflicts'[b]
                 /\ \/ Issuer[b] \in voters[c] /\ thread' = thread
                    \/ thread' = [thread EXCEPT ![Forker] =
                            [@ EXCEPT !.pc = "weigh", !.casting = {Vote(b, c, For)}]]
<1> DEFINE vote == Vote(b, c, For)
           updated == parents[c] \subseteq blockConflicts[b] /\ c \notin blockConflicts[b]
           stored  == /\ updated /\ VoterSupportsAllConflicts(vote.voter, parents[c])
                      /\ votes[vote.voter][c].power < vote.power
<1>1. /\ <<b, c>> \in forks /\ thread[Forker].pc = "idle"
      /\ forks' = forks \ {<<b, c>>}
      /\ blockConflicts' = [blockConflicts EXCEPT ![b] = IF updated THEN @ \cup {c} ELSE @]
      /\ votes' = IF stored THEN Store(vote) ELSE votes
      /\ voters' = IF stored THEN UpdateVoters(vote) ELSE voters
      /\ thread' = IF stored /\ vote.voter \notin voters[c]
                   THEN [thread EXCEPT ![Forker].pc = "weigh", ![Forker].casting = {vote}]
                   ELSE thread
      /\ UNCHANGED <<dagVars, booked, weight, invalid, tasks>>
    BY DEF ForkBlock
<1>2. c \in Stored /\ b \in booked /\ Forker \in Thread
    BY <1>1, VotesInvParts DEF Thread
<1>3. vote.voter = Issuer[b]
    BY DEF Vote
<1>4. stored => updated
    OBVIOUS
<1> HIDE DEF updated, stored, vote
<1>5. /\ blockConflicts' \in [Block -> SUBSET ConflictID]
      /\ \A x \in Block : blockConflicts[x] \subseteq blockConflicts'[x] /\ blockConflicts'[x] \subseteq blockConflicts[x] \cup {c}
      /\ updated => c \in blockConflicts'[b]
    BY <1>1, VotesInvParts
<1>6. [thread EXCEPT ![Forker].pc = "weigh", ![Forker].casting = {vote}] =
        [thread EXCEPT ![Forker] = [@ EXCEPT !.pc = "weigh", !.casting = {vote}]]
    BY <1>2, VotesInvParts
<1>7. CASE stored
    BY <1>1, <1>2, <1>3, <1>4, <1>5, <1>6, <1>7 DEF vote
<1>8. CASE ~stored
    BY <1>1, <1>2, <1>5, <1>8
<1> QED
    BY <1>7, <1>8

LEMMA ForkBlockVotes ==
    ASSUME VotesInv, NEW b \in Block, NEW c \in ConflictID, ForkBlock(b, c)
    PROVE  VotesInv'
<1> DEFINE vote == Vote(b, c, For)
           th == [thread[Forker] EXCEPT !.pc = "weigh", !.casting = {vote}]
<1>1. /\ c \in Stored /\ b \in booked /\ thread[Forker].pc = "idle" /\ Forker \in Thread
      /\ forks' \subseteq forks
      /\ UNCHANGED <<dagVars, booked, weight, invalid, tasks>>
      /\ blockConflicts' \in [Block -> SUBSET ConflictID]
      /\ \A x \in Block : blockConflicts'[x] \subseteq blockConflicts[x] \cup {c}
    BY ForkBlockParts
<1>2. \/ UNCHANGED <<votes, voters, thread>>
      \/ /\ votes' = Store(vote) /\ voters' = UpdateVoters(vote)
         /\ thread' = thread \/ thread' = [thread EXCEPT ![Forker] = th]
    BY ForkBlockParts
<1>3. vote \in ConflictVote /\ vote.conflict = c
    BY VoteTyped
<1> HIDE DEF vote
<1>4. DAGInv' /\ Stored' = Stored
    BY <1>1, DAGUnchanged
<1>5. ThreadFine(thread[Forker], Stored)
    BY <1>1, VotesInvParts
<1>6. ThreadFine(th, Stored)
    <2>1. thread[Forker] \in Handler /\ thread[Forker].add \cup thread[Forker].revoke \subseteq Stored
        BY <1>5 DEF ThreadFine
    <2>2. th \in Handler /\ th.add = thread[Forker].add /\ th.revoke = thread[Forker].revoke /\ th.pc = "weigh" /\ th.casting = {vote}
        BY <1>3, <2>1 DEF Handler
    <2> HIDE DEF th
    <2> QED BY <1>1, <1>3, <2>1, <2>2 DEF ThreadFine
<1> HIDE DEF th
<1>7. /\ thread' = [t \in Thread |-> thread'[t]]
      /\ \A t \in Thread : thread'[t] = thread[t] \/ (t = Forker /\ thread'[t] = th)
    BY <1>1, <1>2, VotesInvParts
<1>8. \A t \in Thread : ThreadFine(thread'[t], Stored')
    BY <1>4, <1>6, <1>7, VotesInvParts
<1>9. \A x \in Block : x \notin booked' => thread'[x] = Idle
    BY <1>1, <1>7, VotesInvParts, VoterAssumption DEF Thread
<1>10. /\ votes' \in [Voter -> [ConflictID -> [power : Nat \cup {-1}, opinion : {"Undefined", For, Against}]]]
       /\ voters' \in [ConflictID -> SUBSET Voter]
       /\ \A d \in ConflictID \ {c} : voters'[d] = voters[d]
    BY <1>2, <1>3, StoreEntries, VotesInvParts DEF Ballot
<1>11. \A d \in ConflictID : d \notin Stored' => voters'[d] = {} /\ weight'[d] = 0
    BY <1>1, <1>4, <1>10, VotesInvParts
<1>12. \A x \in Block : blockConflicts'[x] \subseteq Stored'
    BY <1>1, <1>4, VotesInvParts
<1>13. forks' \subseteq booked' \X Stored'
    BY <1>1, <1>4, VotesInvParts
<1> QED
    BY <1>1, <1>4, <1>7, <1>8, <1>9, <1>10, <1>11, <1>12, <1>13, VotesInvParts, VotesInvFrom

LEMMA InitVotes == InitVoting => VotesInv
<1> SUFFICES ASSUME InitVoting PROVE VotesInv
    OBVIOUS
<1>1. DAGInv /\ TypeOK
    BY InitEstablishes DEF InitVoting, DAGInv
<1>2. /\ blockConflicts = [b \in Block |-> {}]
      /\ booked = {} /\ forks = {} /\ invalid = {} /\ tasks = {}
      /\ votes = [v \in Voter |-> [c \in ConflictID |-> NoVote]]
      /\ voters = [c \in ConflictID |-> {}]
      /\ weight = [c \in ConflictID |-> 0]
      /\ thread = [t \in Thread |-> Idle]
    BY DEF InitVoting
<1>3. VotesPlaced
    BY <1>2 DEF VotesPlaced, Thread
<1>4. thread \in [Thread -> Handler] /\ \A t \in Thread : thread[t] = Idle
    BY <1>2, IdleFine DEF ThreadFine
<1>5. votes \in [Voter -> [ConflictID -> [power : Nat \cup {-1}, opinion : {"Undefined", For, Against}]]]
    BY <1>2 DEF NoVote
<1>6. VotingTypeOK
    BY <1>1, <1>2, <1>4, <1>5 DEF VotingTypeOK, Idle
<1> QED
    BY <1>1, <1>3, <1>6 DEF VotesInv

LEMMA UnchangedVotes ==
    ASSUME VotesInv, UNCHANGED votingVars
    PROVE  VotesInv'
<1>1. DAGInv' /\ Stored' = Stored /\ UNCHANGED voteVars
    BY DAGUnchanged DEF votingVars
<1> QED
    BY <1>1, DecisionVotes DEF voteVars

LEMMA HandleConflictVotes ==
    ASSUME VotesInv, NEW task \in tasks, HandleConflict(task[1], task[2])
    PROVE  /\ VotesInv' /\ DAGGrows /\ Stored' = Stored /\ parents' = parents
           /\ task[1] \in Stored /\ task = <<task[1], task[2]>>
           /\ ReachesThreshold(task[2]) => confirmationState'[task[1]] # Pending /\ NextDAG
           /\ ~ReachesThreshold(task[2]) => UNCHANGED dagVars
<1>1. task[1] \in Stored /\ task = <<task[1], task[2]>>
    BY VotesInvParts
<1>2. /\ tasks' \subseteq tasks /\ UNCHANGED <<blockConflicts, booked, forks, votes, voters, weight, thread, invalid>>
      /\ IF ReachesThreshold(task[2]) THEN SetConflictAccepted(task[1]) ELSE UNCHANGED dagVars
    BY DEF HandleConflict
<1>3. CASE ReachesThreshold(task[2])
    <2>1. DAGInv' /\ DAGGrows /\ NextDAG /\ Stored' = Stored /\ parents' = parents /\ confirmationState'[task[1]] # Pending
        BY <1>1, <1>2, <1>3, HandleConflictDAG
    <2> QED BY <1>1, <1>2, <1>3, <2>1, DecisionVotes
<1>4. CASE ~ReachesThreshold(task[2])
    <2>1. DAGInv' /\ DAGGrows /\ Stored' = Stored /\ parents' = parents
        BY <1>2, <1>4, DAGUnchanged DEF dagVars
    <2> QED BY <1>1, <1>2, <1>4, <2>1, DecisionVotes
<1> QED
    BY <1>3, <1>4

LEMMA AnnounceVotes ==
    ASSUME VotesInv, NEW c \in ConflictID, Announce(c)
    PROVE  VotesInv'
<1>1. DAGInv' /\ Stored' = Stored /\ UNCHANGED voteVars
    BY AnnounceDAG DEF Announce
<1> QED
    BY <1>1, DecisionVotes DEF voteVars

LEMMA VotesStep ==
    ASSUME VotesInv, [NextVoting]_votingVars
    PROVE  VotesInv'
    BY AnnounceVotes, NewConflictVotes, BookBlockVotes, DetermineVotesVotes, StoreVoteVotes, CastVoteVotes, ForkBlockVotes,
       WeighVotes, SetWeightVotes, HandleConflictVotes, UnchangedVotes DEF NextVoting

-----------------------------------------------------------------------------
(* Weights. *)

Weighing(th, c) ==
    \E vote \in th.casting :
        /\ vote.conflict = c
        /\ th.pc = "weigh" \/ (th.pc = "set" /\ ReachesThreshold(th.read))

LEMMA DecidedKept ==
    ASSUME VotesInv, DAGGrows, NEW c \in ConflictID, c \in Stored \/ c \notin Stored', Decided(c), tasks \subseteq tasks'
    PROVE  Decided(c)'
<1>1. CASE c \notin Stored'
    BY <1>1 DEF Decided, Stored, Undefined, Pending
<1>2. CASE c \in Stored
    BY <1>2 DEF DAGGrows, Decided
<1> QED
    BY <1>1, <1>2

(* Steps that leave voters and weights alone, and of the handlers at most one that is not weighing. *)
LEMMA NoticedKept ==
    ASSUME VotesInv, WeightsNoticed, DAGGrows, Stored' = Stored, UNCHANGED <<voters, weight, tasks>>,
           \A t \in Thread : thread'[t] = thread[t] \/ thread[t].pc \notin {"weigh", "set"}
    PROVE  WeightsNoticed'
<1>1. ASSUME NEW c \in ConflictID, Decided(c) PROVE Decided(c)'
    BY <1>1, DecidedKept
<1>2. ASSUME NEW c \in ConflictID, AboutToBeWeighed(c) PROVE AboutToBeWeighed(c)'
    BY <1>2 DEF AboutToBeWeighed
<1> QED
    BY <1>1, <1>2 DEF WeightsNoticed

LEMMA NewConflictNoticed ==
    ASSUME VotesInv, WeightsNoticed, NEW c \in ConflictID, NewConflict(c)
    PROVE  WeightsNoticed'
<1>1. DAGGrows /\ Stored' = Stored \cup {c} /\ c \notin Stored
    BY NewConflictDAG
<1>2. UNCHANGED <<voters, weight, tasks, thread>>
    BY DEF NewConflict
<1>3. ~ReachesThreshold(weight'[c]) /\ ~IsQuorum(voters'[c])
    BY <1>1, <1>2, VotesInvParts, QuorumFacts
<1>4. ASSUME NEW d \in ConflictID, d # c, Decided(d) PROVE Decided(d)'
    BY <1>1, <1>2, <1>4, DecidedKept
<1>5. ASSUME NEW d \in ConflictID PROVE AboutToBeWeighed(d) => AboutToBeWeighed(d)'
    BY <1>2 DEF AboutToBeWeighed
<1>6. ASSUME NEW d \in ConflictID
      PROVE  /\ ReachesThreshold(weight'[d]) => Decided(d)'
             /\ IsQuorum(voters'[d]) => Decided(d)' \/ AboutToBeWeighed(d)'
    <2>1. CASE d = c
        BY <1>3, <2>1
    <2>2. CASE d # c
        BY <1>2, <1>4, <1>5, <2>2 DEF WeightsNoticed
    <2> QED BY <2>1, <2>2
<1> QED
    BY <1>6 DEF WeightsNoticed

LEMMA StoreVoteNoticed ==
    ASSUME VotesInv, WeightsNoticed, NEW b \in Block, StoreVote(b)
    PROVE  WeightsNoticed'
<1>1. PICK vote \in thread[b].casting : votes' = Store(vote) /\ voters' = UpdateVoters(vote)
    BY DEF StoreVote
<1>2. /\ thread[b].pc = "store" /\ thread' = [thread EXCEPT ![b].pc = "weigh"]
      /\ UNCHANGED <<dagVars, weight, tasks>>
    BY DEF StoreVote
<1>3. b \in Thread
    BY DEF Thread
<1>4. vote \in ConflictVote /\ vote.conflict \in Stored
    BY <1>3, CastingOne
<1>5. DAGGrows /\ Stored' = Stored
    BY <1>2, DAGUnchanged
<1>6. /\ thread'[b] = [thread[b] EXCEPT !.pc = "weigh"]
      /\ \A t \in Thread \ {b} : thread'[t] = thread[t]
    BY <1>2, <1>3, VotesInvParts
<1>7. thread'[b].pc = "weigh" /\ thread'[b].casting = thread[b].casting
    <2>1. thread[b] \in Handler
        BY <1>3, VotesInvParts DEF ThreadFine
    <2> QED BY <1>6, <2>1 DEF Handler
<1>8. AboutToBeWeighed(vote.conflict)'
    BY <1>3, <1>7 DEF AboutToBeWeighed
<1>9. ASSUME NEW c \in ConflictID PROVE Decided(c) => Decided(c)'
    BY <1>2, <1>5, DecidedKept
<1>10. ASSUME NEW c \in ConflictID PROVE AboutToBeWeighed(c) => AboutToBeWeighed(c)'
    BY <1>2, <1>6 DEF AboutToBeWeighed
<1>11. \A c \in ConflictID \ {vote.conflict} : voters'[c] = voters[c]
    BY <1>1, <1>4, StoreEntries
<1> QED
    BY <1>2, <1>8, <1>9, <1>10, <1>11 DEF WeightsNoticed

LEMMA WeighNoticed ==
    ASSUME VotesInv, WeightsNoticed, NEW t \in Thread, Weigh(t)
    PROVE  WeightsNoticed'
<1>1. PICK vote \in thread[t].casting :
            thread' = [thread EXCEPT ![t].pc = "set", ![t].read = ReadWeight(vote)]
    BY DEF Weigh
<1>2. thread[t].pc = "weigh" /\ UNCHANGED <<dagVars, voters, weight, tasks>>
    BY DEF Weigh
<1>3. thread[t].casting = {vote}
    BY CastingOne
<1>4. DAGGrows /\ Stored' = Stored
    BY <1>2, DAGUnchanged
<1>5. /\ thread'[t].pc = "set" /\ thread'[t].casting = {vote} /\ thread'[t].read = ReadWeight(vote)
      /\ \A x \in Thread \ {t} : thread'[x] = thread[x]
    <2>1. thread[t] \in Handler
        BY VotesInvParts DEF ThreadFine
    <2>2. thread'[t] = [thread[t] EXCEPT !.pc = "set", !.read = ReadWeight(vote)] /\ \A x \in Thread \ {t} : thread'[x] = thread[x]
        BY <1>1, VotesInvParts
    <2> QED BY <1>3, <2>1, <2>2 DEF Handler
<1>6. ASSUME NEW c \in ConflictID, Decided(c) PROVE Decided(c)'
    BY <1>2, <1>4, <1>6, DecidedKept
<1>7. ASSUME NEW c \in ConflictID, IsQuorum(voters[c]), AboutToBeWeighed(c) PROVE AboutToBeWeighed(c)'
    <2>1. PICK x \in Thread : Weighing(thread[x], c)
        BY <1>7 DEF AboutToBeWeighed, Weighing
    <2>2. CASE x = t
        <3>1. vote.conflict = c
            BY <1>3, <2>1, <2>2 DEF Weighing
        <3>2. ReachesThreshold(thread'[t].read)
            BY <1>5, <1>7, <3>1, QuorumFacts DEF ReadWeight
        <3> QED BY <1>5, <3>1, <3>2 DEF AboutToBeWeighed
    <2>3. CASE x # t
        BY <1>5, <2>1, <2>3 DEF AboutToBeWeighed, Weighing
    <2> QED BY <2>2, <2>3
<1> QED
    BY <1>2, <1>6, <1>7 DEF WeightsNoticed

LEMMA SetWeightNoticed ==
    ASSUME VotesInv, WeightsNoticed, NEW t \in Thread, SetWeight(t)
    PROVE  WeightsNoticed'
<1>1. PICK vote \in thread[t].casting :
        /\ weight' = [weight EXCEPT ![vote.conflict] = thread[t].read]
        /\ tasks' = IF weight[vote.conflict] = thread[t].read THEN tasks
                    ELSE tasks \cup {<<vote.conflict, thread[t].read>>}
    BY DEF SetWeight
<1>2. /\ thread' = [thread EXCEPT ![t] = GoOn(thread[t])] /\ thread[t].pc = "set"
      /\ UNCHANGED <<dagVars, voters>>
    BY DEF SetWeight
<1>3. thread[t].casting = {vote} /\ vote.conflict \in Stored /\ vote.conflict \in ConflictID
    BY CastingOne
<1>4. DAGGrows /\ Stored' = Stored
    BY <1>2, DAGUnchanged
<1>5. \A x \in Thread \ {t} : thread'[x] = thread[x]
    BY <1>2, VotesInvParts
<1>6. tasks \subseteq tasks'
    BY <1>1
<1>7. ASSUME NEW c \in ConflictID, Decided(c) PROVE Decided(c)'
    BY <1>4, <1>6, <1>7, DecidedKept
<1>8. /\ weight'[vote.conflict] = thread[t].read
      /\ \A c \in ConflictID \ {vote.conflict} : weight'[c] = weight[c]
    BY <1>1, <1>3, VotesInvParts
<1>9. ASSUME ReachesThreshold(thread[t].read) PROVE Decided(vote.conflict)'
    <2>1. CASE weight[vote.conflict] = thread[t].read
        BY <1>3, <1>7, <1>9, <2>1 DEF WeightsNoticed
    <2>2. CASE weight[vote.conflict] # thread[t].read
        <3>1. <<vote.conflict, thread[t].read>> \in tasks'
            BY <1>1, <2>2
        <3> QED BY <1>9, <3>1 DEF Decided
    <2> QED BY <2>1, <2>2
<1>10. ASSUME NEW c \in ConflictID, AboutToBeWeighed(c) PROVE Decided(c)' \/ AboutToBeWeighed(c)'
    <2>1. PICK x \in Thread : Weighing(thread[x], c)
        BY <1>10 DEF AboutToBeWeighed, Weighing
    <2>2. CASE x = t
        <3>1. vote.conflict = c /\ ReachesThreshold(thread[t].read)
            BY <1>2, <1>3, <2>1, <2>2 DEF Weighing
        <3> QED BY <1>9, <3>1
    <2>3. CASE x # t
        BY <1>5, <2>1, <2>3 DEF AboutToBeWeighed, Weighing
    <2> QED BY <2>2, <2>3
<1>11. ASSUME NEW c \in ConflictID
       PROVE  /\ ReachesThreshold(weight'[c]) => Decided(c)'
              /\ IsQuorum(voters'[c]) => Decided(c)' \/ AboutToBeWeighed(c)'
    <2>1. ReachesThreshold(weight'[c]) => Decided(c)'
        <3>1. CASE c = vote.conflict
            BY <1>8, <1>9, <3>1
        <3>2. CASE c # vote.conflict
            BY <1>7, <1>8, <3>2 DEF WeightsNoticed
        <3> QED BY <3>1, <3>2
    <2>2. IsQuorum(voters'[c]) => Decided(c)' \/ AboutToBeWeighed(c)'
        BY <1>2, <1>7, <1>10 DEF WeightsNoticed
    <2> QED BY <2>1, <2>2
<1> QED
    BY <1>11 DEF WeightsNoticed

LEMMA ForkBlockNoticed ==
    ASSUME VotesInv, WeightsNoticed, NEW b \in Block, NEW c \in ConflictID, ForkBlock(b, c)
    PROVE  WeightsNoticed'
<1> DEFINE vote == Vote(b, c, For)
           th == [thread[Forker] EXCEPT !.pc = "weigh", !.casting = {vote}]
<1>1. thread[Forker].pc = "idle" /\ Forker \in Thread /\ UNCHANGED <<dagVars, weight, tasks>>
    BY ForkBlockParts
<1>2. \/ UNCHANGED <<votes, voters, thread>>
      \/ /\ voters' = UpdateVoters(vote)
         /\ (Issuer[b] \in voters[c] /\ thread' = thread) \/ thread' = [thread EXCEPT ![Forker] = th]
    BY ForkBlockParts
<1>3. vote \in ConflictVote /\ vote.conflict = c /\ vote.voter = Issuer[b] /\ vote.opinion = For
    BY VoteTyped DEF Vote
<1>4. DAGGrows /\ Stored' = Stored
    BY <1>1, DAGUnchanged
<1>5. thread[Forker] \in Handler
    BY <1>1, VotesInvParts DEF ThreadFine
<1>6. th.pc = "weigh" /\ th.casting = {vote}
    BY <1>5 DEF Handler
<1> HIDE DEF vote, th
<1>7. CASE voters' = voters
    <2>1. \A t \in Thread : thread'[t] = thread[t] \/ thread[t].pc \notin {"weigh", "set"}
        BY <1>1, <1>2, VotesInvParts
    <2> QED BY <1>1, <1>4, <1>7, <2>1, NoticedKept
<1>8. CASE voters' # voters
    <2>1. voters' = UpdateVoters(vote)
        BY <1>2, <1>8
    <2>2. \A d \in ConflictID \ {c} : voters'[d] = voters[d]
        BY <1>3, <2>1, StoreEntries
    <2>3. voters'[c] = voters[c] \cup {Issuer[b]}
        BY <1>3, <2>1, StoreEntries
    <2>4. thread' = [thread EXCEPT ![Forker] = th]
        <3>1. CASE Issuer[b] \in voters[c]
            <4>1. \A d \in ConflictID : voters'[d] = voters[d]
                BY <2>2, <2>3, <3>1
            <4>2. voters' \in [ConflictID -> SUBSET Voter] /\ voters \in [ConflictID -> SUBSET Voter]
                BY <1>3, <2>1, StoreEntries, VotesInvParts
            <4> QED BY <1>8, <4>1, <4>2
        <3> QED BY <1>2, <1>8, <3>1
    <2>5. thread'[Forker] = th /\ \A t \in Thread \ {Forker} : thread'[t] = thread[t]
        BY <1>1, <2>4, VotesInvParts
    <2>6. AboutToBeWeighed(c)'
        BY <1>1, <1>3, <1>6, <2>5 DEF AboutToBeWeighed
    <2>7. ASSUME NEW d \in ConflictID, Decided(d) PROVE Decided(d)'
        BY <1>1, <1>4, <2>7, DecidedKept
    <2>8. ASSUME NEW d \in ConflictID, AboutToBeWeighed(d) PROVE AboutToBeWeighed(d)'
        BY <1>1, <2>5, <2>8 DEF AboutToBeWeighed
    <2> QED BY <1>1, <2>2, <2>6, <2>7, <2>8 DEF WeightsNoticed
<1> QED
    BY <1>7, <1>8

LEMMA HandleConflictNoticed ==
    ASSUME VotesInv, WeightsNoticed, NEW task \in tasks, HandleConflict(task[1], task[2])
    PROVE  WeightsNoticed'
<1>1. /\ DAGGrows /\ Stored' = Stored /\ task[1] \in Stored /\ task = <<task[1], task[2]>>
      /\ ReachesThreshold(task[2]) => confirmationState'[task[1]] # Pending
    BY HandleConflictVotes
<1>2. tasks' = tasks \ {task} /\ UNCHANGED <<voters, weight, thread>>
    BY <1>1 DEF HandleConflict
<1>3. ASSUME NEW c \in ConflictID, Decided(c) PROVE Decided(c)'
    <2>1. CASE confirmationState[c] # Pending
        <3>1. CASE c \in Stored
            BY <1>1, <2>1, <3>1 DEF DAGGrows, Decided
        <3>2. CASE c \notin Stored
            BY <1>1, <3>2 DEF Decided, Stored, Undefined, Pending
        <3> QED BY <3>1, <3>2
    <2>2. CASE \E x \in tasks : x[1] = c /\ ReachesThreshold(x[2])
        <3>1. PICK x \in tasks : x[1] = c /\ ReachesThreshold(x[2])
            BY <2>2
        <3>2. CASE x = task
            BY <1>1, <3>1, <3>2 DEF Decided
        <3>3. CASE x # task
            BY <1>2, <3>1, <3>3 DEF Decided
        <3> QED BY <3>2, <3>3
    <2> QED BY <1>3, <2>1, <2>2 DEF Decided
<1>4. ASSUME NEW c \in ConflictID, AboutToBeWeighed(c) PROVE AboutToBeWeighed(c)'
    BY <1>2, <1>4 DEF AboutToBeWeighed
<1> QED
    BY <1>2, <1>3, <1>4 DEF WeightsNoticed

LEMMA WeightsNoticedStep ==
    ASSUME VotesInv, WeightsNoticed, [NextVoting]_votingVars
    PROVE  WeightsNoticed'
<1>1. ASSUME NEW c \in ConflictID, Announce(c) PROVE WeightsNoticed'
    <2>1. DAGGrows /\ Stored' = Stored
        BY <1>1, AnnounceDAG
    <2>2. UNCHANGED <<voters, weight, tasks, thread>>
        BY <1>1 DEF Announce, voteVars
    <2> QED BY <2>1, <2>2, NoticedKept
<1>2. ASSUME NEW b \in Block, BookBlock(b) PROVE WeightsNoticed'
    <2>1. DAGGrows /\ Stored' = Stored
        BY <1>2, DAGUnchanged DEF BookBlock
    <2>2. UNCHANGED <<voters, weight, tasks>> /\ thread' = [thread EXCEPT ![b].pc = "booked"] /\ b \notin booked
        BY <1>2 DEF BookBlock
    <2>3. thread[b] = Idle
        BY <2>2, VotesInvParts
    <2>4. \A t \in Thread : thread'[t] = thread[t] \/ thread[t].pc \notin {"weigh", "set"}
        BY <2>2, <2>3, VotesInvParts DEF Idle
    <2> QED BY <2>1, <2>2, <2>4, NoticedKept
<1>3. ASSUME NEW b \in Block, DetermineVotes(b) PROVE WeightsNoticed'
    <2>1. DAGGrows /\ Stored' = Stored
        BY <1>3, DAGUnchanged DEF DetermineVotes
    <2>2. UNCHANGED <<voters, weight, tasks>> /\ thread[b].pc = "booked" /\ \E th : thread' = [thread EXCEPT ![b] = th]
        BY <1>3 DEF DetermineVotes
    <2>3. \A t \in Thread : thread'[t] = thread[t] \/ thread[t].pc \notin {"weigh", "set"}
        BY <2>2, VotesInvParts
    <2> QED BY <2>1, <2>2, <2>3, NoticedKept
<1>4. ASSUME NEW b \in Block, NEW c \in ConflictID, CastVote(b, c) PROVE WeightsNoticed'
    <2>1. DAGGrows /\ Stored' = Stored
        BY <1>4, DAGUnchanged DEF CastVote
    <2>2. UNCHANGED <<voters, weight, tasks>> /\ thread[b].pc = "vote" /\ \E th : thread' = [thread EXCEPT ![b] = th]
        BY <1>4 DEF CastVote
    <2>3. \A t \in Thread : thread'[t] = thread[t] \/ thread[t].pc \notin {"weigh", "set"}
        BY <2>2, VotesInvParts
    <2> QED BY <2>1, <2>2, <2>3, NoticedKept
<1>5. ASSUME UNCHANGED votingVars PROVE WeightsNoticed'
    <2>1. DAGGrows /\ Stored' = Stored
        BY <1>5, DAGUnchanged DEF votingVars
    <2>2. UNCHANGED <<voters, weight, tasks, thread>>
        BY <1>5 DEF votingVars, voteVars
    <2> QED BY <2>1, <2>2, NoticedKept
<1> QED
    BY <1>1, <1>2, <1>3, <1>4, <1>5, NewConflictNoticed, StoreVoteNoticed, WeighNoticed, SetWeightNoticed, ForkBlockNoticed,
       HandleConflictNoticed DEF NextVoting

-----------------------------------------------------------------------------
(* Supporters. *)

LEMMA SupportersAreVoters ==
    ASSUME VotesInv, NEW c
    PROVE  Supporters(c) \subseteq Voter
    BY VotesInvParts, VoterAssumption DEF Supporters

(* Blocks keep their conflicts, and conflicts their parents. *)
LEMMA SupportersGrow ==
    ASSUME VotesInv, VotesInv', DAGGrows, booked \subseteq booked', \A x \in booked : blockConflicts[x] \subseteq blockConflicts'[x]
    PROVE  /\ \A x \in booked : Walk(blockConflicts[x], ParentEdges) \subseteq Walk(blockConflicts'[x], ParentEdges')
           /\ \A c \in ConflictID : Supporters(c) \subseteq Supporters(c)'
           /\ \A c \in ConflictID : IsQuorum(Supporters(c)) => IsQuorum(Supporters(c)')
<1>1. ParentEdges \subseteq ParentEdges' /\ ParentEdges' \subseteq ConflictID \X ConflictID
    <2>1. ASSUME NEW e \in ConflictID \X ConflictID, e[2] \in parents[e[1]] PROVE e[2] \in parents'[e[1]]
        <3>1. e[1] \in Stored
            BY <2>1, VotesInvParts DEF DAGInv, ReferencesConsistent
        <3> QED BY <2>1, <3>1 DEF DAGGrows
    <2> QED BY <2>1 DEF ParentEdges
<1>2. ASSUME NEW x \in booked PROVE Walk(blockConflicts[x], ParentEdges) \subseteq Walk(blockConflicts'[x], ParentEdges')
    <2>1. x \in Block /\ blockConflicts[x] \in SUBSET ConflictID
        BY VotesInvParts
    <2>2. blockConflicts'[x] \in SUBSET ConflictID
        <3>1. blockConflicts' \in [Block -> SUBSET ConflictID]
            BY DEF VotesInv, VotingTypeOK
        <3> QED BY <2>1, <3>1
    <2> QED BY <1>1, <2>1, <2>2, WalkGrows
<1>3. ASSUME NEW c \in ConflictID PROVE Supporters(c) \subseteq Supporters(c)'
    BY <1>2 DEF Supporters
<1>4. ASSUME NEW c \in ConflictID, IsQuorum(Supporters(c)) PROVE IsQuorum(Supporters(c)')
    <2>1. Supporters(c)' \subseteq Voter
        <3>1. booked' \subseteq Block
            BY DEF VotesInv, VotingTypeOK
        <3> QED BY <3>1, VoterAssumption DEF Supporters
    <2> QED BY <1>3, <1>4, <2>1, QuorumFacts
<1> QED
    BY <1>2, <1>3, <1>4

(* The supporters of a conflict support what it builds on. *)
LEMMA SupportersUpwards ==
    ASSUME VotesInv, NEW c \in ConflictID, NEW p \in Walk({c}, ParentEdges)
    PROVE  Supporters(c) \subseteq Supporters(p)
<1> DEFINE T == {d \in ConflictID : Supporters(c) \subseteq Supporters(d)}
<1>1. ASSUME NEW e \in ParentEdges, e[1] \in T PROVE e[2] \in T
    <2>1. e[1] \in ConflictID /\ e[2] \in ConflictID /\ e = <<e[1], e[2]>>
        BY DEF ParentEdges
    <2>2. Supporters(e[1]) \subseteq Supporters(e[2])
        <3>1. ASSUME NEW x \in booked, e[1] \in Walk(blockConflicts[x], ParentEdges)
              PROVE  e[2] \in Walk(blockConflicts[x], ParentEdges)
            BY <2>1, <3>1, WalkPush
        <3> QED BY <3>1 DEF Supporters
    <2> QED BY <1>1, <2>1, <2>2
<1>2. c \in T /\ T \in SUBSET ConflictID
    OBVIOUS
<1> HIDE DEF T
<1>3. Walk({c}, ParentEdges) \subseteq T
    BY <1>1, <1>2, WalkLeast
<1> QED
    BY <1>3 DEF T

(* What handlers, tasks and states say when the supporters have grown. *)
LEMMA SupportedKept ==
    ASSUME VotesInv, VotesInv', VotesSupported, DAGGrows, booked \subseteq booked',
           \A x \in booked : blockConflicts[x] \subseteq blockConflicts'[x]
    PROVE  /\ \A c \in ConflictID : voters[c] \subseteq Supporters(c)'
           /\ \A b \in Block : thread[b].add \subseteq Walk(blockConflicts'[b], ParentEdges')
           /\ \A t \in Thread : \A vote \in thread[t].casting :
                /\ vote.opinion = For => vote.voter \in Supporters(vote.conflict)'
                /\ thread[t].pc = "set" /\ ReachesThreshold(thread[t].read) => IsQuorum(Supporters(vote.conflict)')
           /\ \A task \in tasks : ReachesThreshold(task[2]) => IsQuorum(Supporters(task[1])')
<1>1. \A c \in ConflictID : voters[c] \subseteq Supporters(c)'
    BY SupportersGrow DEF VotesSupported
<1>2. ASSUME NEW b \in Block PROVE thread[b].add \subseteq Walk(blockConflicts'[b], ParentEdges')
    <2>1. CASE b \in booked
        BY <2>1, SupportersGrow DEF VotesSupported
    <2>2. CASE b \notin booked
        <3>1. thread[b].add = {}
            BY <2>2, VotesInvParts DEF Idle
        <3> QED BY <3>1
    <2> QED BY <2>1, <2>2
<1>3. ASSUME NEW t \in Thread, NEW vote \in thread[t].casting
      PROVE  /\ vote.opinion = For => vote.voter \in Supporters(vote.conflict)'
             /\ thread[t].pc = "set" /\ ReachesThreshold(thread[t].read) => IsQuorum(Supporters(vote.conflict)')
    <2>1. vote.conflict \in ConflictID
        BY CastingOne
    <2>2. /\ vote.opinion = For => vote.voter \in Supporters(vote.conflict)
          /\ thread[t].pc = "set" /\ ReachesThreshold(thread[t].read) => IsQuorum(Supporters(vote.conflict))
        BY DEF VotesSupported
    <2> QED BY <2>1, <2>2, SupportersGrow
<1>4. ASSUME NEW task \in tasks PROVE ReachesThreshold(task[2]) => IsQuorum(Supporters(task[1])')
    <2>1. task[1] \in ConflictID
        BY VotesInvParts
    <2> QED BY <2>1, SupportersGrow DEF VotesSupported
<1> QED
    BY <1>1, <1>2, <1>3, <1>4

(* What a handler may have to vote for, casts and has read. *)
ThreadSupported(th, b) ==
    /\ b \in Block => th.add \subseteq Walk(blockConflicts'[b], ParentEdges')
    /\ \A vote \in th.casting :
        /\ vote.opinion = For => vote.voter \in Supporters(vote.conflict)'
        /\ th.pc = "set" /\ ReachesThreshold(th.read) => IsQuorum(Supporters(vote.conflict)')

(* Steps that change at most one handler. *)
LEMMA SupportedByThread ==
    ASSUME VotesInv, VotesInv', VotesSupported, DAGGrows, booked \subseteq booked',
           \A x \in booked : blockConflicts[x] \subseteq blockConflicts'[x],
           NEW b, \A t \in Thread \ {b} : thread'[t] = thread[t], b \in Thread => ThreadSupported(thread'[b], b),
           \A c \in ConflictID : voters'[c] \subseteq Supporters(c)',
           \A task \in tasks' : ReachesThreshold(task[2]) => IsQuorum(Supporters(task[1])')
    PROVE  VotesSupported'
<1>1. ASSUME NEW t \in Thread PROVE ThreadSupported(thread'[t], t)
    <2>1. CASE t = b
        BY <2>1
    <2>2. CASE t # b
        <3>1. ThreadSupported(thread[t], t)
            BY SupportedKept DEF ThreadSupported
        <3> QED BY <2>2, <3>1
    <2> QED BY <2>1, <2>2
<1>2. \A x \in Block : x \in Thread
    BY DEF Thread
<1> QED
    BY <1>1, <1>2 DEF VotesSupported, ThreadSupported

LEMMA InitSupported == InitVoting => VotesSupported /\ AcceptedBacked
<1> SUFFICES ASSUME InitVoting PROVE VotesSupported /\ AcceptedBacked
    OBVIOUS
<1>1. VotesSupported
    BY DEF InitVoting, VotesSupported, Idle, Thread
<1>2. AcceptedBacked
    BY DEF InitVoting, InitDAG, AcceptedBacked, Stored
<1> QED
    BY <1>1, <1>2

LEMMA InitNoticed == InitVoting => WeightsNoticed
<1> SUFFICES ASSUME InitVoting, NEW c \in ConflictID PROVE Decided(c)
    BY DEF WeightsNoticed
<1>1. confirmationState[c] # Pending
    BY DEF InitVoting, InitDAG, Undefined, Pending
<1> QED
    BY <1>1 DEF Decided

LEMMA BookBlockSupported ==
    ASSUME VotesInv, VotesInv', VotesSupported, NEW b \in Block, BookBlock(b)
    PROVE  VotesSupported'
<1>1. DAGGrows
    BY DAGUnchanged DEF BookBlock
<1>2. /\ b \notin booked /\ booked' = booked \cup {b} /\ thread' = [thread EXCEPT ![b].pc = "booked"]
      /\ UNCHANGED <<voters, tasks>>
      /\ blockConflicts' = [blockConflicts EXCEPT ![b] = UnconfirmedConflicts(Spends[b] \cap Stored)]
    BY DEF BookBlock
<1>3. \A x \in booked : blockConflicts[x] \subseteq blockConflicts'[x]
    BY <1>2, VotesInvParts
<1>4. /\ \A t \in Thread \ {b} : thread'[t] = thread[t]
      /\ b \in Thread => thread'[b] = [Idle EXCEPT !.pc = "booked"]
    BY <1>2, VotesInvParts
<1>5. ThreadSupported([Idle EXCEPT !.pc = "booked"], b)
    BY DEF ThreadSupported, Idle
<1>6. /\ \A c \in ConflictID : voters'[c] \subseteq Supporters(c)'
      /\ \A task \in tasks' : ReachesThreshold(task[2]) => IsQuorum(Supporters(task[1])')
    BY <1>1, <1>2, <1>3, SupportedKept
<1> QED
    BY <1>1, <1>2, <1>3, <1>4, <1>5, <1>6, SupportedByThread

(* Steps of one handler that change nothing else. *)
LEMMA ThreadStepSupported ==
    ASSUME VotesInv, VotesInv', VotesSupported, UNCHANGED <<dagVars, blockConflicts, booked, voters, tasks>>,
           NEW b \in Thread, NEW th, thread' = [thread EXCEPT ![b] = th], ThreadSupported(th, b)
    PROVE  VotesSupported'
<1>1. DAGGrows
    BY DAGUnchanged
<1>2. (\A t \in Thread \ {b} : thread'[t] = thread[t]) /\ thread'[b] = th
    BY VotesInvParts
<1>3. /\ \A c \in ConflictID : voters'[c] \subseteq Supporters(c)'
      /\ \A task \in tasks' : ReachesThreshold(task[2]) => IsQuorum(Supporters(task[1])')
    BY <1>1, SupportedKept
<1> QED
    BY <1>1, <1>2, <1>3, SupportedByThread

LEMMA SupportersUnchanged ==
    ASSUME UNCHANGED <<dagVars, blockConflicts, booked>>
    PROVE  ParentEdges' = ParentEdges /\ \A c : Supporters(c)' = Supporters(c)
<1>1. ParentEdges' = ParentEdges
    BY DEF ParentEdges, dagVars
<1> QED
    BY <1>1 DEF Supporters

(* A thread that is done with its vote supports what it supported. *)
LEMMA GoOnSupported ==
    ASSUME NEW th \in Handler, NEW b, b \in Block => th.add \subseteq Walk(blockConflicts'[b], ParentEdges')
    PROVE  ThreadSupported(GoOn(th), b)
<1>1. CASE th.add \cup th.revoke = {}
    <2>1. GoOn(th).add = {} /\ GoOn(th).casting = {}
        BY <1>1 DEF GoOn, Idle
    <2> QED BY <2>1 DEF ThreadSupported
<1>2. CASE th.add \cup th.revoke # {}
    <2>1. GoOn(th) = [th EXCEPT !.pc = "vote", !.casting = {}, !.read = 0]
        BY <1>2 DEF GoOn
    <2>2. th = [pc |-> th.pc, add |-> th.add, revoke |-> th.revoke, casting |-> th.casting, read |-> th.read]
        BY DEF Handler
    <2>3. GoOn(th) = [pc |-> "vote", add |-> th.add, revoke |-> th.revoke, casting |-> {}, read |-> 0]
        BY <2>1, <2>2
    <2>4. GoOn(th).add = th.add /\ GoOn(th).casting = {}
        BY <2>3
    <2> QED BY <2>4 DEF ThreadSupported
<1> QED
    BY <1>1, <1>2

LEMMA DetermineVotesSupported ==
    ASSUME VotesInv, VotesInv', VotesSupported, NEW b \in Block, DetermineVotes(b)
    PROVE  VotesSupported'
<1> DEFINE added == DetermineConflictsToAdd(b)
           revoked == DetermineConflictsToRevoke(added)
           isInvalid == revoked \cap (added \cup blockConflicts[b]) # {}
           new == [Idle EXCEPT !.add = added, !.revoke = revoked]
           th == IF isInvalid \/ Weight[Issuer[b]] = 0 THEN Idle ELSE GoOn(new)
<1>1. /\ thread' = [thread EXCEPT ![b] = th] /\ UNCHANGED <<dagVars, blockConflicts, booked, voters, tasks>>
    BY DEF DetermineVotes
<1>2. b \in Thread
    BY DEF Thread
<1>3. added \subseteq Stored /\ revoked \subseteq Stored /\ added \subseteq Walk(blockConflicts[b], ParentEdges)
    BY DetermineVotesStored
<1>4. added \subseteq Walk(blockConflicts'[b], ParentEdges')
    BY <1>1, <1>3, SupportersUnchanged
<1>5. new \in Handler /\ new.add = added
    <2>1. Stored \subseteq ConflictID
        BY VotesInvParts
    <2> HIDE DEF added, revoked
    <2> QED BY <1>3, <2>1 DEF Idle, Handler
<1>6. ThreadSupported(GoOn(new), b)
    <2> HIDE DEF new, added
    <2> QED BY <1>4, <1>5, GoOnSupported
<1>7. ThreadSupported(Idle, b)
    BY DEF ThreadSupported, Idle
<1>8. ThreadSupported(th, b)
    <2> HIDE DEF new, isInvalid
    <2> QED BY <1>6, <1>7
<1> HIDE DEF th
<1> QED
    BY <1>1, <1>2, <1>8, ThreadStepSupported

LEMMA CastVoteSupported ==
    ASSUME VotesInv, VotesInv', VotesSupported, NEW b \in Block, NEW c \in ConflictID, CastVote(b, c)
    PROVE  VotesSupported'
<1> DEFINE cast(th, o) == IF votes[Issuer[b]][c].power < SequenceNumber[b]
                          THEN [th EXCEPT !.pc = "store", !.casting = {Vote(b, c, o)}]
                          ELSE GoOn(th)
           forth == [thread[b] EXCEPT !.add = @ \ {c}]
           against == [thread[b] EXCEPT !.revoke = @ \ {c}]
<1>1. /\ thread[b].pc = "vote"
      /\ UNCHANGED <<dagVars, blockConflicts, booked, voters, tasks>>
    BY DEF CastVote
<1>2. \/ c \in thread[b].add /\ thread' = [thread EXCEPT ![b] = cast(forth, For)]
      \/ c \in thread[b].revoke /\ thread' = [thread EXCEPT ![b] = cast(against, Against)]
    BY Zenon DEF CastVote, IsNext
<1>3. b \in booked /\ b \in Thread
    <2>1. b \notin booked => thread[b] = Idle
        BY VotesInvParts
    <2> QED BY <1>1, <2>1 DEF Thread, Idle
<1>4. thread[b] \in Handler /\ thread[b].add \subseteq Walk(blockConflicts[b], ParentEdges)
    BY <1>3, VotesInvParts DEF ThreadFine, VotesSupported
<1>5. ParentEdges' = ParentEdges /\ blockConflicts' = blockConflicts /\ \A d : Supporters(d)' = Supporters(d)
    BY <1>1, SupportersUnchanged
<1>6. ASSUME NEW th \in Handler, th.add \subseteq thread[b].add, NEW o \in {For, Against},
             o = For => c \in thread[b].add
      PROVE  ThreadSupported(cast(th, o), b)
    <2>1. ThreadSupported(GoOn(th), b)
        BY <1>4, <1>5, <1>6, GoOnSupported
    <2> DEFINE new == [th EXCEPT !.pc = "store", !.casting = {Vote(b, c, o)}]
    <2>2. new.add = th.add /\ new.pc = "store" /\ new.casting = {Vote(b, c, o)}
        BY <1>6 DEF Handler
    <2>3. Vote(b, c, o).conflict = c /\ Vote(b, c, o).voter = Issuer[b] /\ Vote(b, c, o).opinion = o
        BY DEF Vote
    <2>4. o = For => Issuer[b] \in Supporters(c)'
        BY <1>3, <1>4, <1>5, <1>6 DEF Supporters
    <2> HIDE DEF new
    <2>5. ThreadSupported(new, b)
        BY <1>4, <1>5, <1>6, <2>2, <2>3, <2>4 DEF ThreadSupported
    <2> QED BY <2>1, <2>5 DEF new
<1>7. forth \in Handler /\ forth.add \subseteq thread[b].add /\ against \in Handler /\ against.add \subseteq thread[b].add
    BY <1>4 DEF Handler
<1> HIDE DEF cast, forth, against
<1>8. CASE c \in thread[b].add /\ thread' = [thread EXCEPT ![b] = cast(forth, For)]
    <2>1. ThreadSupported(cast(forth, For), b)
        BY <1>6, <1>7, <1>8
    <2> QED BY <1>1, <1>3, <1>8, <2>1, ThreadStepSupported
<1>9. CASE c \in thread[b].revoke /\ thread' = [thread EXCEPT ![b] = cast(against, Against)]
    <2>1. Against # For
        BY DEF Against, For
    <2>2. ThreadSupported(cast(against, Against), b)
        BY <1>6, <1>7, <2>1
    <2> QED BY <1>1, <1>3, <1>9, <2>2, ThreadStepSupported
<1> QED
    BY <1>2, <1>8, <1>9

LEMMA StoreVoteSupported ==
    ASSUME VotesInv, VotesInv', VotesSupported, NEW b \in Block, StoreVote(b)
    PROVE  VotesSupported'
<1>1. PICK vote \in thread[b].casting : voters' = UpdateVoters(vote)
    BY DEF StoreVote
<1>2. /\ thread' = [thread EXCEPT ![b].pc = "weigh"]
      /\ UNCHANGED <<dagVars, blockConflicts, booked, tasks>>
    BY DEF StoreVote
<1>3. b \in Thread
    BY DEF Thread
<1>4. vote \in ConflictVote /\ vote.conflict \in ConflictID
    BY <1>3, CastingOne
<1>5. DAGGrows /\ \A c : Supporters(c)' = Supporters(c)
    BY <1>2, DAGUnchanged, SupportersUnchanged
<1>6. thread[b] \in Handler
    BY <1>3, VotesInvParts DEF ThreadFine
<1>7. /\ thread'[b].pc = "weigh" /\ thread'[b].casting = thread[b].casting /\ thread'[b].add = thread[b].add
      /\ \A t \in Thread \ {b} : thread'[t] = thread[t]
    <2>1. thread'[b] = [thread[b] EXCEPT !.pc = "weigh"] /\ \A t \in Thread \ {b} : thread'[t] = thread[t]
        BY <1>2, <1>3, VotesInvParts
    <2> QED BY <1>6, <2>1 DEF Handler
<1>8. ThreadSupported(thread'[b], b)
    <2>1. /\ thread[b].add \subseteq Walk(blockConflicts'[b], ParentEdges')
          /\ \A v \in thread[b].casting : v.opinion = For => v.voter \in Supporters(v.conflict)'
        BY <1>2, <1>3, <1>5, SupportedKept
    <2> QED BY <1>7, <2>1 DEF ThreadSupported
<1>9. ASSUME NEW c \in ConflictID PROVE voters'[c] \subseteq Supporters(c)'
    <2>1. voters[c] \subseteq Supporters(c)
        BY DEF VotesSupported
    <2>2. CASE c = vote.conflict
        <3>1. voters'[c] \subseteq IF vote.opinion = For THEN voters[c] \cup {vote.voter} ELSE voters[c]
            BY <1>1, <1>4, <2>2, StoreEntries
        <3>2. vote.opinion = For => vote.voter \in Supporters(c)
            BY <1>3, <2>2 DEF VotesSupported
        <3> QED BY <1>5, <2>1, <3>1, <3>2
    <2>3. CASE c # vote.conflict
        BY <1>1, <1>4, <1>5, <2>1, <2>3, StoreEntries
    <2> QED BY <2>2, <2>3
<1>10. \A task \in tasks' : ReachesThreshold(task[2]) => IsQuorum(Supporters(task[1])')
    BY <1>2, <1>5, SupportedKept
<1> QED
    BY <1>2, <1>5, <1>7, <1>8, <1>9, <1>10, SupportedByThread

LEMMA WeighSupported ==
    ASSUME VotesInv, VotesInv', VotesSupported, NEW t \in Thread, Weigh(t)
    PROVE  VotesSupported'
<1>1. PICK vote \in thread[t].casting :
            thread' = [thread EXCEPT ![t].pc = "set", ![t].read = ReadWeight(vote)]
    BY DEF Weigh
<1>2. UNCHANGED <<dagVars, blockConflicts, booked, voters, tasks>>
    BY DEF Weigh
<1> DEFINE th == [thread[t] EXCEPT !.pc = "set", !.read = ReadWeight(vote)]
<1>3. thread' = [thread EXCEPT ![t] = th]
    BY <1>1, VotesInvParts
<1>4. vote.conflict \in ConflictID /\ thread[t].casting = {vote} /\ thread[t] \in Handler
    BY CastingOne, VotesInvParts DEF ThreadFine
<1>5. th.add = thread[t].add /\ th.casting = {vote} /\ th.read = ReadWeight(vote)
    BY <1>4 DEF Handler
<1>6. DAGGrows /\ \A c : Supporters(c)' = Supporters(c)
    BY <1>2, DAGUnchanged, SupportersUnchanged
<1>7. ASSUME ReachesThreshold(ReadWeight(vote)) PROVE IsQuorum(Supporters(vote.conflict)')
    <2>1. IsQuorum(voters[vote.conflict])
        BY <1>7, QuorumFacts DEF ReadWeight
    <2>2. voters[vote.conflict] \subseteq Supporters(vote.conflict) /\ Supporters(vote.conflict) \subseteq Voter
        BY <1>4, SupportersAreVoters DEF VotesSupported
    <2>3. IsQuorum(Supporters(vote.conflict))
        BY <2>1, <2>2, QuorumFacts
    <2> QED BY <1>6, <2>3
<1>8. /\ t \in Block => thread[t].add \subseteq Walk(blockConflicts'[t], ParentEdges')
      /\ vote.opinion = For => vote.voter \in Supporters(vote.conflict)'
    BY <1>2, <1>6, SupportedKept
<1> HIDE DEF th
<1>9. ThreadSupported(th, t)
    BY <1>5, <1>7, <1>8 DEF ThreadSupported
<1> QED
    BY <1>2, <1>3, <1>9, ThreadStepSupported

LEMMA SetWeightSupported ==
    ASSUME VotesInv, VotesInv', VotesSupported, NEW t \in Thread, SetWeight(t)
    PROVE  VotesSupported'
<1>1. PICK vote \in thread[t].casting : tasks' \subseteq tasks \cup {<<vote.conflict, thread[t].read>>}
    BY DEF SetWeight
<1>2. /\ thread' = [thread EXCEPT ![t] = GoOn(thread[t])] /\ thread[t].pc = "set"
      /\ UNCHANGED <<dagVars, blockConflicts, booked, voters>>
    BY DEF SetWeight
<1>3. DAGGrows
    BY <1>2, DAGUnchanged
<1>4. thread[t] \in Handler /\ (t \in Block => thread[t].add \subseteq Walk(blockConflicts'[t], ParentEdges'))
    BY <1>2, <1>3, SupportedKept, VotesInvParts DEF ThreadFine
<1>5. ThreadSupported(GoOn(thread[t]), t)
    BY <1>4, GoOnSupported
<1>6. (\A x \in Thread \ {t} : thread'[x] = thread[x]) /\ thread'[t] = GoOn(thread[t])
    BY <1>2, VotesInvParts
<1>7. \A c \in ConflictID : voters'[c] \subseteq Supporters(c)'
    BY <1>2, <1>3, SupportedKept
<1>8. ASSUME NEW task \in tasks', ReachesThreshold(task[2]) PROVE IsQuorum(Supporters(task[1])')
    <2>1. CASE task \in tasks
        BY <1>2, <1>3, <1>8, <2>1, SupportedKept
    <2>2. CASE task = <<vote.conflict, thread[t].read>>
        <3>1. ReachesThreshold(thread[t].read) /\ task[1] = vote.conflict
            BY <1>8, <2>2
        <3>2. IsQuorum(Supporters(vote.conflict)')
            BY <1>2, <1>3, <3>1, SupportedKept
        <3> QED BY <3>1, <3>2
    <2> QED BY <1>1, <2>1, <2>2
<1> QED
    BY <1>2, <1>3, <1>5, <1>6, <1>7, <1>8, SupportedByThread

LEMMA ForkBlockSupported ==
    ASSUME VotesInv, VotesInv', VotesSupported, NEW b \in Block, NEW c \in ConflictID, ForkBlock(b, c)
    PROVE  VotesSupported'
<1> DEFINE vote == Vote(b, c, For)
           th == [thread[Forker] EXCEPT !.pc = "weigh", !.casting = {vote}]
<1>1. /\ b \in booked /\ Forker \in Thread /\ UNCHANGED <<dagVars, booked, tasks>>
      /\ \A x \in Block : blockConflicts[x] \subseteq blockConflicts'[x]
      /\ blockConflicts' \in [Block -> SUBSET ConflictID]
    BY ForkBlockParts
<1>2. \/ UNCHANGED <<votes, voters, thread>>
      \/ /\ voters' = UpdateVoters(vote) /\ c \in blockConflicts'[b]
         /\ thread' = thread \/ thread' = [thread EXCEPT ![Forker] = th]
    BY ForkBlockParts
<1>3. vote \in ConflictVote /\ vote.conflict = c /\ vote.voter = Issuer[b] /\ vote.opinion = For
    BY VoteTyped DEF Vote
<1>4. DAGGrows
    BY <1>1, DAGUnchanged
<1>5. \A x \in booked : blockConflicts[x] \subseteq blockConflicts'[x]
    BY <1>1, VotesInvParts
<1>6. thread[Forker] \in Handler
    BY <1>1, VotesInvParts DEF ThreadFine
<1>7. th.pc = "weigh" /\ th.casting = {vote}
    BY <1>6 DEF Handler
<1> HIDE DEF vote, th
<1>8. c \in blockConflicts'[b] => Issuer[b] \in Supporters(c)'
    <2>1. ASSUME c \in blockConflicts'[b] PROVE c \in Walk(blockConflicts'[b], ParentEdges')
        BY <1>1, <2>1, WalkStart
    <2> QED BY <1>1, <2>1 DEF Supporters
<1>9. \A t \in Thread \ {Forker} : thread'[t] = thread[t]
    BY <1>1, <1>2, VotesInvParts
<1>10. ThreadSupported(thread'[Forker], Forker)
    <2>1. CASE thread' = thread
        BY <1>1, <1>4, <1>5, <2>1, SupportedKept DEF ThreadSupported
    <2>2. CASE thread' # thread
        <3>1. thread'[Forker] = th /\ c \in blockConflicts'[b]
            BY <1>1, <1>2, <2>2, VotesInvParts
        <3>2. Forker \notin Block
            BY VoterAssumption
        <3> QED BY <1>3, <1>7, <1>8, <3>1, <3>2 DEF ThreadSupported
    <2> QED BY <2>1, <2>2
<1>11. ASSUME NEW d \in ConflictID PROVE voters'[d] \subseteq Supporters(d)'
    <2>1. voters[d] \subseteq Supporters(d)'
        BY <1>1, <1>4, <1>5, SupportedKept
    <2>2. CASE voters' = voters
        BY <2>1, <2>2
    <2>3. CASE voters' # voters
        <3>1. voters' = UpdateVoters(vote) /\ c \in blockConflicts'[b]
            BY <1>2, <2>3
        <3>2. voters'[d] \subseteq IF d = c THEN voters[d] \cup {Issuer[b]} ELSE voters[d]
            BY <1>3, <3>1, StoreEntries
        <3> QED BY <1>8, <2>1, <3>1, <3>2
    <2> QED BY <2>2, <2>3
<1>12. \A task \in tasks' : ReachesThreshold(task[2]) => IsQuorum(Supporters(task[1])')
    BY <1>1, <1>4, <1>5, SupportedKept
<1> QED
    BY <1>1, <1>4, <1>5, <1>9, <1>10, <1>11, <1>12, SupportedByThread

(* Steps that change the DAG and no more than the tasks and forks. *)
LEMMA DAGStepSupported ==
    ASSUME VotesInv, VotesInv', VotesSupported, DAGGrows, tasks' \subseteq tasks,
           UNCHANGED <<blockConflicts, booked, voters, thread>>
    PROVE  VotesSupported'
<1>1. /\ \A c \in ConflictID : voters'[c] \subseteq Supporters(c)'
      /\ \A task \in tasks' : ReachesThreshold(task[2]) => IsQuorum(Supporters(task[1])')
    BY SupportedKept
<1>2. ASSUME NEW t \in Thread PROVE thread'[t] = thread[t] /\ ThreadSupported(thread'[t], t)
    BY SupportedKept DEF ThreadSupported
<1> QED
    BY <1>1, <1>2, SupportedByThread

LEMMA VotesSupportedStep ==
    ASSUME VotesInv, VotesSupported, [NextVoting]_votingVars
    PROVE  VotesSupported'
<1>1. VotesInv'
    BY VotesStep
<1>2. ASSUME NEW c \in ConflictID, Announce(c) PROVE VotesSupported'
    BY <1>1, <1>2, AnnounceDAG, DAGStepSupported DEF Announce, voteVars
<1>3. ASSUME NEW c \in ConflictID, NewConflict(c) PROVE VotesSupported'
    <2>1. DAGGrows
        BY <1>3, NewConflictDAG
    <2>2. UNCHANGED <<blockConflicts, booked, voters, thread, tasks>>
        BY <1>3 DEF NewConflict
    <2> QED BY <1>1, <2>1, <2>2, DAGStepSupported
<1>4. ASSUME NEW task \in tasks, HandleConflict(task[1], task[2]) PROVE VotesSupported'
    <2>1. DAGGrows
        BY <1>4, HandleConflictVotes
    <2>2. tasks' \subseteq tasks /\ UNCHANGED <<blockConflicts, booked, voters, thread>>
        BY <1>4 DEF HandleConflict
    <2> QED BY <1>1, <2>1, <2>2, DAGStepSupported
<1>5. ASSUME UNCHANGED votingVars PROVE VotesSupported'
    <2>1. DAGGrows
        BY <1>5, DAGUnchanged DEF votingVars
    <2> QED BY <1>1, <1>5, <2>1, DAGStepSupported DEF votingVars, voteVars
<1> QED
    BY <1>1, <1>2, <1>3, <1>4, <1>5, BookBlockSupported, DetermineVotesSupported, StoreVoteSupported, CastVoteSupported,
       ForkBlockSupported, WeighSupported, SetWeightSupported DEF NextVoting

(* A step that accepts nothing new. *)
LEMMA AcceptedKept ==
    ASSUME VotesInv, VotesInv', AcceptedBacked, DAGGrows, booked \subseteq booked',
           \A x \in booked : blockConflicts[x] \subseteq blockConflicts'[x],
           \A c \in Stored' : IsAccepted(confirmationState'[c]) => c \in Stored /\ IsAccepted(confirmationState[c])
    PROVE  AcceptedBacked'
<1>1. ASSUME NEW c \in Stored', IsAccepted(confirmationState'[c]) PROVE IsQuorum(Supporters(c)')
    <2>1. c \in Stored /\ c \in ConflictID /\ IsQuorum(Supporters(c))
        BY <1>1 DEF AcceptedBacked, Stored
    <2> QED BY <2>1, SupportersGrow
<1> QED
    BY <1>1 DEF AcceptedBacked

LEMMA HandleConflictAccepted ==
    ASSUME VotesInv, VotesInv', VotesSupported, AcceptedBacked, NEW task \in tasks, HandleConflict(task[1], task[2]),
           ReachesThreshold(task[2])
    PROVE  AcceptedBacked'
<1> DEFINE c == task[1]
           A == NewlyAccepted(c)
           R == NewlyRejected(A)
<1>1. /\ DAGGrows /\ Stored' = Stored /\ parents' = parents /\ c \in Stored /\ c \in ConflictID
      /\ UNCHANGED <<blockConflicts, booked>>
    BY HandleConflictVotes DEF HandleConflict, Stored
<1>2. confirmationState' = [d \in ConflictID |->
            IF d \in R THEN Rejected ELSE IF d \in A THEN Accepted ELSE confirmationState[d]]
    BY DEF HandleConflict, SetConflictAccepted
<1>3. IsQuorum(Supporters(c))
    BY DEF VotesSupported
<1>4. A \subseteq Walk({c}, ParentEdges)
    <2> DEFINE edges == {e \in ParentEdges : e[1] \in Stored /\ confirmationState[e[1]] # Accepted}
    <2>1. A \subseteq Walk({c}, edges)
        BY DEF NewlyAccepted
    <2>2. edges \subseteq ParentEdges /\ ParentEdges \subseteq ConflictID \X ConflictID /\ {c} \in SUBSET ConflictID
        BY <1>1 DEF ParentEdges
    <2> HIDE DEF edges, A, c
    <2>3. Walk({c}, edges) \subseteq Walk({c}, ParentEdges)
        BY <2>2, WalkGrows
    <2> QED BY <2>1, <2>3
<1> HIDE DEF A, R, c
<1>5. ASSUME NEW d \in Stored', IsAccepted(confirmationState'[d]) PROVE IsQuorum(Supporters(d)')
    <2>1. d \in Stored /\ d \in ConflictID
        BY <1>1 DEF Stored
    <2>2. IsQuorum(Supporters(d))
        <3>1. CASE d \in A
            <4>1. Supporters(c) \subseteq Supporters(d) /\ Supporters(d) \subseteq Voter
                BY <1>1, <1>4, <3>1, SupportersUpwards, SupportersAreVoters
            <4> QED BY <1>3, <4>1, QuorumFacts
        <3>2. CASE d \notin A
            <4>1. IsAccepted(confirmationState[d])
                BY <1>2, <1>5, <2>1, <3>2 DEF IsAccepted, Rejected, Accepted
            <4> QED BY <2>1, <4>1 DEF AcceptedBacked
        <3> QED BY <3>1, <3>2
    <2> QED BY <1>1, <2>1, <2>2, SupportersGrow
<1> QED
    BY <1>5 DEF AcceptedBacked

LEMMA AcceptedBackedStep ==
    ASSUME VotesInv, VotesSupported, AcceptedBacked, [NextVoting]_votingVars
    PROVE  AcceptedBacked'
<1>1. VotesInv'
    BY VotesStep
<1>2. ASSUME NEW c \in ConflictID, Announce(c) PROVE AcceptedBacked'
    <2>1. DAGGrows /\ Stored' = Stored /\ UNCHANGED confirmationState
        BY <1>2, AnnounceDAG
    <2>2. UNCHANGED <<blockConflicts, booked>>
        BY <1>2 DEF Announce, voteVars
    <2> QED BY <1>1, <2>1, <2>2, AcceptedKept
<1>3. ASSUME NEW c \in ConflictID, NewConflict(c) PROVE AcceptedBacked'
    <2>1. DAGGrows /\ Stored' = Stored \cup {c} /\ c \notin Stored
        BY <1>3, NewConflictDAG
    <2>2. UNCHANGED <<blockConflicts, booked>>
        BY <1>3 DEF NewConflict
    <2>3. TypeOK
        BY DEF VotesInv, DAGInv
    <2>4. confirmationState'[c] \in {Rejected, Pending} /\ \A d \in Stored : confirmationState'[d] = confirmationState[d]
        BY <1>3, <2>1, <2>3 DEF NewConflict, CreateConflict, NewState, TypeOK, Stored
    <2>5. \A d \in Stored' : IsAccepted(confirmationState'[d]) => d \in Stored /\ IsAccepted(confirmationState[d])
        BY <2>1, <2>4 DEF IsAccepted, Accepted, Rejected, Pending
    <2> QED BY <1>1, <2>1, <2>2, <2>5, AcceptedKept
<1>4. ASSUME NEW task \in tasks, HandleConflict(task[1], task[2]) PROVE AcceptedBacked'
    <2>1. CASE ReachesThreshold(task[2])
        BY <1>1, <1>4, <2>1, HandleConflictAccepted
    <2>2. CASE ~ReachesThreshold(task[2])
        <3>1. UNCHANGED dagVars /\ UNCHANGED <<blockConflicts, booked>>
            BY <1>4, <2>2 DEF HandleConflict
        <3>2. DAGGrows /\ Stored' = Stored /\ UNCHANGED confirmationState
            BY <3>1, DAGUnchanged DEF dagVars
        <3> QED BY <1>1, <3>1, <3>2, AcceptedKept
    <2> QED BY <2>1, <2>2
<1>5. ASSUME UNCHANGED dagVars, booked \subseteq booked', \A x \in booked : blockConflicts[x] \subseteq blockConflicts'[x]
      PROVE  AcceptedBacked'
    <2>1. DAGGrows /\ Stored' = Stored /\ UNCHANGED confirmationState
        BY <1>5, DAGUnchanged DEF dagVars
    <2> QED BY <1>1, <1>5, <2>1, AcceptedKept
<1>6. ASSUME NEW b \in Block, BookBlock(b) PROVE AcceptedBacked'
    <2>1. \A x \in booked : blockConflicts[x] \subseteq blockConflicts'[x]
        BY <1>6, VotesInvParts DEF BookBlock
    <2> QED BY <1>5, <1>6, <2>1 DEF BookBlock
<1>7. ASSUME NEW b \in Block, DetermineVotes(b) \/ StoreVote(b) PROVE AcceptedBacked'
    BY <1>5, <1>7 DEF DetermineVotes, StoreVote
<1>8. ASSUME NEW b \in Block, NEW c \in ConflictID, CastVote(b, c) PROVE AcceptedBacked'
    BY <1>5, <1>8 DEF CastVote
<1>9. ASSUME NEW b \in Block, NEW c \in ConflictID, ForkBlock(b, c) PROVE AcceptedBacked'
    BY <1>5, <1>9, ForkBlockParts, VotesInvParts
<1>10. ASSUME NEW t \in Thread, Weigh(t) \/ SetWeight(t) PROVE AcceptedBacked'
    BY <1>5, <1>10 DEF Weigh, SetWeight
<1>11. ASSUME UNCHANGED votingVars PROVE AcceptedBacked'
    BY <1>5, <1>11 DEF votingVars, voteVars
<1> QED
    BY <1>2, <1>3, <1>4, <1>6, <1>7, <1>8, <1>9, <1>10, <1>11 DEF NextVoting

-----------------------------------------------------------------------------
(* The conflicts a node likes: the fold of dislikedConnectedConflictingConflicts. *)

(* What one round of the fold over q computes, *)
Marked(q, g, s) == IF s = {} THEN {} ELSE DislikedBy(g[s \ {Max(s)}], q[Max(s)])

(* and the fold over the elements of q at all indexes in a set. *)
Marks(q, g, I) == g = [s \in SUBSET I |-> Marked(q, g, s)]

Fold(q) == CHOOSE g : Marks(q, g, DOMAIN q)

(* The library's fold is that one. *)
LEMMA DislikedIsFold ==
    ASSUME NEW q
    PROVE  FoldLeft(DislikedBy, {}, q) = Fold(q)[DOMAIN q]
    BY DEF FoldLeft, MapThenFoldSet, Fold, Marks, Marked

(* The greatest of finitely many indexes. *)
LEMMA MaxIndex ==
    ASSUME NEW n \in Nat, NEW s \in SUBSET (1 .. n), s # {}
    PROVE  Max(s) \in s /\ \A i \in s : i <= Max(s)
<1> DEFINE U == {k \in Nat : \A i \in s : i <= k}
<1>1. U \in SUBSET Nat /\ n \in U
    OBVIOUS
<1>2. PICK k \in U : \A l \in U : k <= l
    <2> HIDE DEF U
    <2> QED BY <1>1, LeastNumber
<1>3. k \in Nat /\ \A i \in s : i <= k
    BY <1>2
<1>4. k \in s
    <2>1. SUFFICES ASSUME k \notin s PROVE FALSE
        OBVIOUS
    <2>2. PICK i \in s : i \in 1 .. n
        OBVIOUS
    <2>3. \A j \in s : j \in Nat /\ j <= k - 1
        BY <1>3, <2>1
    <2>4. i \in Nat /\ 1 <= i /\ i <= k - 1
        BY <2>2, <2>3
    <2>5. k - 1 \in U
        BY <1>3, <2>3, <2>4
    <2> HIDE DEF U
    <2> QED BY <1>2, <1>3, <2>5
<1>5. \E x \in s : \A y \in s : x >= y
    BY <1>3, <1>4
<1>6. Max(s) \in s /\ \A y \in s : Max(s) >= y
    BY <1>5 DEF Max
<1> QED
    BY <1>6

(* The sets of at most k of the indexes, and the fold over them. *)
Few(n, k) == {s \in SUBSET (1 .. n) : Cardinality(s) <= k}
MarksFew(q, g, n, k) == g = [s \in Few(n, k) |-> Marked(q, g, s)]

(* They are finite, like all sets of indexes. *)
LEMMA FewSets ==
    ASSUME NEW n \in Nat, NEW s \in SUBSET (1 .. n)
    PROVE  IsFiniteSet(s) /\ Cardinality(s) \in Nat
<1>1. IsFiniteSet(1 .. n)
    BY FS_Interval
<1> QED
    BY <1>1, FS_Subset, FS_CardinalityType

(* Without its greatest index a set of at most k has at most k - 1. *)
LEMMA FewFewer ==
    ASSUME NEW n \in Nat, NEW k \in Nat \ {0}, NEW s \in Few(n, k), s # {}
    PROVE  s \ {Max(s)} \in Few(n, k - 1)
<1>1. s \in SUBSET (1 .. n) /\ Cardinality(s) <= k
    BY DEF Few
<1>2. Max(s) \in s
    BY <1>1, MaxIndex
<1>3. IsFiniteSet(s) /\ Cardinality(s) \in Nat
    BY <1>1, FewSets
<1>4. Cardinality(s \ {Max(s)}) = Cardinality(s) - 1
    BY <1>2, <1>3, FS_RemoveElement
<1>5. Cardinality(s \ {Max(s)}) <= k - 1
    BY <1>1, <1>3, <1>4
<1>6. s \ {Max(s)} \in SUBSET (1 .. n)
    BY <1>1
<1> QED
    BY <1>5, <1>6 DEF Few

(* One more index: the fold over the smaller sets extends to the larger ones. *)
LEMMA FoldExtends ==
    ASSUME NEW n \in Nat, NEW q, NEW k \in Nat \ {0}, NEW g, MarksFew(q, g, n, k - 1)
    PROVE  \E h : MarksFew(q, h, n, k)
<1> DEFINE h == [s \in Few(n, k) |-> Marked(q, g, s)]
<1>1. ASSUME NEW s \in Few(n, k - 1) PROVE s \in Few(n, k)
    <2>1. s \in SUBSET (1 .. n) /\ Cardinality(s) <= k - 1
        BY DEF Few
    <2>2. Cardinality(s) \in Nat
        BY <2>1, FewSets
    <2>3. Cardinality(s) <= k
        BY <2>1, <2>2
    <2> QED BY <2>1, <2>3 DEF Few
<1>2. ASSUME NEW s \in Few(n, k - 1) PROVE h[s] = g[s]
    <2>1. g[s] = Marked(q, g, s)
        BY DEF MarksFew
    <2> QED BY <1>1, <2>1
<1>3. ASSUME NEW s \in Few(n, k) PROVE Marked(q, h, s) = Marked(q, g, s)
    <2>1. s # {} => h[s \ {Max(s)}] = g[s \ {Max(s)}]
        BY <1>2, FewFewer
    <2> HIDE DEF h
    <2> QED BY <2>1 DEF Marked
<1>4. h = [s \in Few(n, k) |-> Marked(q, h, s)]
    <2> HIDE DEF h
    <2> QED BY <1>3 DEF h
<1> HIDE DEF h
<1> QED
    BY <1>4 DEF MarksFew

(* The fold exists, by the number of indexes. *)
LEMMA FoldExists ==
    ASSUME NEW n \in Nat, NEW q
    PROVE  \E g : Marks(q, g, 1 .. n)
<1> DEFINE Bad == {k \in Nat : ~ \E g : MarksFew(q, g, n, k)}
<1>1. IsFiniteSet(1 .. n) /\ Cardinality(1 .. n) = n
    BY FS_Interval
<1>2. \E g : MarksFew(q, g, n, 0)
    <2> DEFINE g == [s \in Few(n, 0) |-> {}]
    <2>1. ASSUME NEW s \in Few(n, 0) PROVE s = {}
        <3>1. s \in SUBSET (1 .. n) /\ Cardinality(s) <= 0
            BY DEF Few
        <3>2. IsFiniteSet(s) /\ Cardinality(s) \in Nat
            BY <3>1, FewSets
        <3>3. Cardinality(s) = 0
            BY <3>1, <3>2
        <3> QED BY <3>2, <3>3, FS_EmptySet
    <2>2. ASSUME NEW s \in Few(n, 0) PROVE Marked(q, g, s) = {}
        BY <2>1 DEF Marked
    <2>3. g = [s \in Few(n, 0) |-> Marked(q, g, s)]
        <3> HIDE DEF g
        <3> QED BY <2>2 DEF g
    <2> HIDE DEF g
    <2> QED BY <2>3 DEF MarksFew
<1>3. Bad = {}
    <2>1. SUFFICES ASSUME Bad # {} PROVE FALSE
        OBVIOUS
    <2>2. PICK k \in Bad : \A m \in Bad : k <= m
        <3>1. Bad \in SUBSET Nat
            OBVIOUS
        <3> HIDE DEF Bad
        <3> QED BY <2>1, <3>1, LeastNumber
    <2>3. k \in Nat \ {0} /\ ~ \E g : MarksFew(q, g, n, k)
        BY <1>2, <2>2
    <2>4. k - 1 \in Nat /\ k - 1 \notin Bad
        <3>1. k - 1 \in Nat /\ ~(k <= k - 1)
            BY <2>3
        <3> HIDE DEF Bad
        <3> QED BY <2>2, <3>1
    <2>5. \E g : MarksFew(q, g, n, k - 1)
        BY <2>4
    <2> HIDE DEF Bad
    <2> QED BY <2>3, <2>5, FoldExtends
<1>4. PICK g : MarksFew(q, g, n, n)
    BY <1>3
<1>5. Few(n, n) = SUBSET (1 .. n)
    <2>1. ASSUME NEW s \in SUBSET (1 .. n) PROVE Cardinality(s) <= n
        BY <1>1, FS_Subset
    <2> QED BY <2>1 DEF Few
<1> QED
    BY <1>4, <1>5 DEF Marks, MarksFew

(* Round by round, what the fold dislikes. *)
LEMMA FoldRounds ==
    ASSUME NEW n \in Nat, NEW q, DOMAIN q = 1 .. n
    PROVE  \A k \in 1 .. n : Fold(q)[1 .. k] = DislikedBy(Fold(q)[1 .. (k - 1)], q[k])
<1>1. Marks(q, Fold(q), 1 .. n)
    BY FoldExists DEF Fold
<1>2. SUFFICES ASSUME NEW k \in 1 .. n
               PROVE  Fold(q)[1 .. k] = DislikedBy(Fold(q)[1 .. (k - 1)], q[k])
    OBVIOUS
<1> DEFINE s == 1 .. k
<1>3. s \in SUBSET (1 .. n) /\ k \in s /\ s # {} /\ \A i \in s : i <= k
    OBVIOUS
<1>4. s \ {k} = 1 .. (k - 1)
    OBVIOUS
<1> HIDE DEF s
<1>5. Max(s) = k
    <2>1. Max(s) \in s /\ k <= Max(s)
        BY <1>3, MaxIndex
    <2>2. Max(s) <= k /\ Max(s) \in 1 .. n
        BY <1>3, <2>1
    <2> QED BY <2>1, <2>2
<1>6. Fold(q)[s] = Marked(q, Fold(q), s)
    BY <1>1, <1>3 DEF Marks
<1> QED
    BY <1>3, <1>4, <1>5, <1>6 DEF Marked, s

(* A conflict that the fold comes to is disliked, or else its competitors are. *)
LEMMA FoldDislikes ==
    ASSUME NEW n \in Nat, NEW q, DOMAIN q = 1 .. n, NEW i \in 1 .. n, q[i] \in ConflictID
    PROVE  LET disliked == FoldLeft(DislikedBy, {}, q)
           IN  q[i] \in disliked \/ ConflictingConflicts(q[i]) \subseteq disliked
<1> DEFINE h(k) == Fold(q)[1 .. k]
<1>1. \A k \in 1 .. n : h(k) = DislikedBy(h(k - 1), q[k])
    BY FoldRounds
<1>2. \A k \in 1 .. n : h(k - 1) \subseteq h(k)
    <2> HIDE DEF h
    <2> QED BY <1>1 DEF DislikedBy
<1>3. ASSUME NEW j \in 0 .. n PROVE h(j) \subseteq h(n)
    <2> DEFINE Bad == {k \in 0 .. n : j <= k /\ ~(h(j) \subseteq h(k))}
    <2>1. SUFFICES ASSUME Bad # {} PROVE FALSE
        BY <1>3
    <2>2. PICK k \in Bad : \A l \in Bad : k <= l
        <3>1. Bad \in SUBSET Nat
            OBVIOUS
        <3> HIDE DEF Bad
        <3> QED BY <2>1, <3>1, LeastNumber
    <2> HIDE DEF h
    <2>3. k # j /\ k \in 1 .. n /\ k - 1 \in 0 .. n /\ j <= k - 1 /\ k - 1 \notin Bad
        BY <2>2
    <2>4. h(j) \subseteq h(k - 1) /\ h(k - 1) \subseteq h(k)
        BY <1>2, <2>3
    <2> QED BY <2>2, <2>4
<1>4. FoldLeft(DislikedBy, {}, q) = h(n)
    BY DislikedIsFold
<1>5. h(i - 1) \subseteq h(n) /\ h(i) \subseteq h(n)
    BY <1>3
<1>6. q[i] \in h(i - 1) \/ ConflictingConflicts(q[i]) \subseteq h(i)
    <2>1. ConflictingConflicts(q[i]) \subseteq ConflictID
        BY DEF ConflictingConflicts, MembersBeside
    <2>2. ConflictingConflicts(q[i]) \subseteq Walk(ConflictingConflicts(q[i]), ChildEdges)
        BY <2>1, WalkStart
    <2> HIDE DEF h
    <2> QED BY <1>1, <2>2 DEF DislikedBy
<1> HIDE DEF h
<1> QED
    BY <1>4, <1>5, <1>6

(* The order in which the connected conflicts are looked at is a total one: *)
(* a conflict is placed behind all those that are before it.                *)
LEMMA BeforeOrders ==
    ASSUME weight \in [ConflictID -> Nat]
    PROVE  /\ \A c, d \in ConflictID : c = d \/ Before(c, d) \/ Before(d, c)
           /\ \A c \in ConflictID : ~Before(c, c)
           /\ \A c, d, e \in ConflictID : Before(c, d) /\ Before(d, e) => Before(c, e)
<1>1. \A c \in ConflictID : weight[c] \in Nat /\ Rank[c] \in Nat
    BY RankAssumption
<1>2. \A c, d \in ConflictID : c = d \/ Before(c, d) \/ Before(d, c)
    <2>1. SUFFICES ASSUME NEW c \in ConflictID, NEW d \in ConflictID, c # d
                   PROVE  Before(c, d) \/ Before(d, c)
        OBVIOUS
    <2>2. Rank[c] # Rank[d]
        BY <2>1, RankAssumption
    <2> QED BY <1>1, <2>2 DEF Before
<1>3. \A c \in ConflictID : ~Before(c, c)
    BY <1>1 DEF Before
<1>4. \A c, d, e \in ConflictID : Before(c, d) /\ Before(d, e) => Before(c, e)
    BY <1>1 DEF Before
<1> QED
    BY <1>2, <1>3, <1>4

(* Every one of the conflicts has a place of its own in DescendingOrder. *)
LEMMA EveryConflictPlaced ==
    ASSUME weight \in [ConflictID -> Nat], NEW S \in SUBSET ConflictID, NEW c \in S
    PROVE  /\ Cardinality(S) \in Nat
           /\ \E i \in 1 .. Cardinality(S) : DescendingOrder(S)[i] = c
<1> DEFINE earlier(x) == {d \in S : Before(d, x)}
           place(x) == Cardinality(earlier(x))
<1>1. IsFiniteSet(S) /\ Cardinality(S) \in Nat
    BY RankAssumption, FS_Subset, FS_CardinalityType
<1>2. ASSUME NEW x \in S PROVE IsFiniteSet(earlier(x)) /\ place(x) \in Nat
    BY <1>1, FS_Subset, FS_CardinalityType
<1>3. place(c) < Cardinality(S)
    <2>1. c \notin earlier(c) /\ earlier(c) \in SUBSET S
        BY BeforeOrders
    <2> HIDE DEF earlier
    <2>2. place(c) <= Cardinality(S) /\ (Cardinality(S) = place(c) => S = earlier(c))
        BY <1>1, <2>1, FS_Subset
    <2>3. place(c) # Cardinality(S)
        BY <2>1, <2>2
    <2> HIDE DEF place
    <2> QED BY <1>1, <1>2, <2>2, <2>3
<1>4. ASSUME NEW x \in S, NEW y \in S, Before(x, y) PROVE place(x) < place(y)
    <2>1. earlier(x) \in SUBSET earlier(y) /\ x \in earlier(y) /\ x \notin earlier(x)
        BY <1>4, BeforeOrders
    <2>2. IsFiniteSet(earlier(y)) /\ place(x) \in Nat /\ place(y) \in Nat
        BY <1>2
    <2> HIDE DEF earlier
    <2>3. place(x) <= place(y) /\ (place(y) = place(x) => earlier(y) = earlier(x))
        BY <2>1, <2>2, FS_Subset
    <2>4. place(x) # place(y)
        BY <2>1, <2>3
    <2> HIDE DEF place
    <2> QED BY <2>2, <2>3, <2>4
<1>5. ASSUME NEW x \in S, place(x) = place(c) PROVE x = c
    <2>1. ~(place(x) < place(c)) /\ ~(place(c) < place(x))
        <3>1. place(c) \in Nat
            BY <1>2
        <3> HIDE DEF place
        <3> QED BY <1>5, <3>1
    <2>2. ~Before(x, c) /\ ~Before(c, x)
        <3> HIDE DEF place
        <3> QED BY <1>4, <2>1
    <2> QED BY <2>2, BeforeOrders
<1> DEFINE i == place(c) + 1
<1>6. i \in 1 .. Cardinality(S) /\ i - 1 = place(c)
    <2>1. place(c) \in Nat
        BY <1>2
    <2> HIDE DEF place
    <2> QED BY <1>1, <1>3, <2>1
<1>7. DescendingOrder(S)[i] = CHOOSE x \in S : place(x) = i - 1
    <2> HIDE DEF i
    <2> QED BY <1>6 DEF DescendingOrder
<1>8. DescendingOrder(S)[i] = c
    <2> HIDE DEF place, i
    <2> QED BY <1>5, <1>6, <1>7
<1> HIDE DEF i, place
<1> QED
    BY <1>1, <1>6, <1>8

(* Competitors of each other are connected to the same conflicts. *)
LEMMA CompetitorsConnected ==
    ASSUME ReferencesConsistent, NEW c \in ConflictID, NEW d \in ConflictingConflicts(c)
    PROVE  /\ d \in ConflictID /\ c \in ConflictingConflicts(d)
           /\ c \in ConnectedConflictingConflicts(c) /\ d \in ConnectedConflictingConflicts(c)
           /\ ConnectedConflictingConflicts(d) = ConnectedConflictingConflicts(c)
<1> DEFINE edges == {e \in ConflictID \X ConflictID : e[2] \in ConflictingConflicts(e[1])}
<1>1. ASSUME NEW x \in ConflictID, NEW y \in ConflictingConflicts(x)
      PROVE  y \in ConflictID /\ x \in ConflictingConflicts(y) /\ <<x, y>> \in edges
    <2>1. PICK r \in conflictSetIDs[x] : <<r, y>> \in conflictMembers
        BY DEF ConflictingConflicts, MembersBeside
    <2>2. y \in ConflictID /\ x # y
        BY DEF ConflictingConflicts, MembersBeside
    <2>3. r \in ResourceID /\ r \in conflictSetIDs[y]
        BY <2>1 DEF ReferencesConsistent
    <2>4. <<r, x>> \in conflictMembers
        BY <2>1, <2>3 DEF ReferencesConsistent
    <2>5. x \in ConflictingConflicts(y)
        BY <2>2, <2>3, <2>4 DEF ConflictingConflicts, MembersBeside
    <2> QED BY <2>2, <2>5
<1>2. ASSUME NEW x \in ConflictID
      PROVE  /\ x \in Walk({x}, edges) /\ Walk({x}, edges) \in SUBSET ConflictID
             /\ \A y \in ConflictingConflicts(x) : y \in Walk({x}, edges)
    <2>1. {x} \subseteq Walk({x}, edges) /\ Walk({x}, edges) \subseteq ConflictID
        <3> HIDE DEF edges
        <3> QED BY WalkStart
    <2>2. ASSUME NEW y \in ConflictingConflicts(x) PROVE y \in Walk({x}, edges)
        <3>1. y \in ConflictID /\ <<x, y>> \in edges
            BY <1>1
        <3> HIDE DEF edges
        <3> QED BY <2>1, <3>1, WalkPush
    <2> QED BY <2>1, <2>2
<1>3. ASSUME NEW x \in ConflictID, NEW y \in ConflictingConflicts(x)
      PROVE  Walk({y}, edges) \subseteq Walk({x}, edges)
    <2> DEFINE T == Walk({x}, edges)
    <2>1. T \in SUBSET ConflictID /\ {y} \subseteq T
        BY <1>2
    <2>2. \A e \in edges : e = <<e[1], e[2]>> /\ e[2] \in ConflictID
        OBVIOUS
    <2> HIDE DEF edges
    <2>3. \A e \in edges : e[1] \in T => e[2] \in T
        BY <2>2, WalkPush
    <2> HIDE DEF T
    <2>4. Walk({y}, edges) \subseteq T
        BY <2>1, <2>3, WalkLeast
    <2> QED BY <2>4 DEF T
<1>4. d \in ConflictID /\ c \in ConflictingConflicts(d)
    BY <1>1
<1>5. Walk({d}, edges) = Walk({c}, edges)
    <2> HIDE DEF edges
    <2> QED BY <1>3, <1>4
<1> QED
    BY <1>2, <1>4, <1>5 DEF ConnectedConflictingConflicts

(* A liked conflict is not among the disliked ones of its competitors. *)
LEMMA LikedNotDisliked ==
    ASSUME DAGInv, NEW c \in Stored, ConflictLiked(c)
    PROVE  c \notin DislikedConnectedConflictingConflicts(c)
<1> DEFINE edges == {e \in ParentEdges : confirmationState[e[1]] # Confirmed}
<1>1. c \in ConflictID
    BY DEF Stored
<1>2. c \in Walk({c}, edges)
    <2> HIDE DEF edges
    <2> QED BY <1>1, WalkStart
<1>3. ConflictPreferred(c)
    <2> HIDE DEF edges
    <2>1. \A p \in Walk({c}, edges) : ConflictPreferred(p)
        BY DEF ConflictLiked, edges
    <2> QED BY <1>2, <2>1
<1> QED
    BY <1>1, <1>3 DEF ConflictPreferred, DAGInv

(* Of two competitors at most one is liked: the fold comes to both. *)
LEMMA NoLikedCompetitors ==
    ASSUME DAGInv, weight \in [ConflictID -> Nat],
           NEW c \in Stored, ConflictLiked(c), NEW d \in Stored, ConflictLiked(d),
           d \in ConflictingConflicts(c)
    PROVE  FALSE
<1> DEFINE S == ConnectedConflictingConflicts(c)
           q == DescendingOrder(S)
<1>1. c \in ConflictID /\ d \in ConflictID
    BY DEF Stored
<1>2. c \in S /\ ConnectedConflictingConflicts(d) = S
    BY <1>1, CompetitorsConnected DEF DAGInv
<1>3. S \in SUBSET ConflictID
    BY <1>1, WalkStart DEF ConnectedConflictingConflicts
<1>4. c \notin FoldLeft(DislikedBy, {}, q) /\ d \notin FoldLeft(DislikedBy, {}, q)
    <2>1. c \notin DislikedConnectedConflictingConflicts(c)
        BY LikedNotDisliked
    <2>2. d \notin DislikedConnectedConflictingConflicts(d)
        BY LikedNotDisliked
    <2> QED BY <1>2, <2>1, <2>2 DEF DislikedConnectedConflictingConflicts
<1> HIDE DEF S
<1>5. PICK i \in 1 .. Cardinality(S) : q[i] = c
    BY <1>2, <1>3, EveryConflictPlaced
<1>6. Cardinality(S) \in Nat /\ DOMAIN q = 1 .. Cardinality(S)
    <2>1. Cardinality(S) \in Nat
        BY <1>2, <1>3, EveryConflictPlaced
    <2> QED BY <2>1 DEF DescendingOrder
<1> HIDE DEF q
<1>7. c \in FoldLeft(DislikedBy, {}, q) \/ ConflictingConflicts(c) \subseteq FoldLeft(DislikedBy, {}, q)
    BY <1>1, <1>5, <1>6, FoldDislikes
<1> QED
    BY <1>4, <1>7

(* What a liked conflict builds on is stored and liked. *)
LEMMA LikedParents ==
    ASSUME DAGInv, NEW c \in Stored, ConflictLiked(c), NEW p \in parents[c]
    PROVE  p \in Stored /\ ConflictLiked(p)
<1> DEFINE edges == {e \in ParentEdges : confirmationState[e[1]] # Confirmed}
           T == Walk({c}, edges)
<1>1. c \in ConflictID /\ p \in Stored /\ p \in ConflictID
    BY DEF Stored, DAGInv
<1>2. <<c, p>> \in edges
    BY <1>1 DEF ParentEdges, DAGInv
<1>3. \A e \in edges : e = <<e[1], e[2]>> /\ e[2] \in ConflictID
    BY DEF ParentEdges
<1>4. \A x \in T : ConflictPreferred(x)
    BY DEF ConflictLiked
<1>5. \A x \in Walk({p}, edges) : ConflictPreferred(x)
    <2> HIDE DEF edges
    <2>1. c \in T /\ T \in SUBSET ConflictID
        BY <1>1, WalkStart
    <2>2. p \in T
        BY <1>1, <1>2, <2>1, WalkPush
    <2>3. \A e \in edges : e[1] \in T => e[2] \in T
        BY <1>3, WalkPush
    <2> HIDE DEF T
    <2>4. Walk({p}, edges) \subseteq T
        BY <2>1, <2>2, <2>3, WalkLeast
    <2> QED BY <1>4, <2>4
<1> QED
    BY <1>1, <1>5 DEF ConflictLiked

-----------------------------------------------------------------------------
(* Theorems. *)

VotingInv == VotesInv /\ WeightsNoticed /\ VotesSupported /\ AcceptedBacked

(* The inductive invariant of voting on conflicts. *)
THEOREM VotingInvariant == SpecVoting => []VotingInv
<1>1. InitVoting => VotingInv
    BY InitVotes, InitNoticed, InitSupported DEF VotingInv
<1>2. VotingInv /\ [NextVoting]_votingVars => VotingInv'
    BY VotesStep, WeightsNoticedStep, VotesSupportedStep, AcceptedBackedStep DEF VotingInv
<1> QED
    BY <1>1, <1>2, PTL DEF SpecVoting

(* Type correctness: handlers, votes, weights and tasks only ever speak of stored conflicts. *)
THEOREM VotingTypeCorrect == SpecVoting => []VotingTypeOK
<1>1. VotingInv => VotingTypeOK
    BY DEF VotingInv, VotesInv
<1> QED
    BY <1>1, VotingInvariant, PTL

(* The vote that is kept gives way only to one with more power, however the handlers of one issuer's *)
(* blocks overtake each other between addVoterToConflict's look at the latest vote and Store.          *)
THEOREM OnlyLaterVotesReplace == SpecVoting => LaterVotesStay
<1> DEFINE Goal == \A v \in Voter, c \in ConflictID :
        votes'[v][c] # votes[v][c] => votes'[v][c].power > votes[v][c].power
<1>1. VotingInv /\ [NextVoting]_votingVars => [Goal]_votingVars
    <2> SUFFICES ASSUME VotesInv, NextVoting PROVE Goal
        BY DEF VotingInv
    <2>1. ASSUME NEW vote \in ConflictVote, votes' = Store(vote) PROVE Goal
        BY <2>1, StoreEntries
    <2>2. ASSUME UNCHANGED votes PROVE Goal
        BY <2>2
    <2> HIDE DEF Goal
    <2>3. ASSUME NEW b \in Block, StoreVote(b) PROVE Goal
        <3>1. PICK vote \in thread[b].casting : votes' = Store(vote)
            BY <2>3 DEF StoreVote
        <3>2. vote \in ConflictVote
            BY CastingOne DEF Thread
        <3> QED BY <2>1, <3>1, <3>2
    <2>4. ASSUME NEW b \in Block, NEW c \in ConflictID, ForkBlock(b, c) PROVE Goal
        <3>1. UNCHANGED votes \/ votes' = Store(Vote(b, c, For))
            BY <2>4, ForkBlockParts
        <3> QED BY <2>1, <2>2, <3>1, VoteTyped
    <2>5. ASSUME NEW c \in ConflictID, Announce(c) \/ NewConflict(c) PROVE Goal
        BY <2>2, <2>5 DEF Announce, NewConflict, voteVars
    <2>6. ASSUME NEW b \in Block, BookBlock(b) \/ DetermineVotes(b) PROVE Goal
        BY <2>2, <2>6 DEF BookBlock, DetermineVotes
    <2>7. ASSUME NEW b \in Block, NEW c \in ConflictID, CastVote(b, c) PROVE Goal
        BY <2>2, <2>7 DEF CastVote
    <2>8. ASSUME NEW t \in Thread, Weigh(t) \/ SetWeight(t) PROVE Goal
        BY <2>2, <2>8 DEF Weigh, SetWeight
    <2>9. ASSUME NEW task \in tasks, HandleConflict(task[1], task[2]) PROVE Goal
        BY <2>2, <2>9 DEF HandleConflict
    <2> QED BY <2>3, <2>4, <2>5, <2>6, <2>7, <2>8, <2>9 DEF NextVoting
<1> QED
    BY <1>1, VotingInvariant, PTL DEF SpecVoting, LaterVotesStay

(* No conflict whose voters reach the threshold stays pending once the handlers and the gadget are done: *)
(* the races in updateConflictWeight lose no decision.                                                     *)
THEOREM QuorumsDecided == SpecVoting => []QuorumDecided
<1>1. VotingInv => QuorumDecided
    <2> SUFFICES ASSUME VotingInv, Quiet, NEW c \in Stored, IsQuorum(voters[c]) PROVE confirmationState[c] # Pending
        BY DEF QuorumDecided
    <2>1. c \in ConflictID
        BY DEF Stored
    <2>2. ~AboutToBeWeighed(c)
        BY DEF Quiet, AboutToBeWeighed
    <2>3. Decided(c)
        BY <2>1, <2>2 DEF VotingInv, WeightsNoticed
    <2> QED BY <2>3 DEF Decided, Quiet
<1> QED
    BY <1>1, VotingInvariant, PTL

(* The gadget accepts a conflict only if issuers with the threshold of the weight have blocks in it or in *)
(* something that builds on it: stale sums, revoked votes and forks in between do not help it.              *)
THEOREM AcceptedHaveQuorum == SpecVoting => []AcceptedBacked
<1>1. VotingInv => AcceptedBacked
    BY DEF VotingInv
<1> QED
    BY <1>1, VotingInvariant, PTL

(* Whatever weights the racing handlers have left, the conflicts that        *)
(* ConflictLiked of on mesh voting prefers never compete with each other,    *)
(* and what they build on is liked with them.                                *)
THEOREM LikedConsistent == SpecVoting => []LikedReality
<1>1. VotingInv => LikedReality
    <2>1. SUFFICES ASSUME VotingInv PROVE LikedReality
        OBVIOUS
    <2>2. DAGInv /\ weight \in [ConflictID -> Nat]
        BY <2>1 DEF VotingInv, VotesInv, VotingTypeOK
    <2> DEFINE liked == {c \in Stored : ConflictLiked(c)}
    <2>3. ASSUME NEW c \in liked
          PROVE  /\ ConflictingConflicts(c) \cap liked = {}
                 /\ \A p \in parents[c] : p \in liked
        BY <2>2, NoLikedCompetitors, LikedParents
    <2> QED BY <2>3 DEF LikedReality
<1> QED
    BY <1>1, VotingInvariant, PTL

(* Voting uses the conflict DAG within its contract: its steps are steps of the DAG, so all that is proved *)
(* of the DAG holds here.                                                                                    *)
THEOREM VotingImplementsDAG == SpecVoting => SpecDAG
<1>1. InitVoting => InitDAG
    BY DEF InitVoting
<1>2. VotingInv /\ [NextVoting]_votingVars => [NextDAG]_dagVars
    <2> SUFFICES ASSUME VotesInv, [NextVoting]_votingVars PROVE NextDAG \/ UNCHANGED dagVars
        BY DEF VotingInv
    <2>1. ASSUME NEW c \in ConflictID, Announce(c) \/ NewConflict(c) PROVE NextDAG
        BY <2>1, AnnounceDAG, NewConflictDAG
    <2>2. ASSUME NEW task \in tasks, HandleConflict(task[1], task[2]) PROVE NextDAG \/ UNCHANGED dagVars
        BY <2>2, HandleConflictVotes
    <2>3. ASSUME NEW b \in Block, BookBlock(b) \/ DetermineVotes(b) \/ StoreVote(b) PROVE UNCHANGED dagVars
        BY <2>3 DEF BookBlock, DetermineVotes, StoreVote
    <2>4. ASSUME NEW b \in Block, NEW c \in ConflictID, CastVote(b, c) \/ ForkBlock(b, c) PROVE UNCHANGED dagVars
        BY <2>4 DEF CastVote, ForkBlock
    <2>5. ASSUME NEW t \in Thread, Weigh(t) \/ SetWeight(t) PROVE UNCHANGED dagVars
        BY <2>5 DEF Weigh, SetWeight
    <2>6. ASSUME UNCHANGED votingVars PROVE UNCHANGED dagVars
        BY <2>6 DEF votingVars
    <2> QED BY <2>1, <2>2, <2>3, <2>4, <2>5, <2>6 DEF NextVoting
<1> QED
    BY <1>1, <1>2, VotingInvariant, PTL DEF SpecVoting, SpecDAG

=============================================================================
