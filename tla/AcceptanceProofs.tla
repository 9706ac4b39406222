-------------------------- MODULE AcceptanceProofs --------------------------
(***************************************************************************)
(* Proofs about the acceptance of blocks, for all blocks, voters, weights  *)
(* and workers, in two invariants.  The first one: the votes of an issuer  *)
(* on the markers of a sequence are kept independently of their order, and *)
(* when the workers are done the past cones of accepted blocks are         *)
(* accepted.  The second one relates markers to the DAG of blocks: only    *)
(* what a quorum approves is accepted, and no quorum is overlooked.        *)
(***************************************************************************)
EXTENDS Acceptance, FiniteSetTheorems, NaturalsInduction, WellFoundedInduction, TLAPS

-----------------------------------------------------------------------------
(* The inductive invariant, part by part. *)

(* The markers of the sequences. *)
KnownMarkers ==
    {m \in SequenceIDs \X Nat : /\ m[1] \in DOMAIN sequences
                                /\ m[2] \in sequences[m[1]].lowestIndex .. sequences[m[1]].highestIndex}

(* A block adds one sequence at most, and one index. *)
MarkersKnown ==
    /\ \A b \in booked : StrongParents[b] \cup WeakParents[b] \subseteq booked
    /\ \E k \in 0 .. Cardinality(booked) : DOMAIN sequences = 0 .. k
    /\ \A s \in DOMAIN sequences :
            /\ sequences[s].lowestIndex <= sequences[s].highestIndex
            /\ sequences[s].highestIndex <= Cardinality(booked)
            /\ sequences[s].referenced \subseteq Nat \X KnownMarkers
    /\ sequences[0].lowestIndex = 0
    /\ \A m \in tasks : BlockID(m) # {}
    /\ \A b \in Block : /\ details[b].pastMarkers \subseteq KnownMarkers
                        /\ b \notin booked => details[b] = NoMarkers
                        /\ thread[b].pushed \subseteq KnownMarkers

(* The votes that were to be stored for a sequence and voter, as pairs of index and power. *)
Cast(s, v) == {<<x[3], x[4]>> : x \in {y \in cast : y[1] = s /\ y[2] = v}}

(* The votes kept fall with the index, and for every vote there is one kept with as much power    *)
(* for its index or a later one.                                                                  *)
Falling(V) == \A e, f \in V : (e[1] = f[1] => e = f) /\ (e[1] < f[1] => e[2] >= f[2])

Dominates(V, C) == \A c \in C : \E e \in V : e[1] >= c[1] /\ e[2] >= c[2]

VotesKept ==
    \A s \in SequenceIDs, v \in Voter :
        /\ votes[s][v] \subseteq Cast(s, v)
        /\ Falling(votes[s][v])
        /\ Dominates(votes[s][v], Cast(s, v))

(* What a worker has pushed and does not have before it is accepted. *)
WalksSound ==
    \A w \in Worker :
        /\ worker[w].pushed \subseteq booked /\ worker[w].weak \subseteq AcceptedWeakly \cap booked
        /\ worker[w].pushed \ worker[w].queue \subseteq accepted
        /\ worker[w].pc # "strong" => worker[w].queue = {}
        /\ worker[w].pc = "idle" => worker[w].pushed = {}

(* Some worker will visit a block of S. *)
Queued(S) == \E w \in Worker : worker[w].queue \cap S # {}

WalksComplete ==
    /\ \A b \in accepted \ AcceptedWeakly : \A p \in StrongParents[b] : p \in accepted \/ Queued({p})
    /\ \A s \in SequenceIDs : lastConfirmed[s] > 0 =>
            BlockID(<<s, lastConfirmed[s]>>) \cap accepted # {} \/ Queued(BlockID(<<s, lastConfirmed[s]>>))

AcceptanceInv ==
    /\ AcceptanceTypeOK
    /\ MarkersKnown
    /\ VotesKept
    /\ WalksSound
    /\ WalksComplete

-----------------------------------------------------------------------------
(* Least and greatest numbers. *)

(* A set of natural numbers has a least one. *)
LEMMA LeastNumber ==
    ASSUME NEW T \in SUBSET Nat, T # {}
    PROVE  \E m \in T : \A n \in T : m <= n
<1>1. PICK t \in T : \A s \in T : ~(<<s, t>> \in OpToRel(<, Nat))
    BY NatLessThanWellFounded, WFMin
<1>2. ASSUME NEW n \in T PROVE t <= n
    <2>1. ~(n < t)
        BY <1>1 DEF OpToRel
    <2> QED BY <2>1
<1> QED
    BY <1>2

(* Min of a set of natural numbers. *)
LEMMA MinOfNumbers ==
    ASSUME NEW T \in SUBSET Nat, T # {}
    PROVE  Min(T) \in T
<1>1. PICK m \in T : \A n \in T : m <= n
    BY LeastNumber
<1> QED
    BY <1>1 DEF Min

(* Max of a set of natural numbers with a bound. *)
LEMMA MaxOfNumbers ==
    ASSUME NEW n \in Nat, NEW T \in SUBSET (0 .. n), T # {}
    PROVE  Max(T) \in T /\ \A x \in T : x <= Max(T)
<1> DEFINE U == {k \in Nat : \A x \in T : x <= k}
<1>1. U \in SUBSET Nat /\ n \in U
    OBVIOUS
<1>2. PICK k \in U : \A l \in U : k <= l
    <2> HIDE DEF U
    <2> QED BY <1>1, LeastNumber
<1>3. k \in Nat /\ \A x \in T : x <= k
    BY <1>2
<1>4. k \in T
    <2>1. SUFFICES ASSUME k \notin T PROVE FALSE
        OBVIOUS
    <2>2. \A x \in T : x \in Nat /\ x <= k - 1
        BY <1>3, <2>1
    <2>3. k - 1 \in Nat
        <3>1. PICK x \in T : TRUE
            OBVIOUS
        <3>2. x \in Nat /\ x <= k - 1
            BY <2>2
        <3> QED BY <1>3, <3>2
    <2>4. k - 1 \in U
        BY <2>2, <2>3
    <2> HIDE DEF U
    <2> QED BY <1>2, <1>3, <2>4
<1>5. \E x \in T : \A y \in T : x >= y
    BY <1>3, <1>4
<1>6. Max(T) \in T /\ \A y \in T : Max(T) >= y
    BY <1>5 DEF Max
<1> QED
    BY <1>6

-----------------------------------------------------------------------------
(* Weights are sums, in whatever order the fold takes the voters. *)

(* The element a fold takes out of a set next, and what one round of it computes. *)
Pick(s) == CHOOSE x \in s : TRUE
Round(g, s) == IF s = {} THEN 0 ELSE Weight[Pick(s)] + g[s \ {Pick(s)}]

(* g adds up the weights of the subsets of S. *)
Adds(g, S) == g = [s \in SUBSET S |-> Round(g, s)]

Sum(S) == CHOOSE g : Adds(g, S)

LEMMA WeightIsSum ==
    ASSUME NEW V
    PROVE  WeightOf(V) = Sum(V)[V]
    BY DEF WeightOf, MapThenSumSet, MapThenFoldSet, Sum, Adds, Round, Pick

LEMMA PickOne ==
    ASSUME NEW s, s # {}
    PROVE  Pick(s) \in s
    BY DEF Pick

(* Sets of voters are finite: those of a nonempty collection have a smallest one. *)
LEMMA SmallestSet ==
    ASSUME NEW C \in SUBSET (SUBSET Voter), C # {}
    PROVE  \E s \in C : \A x \in s : s \ {x} \notin C
<1> DEFINE T == {Cardinality(s) : s \in C}
<1>1. ASSUME NEW s \in SUBSET Voter PROVE IsFiniteSet(s) /\ Cardinality(s) \in Nat
    BY FS_Subset, FS_CardinalityType, AcceptanceAssumption
<1>2. T \in SUBSET Nat /\ T # {}
    BY <1>1
<1>3. PICK m \in T : \A n \in T : m <= n
    <2> HIDE DEF T
    <2> QED BY <1>2, LeastNumber
<1>4. PICK s \in C : Cardinality(s) = m
    BY <1>3
<1>5. ASSUME NEW x \in s, s \ {x} \in C PROVE FALSE
    <2>1. Cardinality(s \ {x}) = Cardinality(s) - 1
        BY <1>1, FS_RemoveElement
    <2>2. m <= Cardinality(s \ {x})
        BY <1>3, <1>5
    <2>3. m \in Nat
        BY <1>2
    <2> QED BY <1>4, <2>1, <2>2, <2>3
<1> QED
    BY <1>5

(* The subsets of S with at most n elements. *)
Small(S, n) == {s \in SUBSET S : Cardinality(s) <= n}

LEMMA SumExists ==
    ASSUME NEW S \in SUBSET Voter
    PROVE  \E g : Adds(g, S)
<1> DEFINE Partial(g, n) == g = [s \in Small(S, n) |-> Round(g, s)]
           Bad == {n \in Nat : ~ \E g : Partial(g, n)}
<1>1. ASSUME NEW s \in SUBSET S PROVE IsFiniteSet(s) /\ Cardinality(s) \in Nat
    BY FS_Subset, FS_CardinalityType, AcceptanceAssumption
<1>2. ASSUME Bad # {} PROVE FALSE
    <2>1. PICK n \in Bad : \A m \in Bad : n <= m
        <3>1. Bad \in SUBSET Nat
            OBVIOUS
        <3> HIDE DEF Bad
        <3> QED BY <1>2, <3>1, LeastNumber
    <2>2. n \in Nat
        OBVIOUS
    <2>3. n # 0
        <3> DEFINE g == [s \in Small(S, 0) |-> 0]
        <3>1. ASSUME NEW s \in Small(S, 0) PROVE s = {}
            <4>1. s \in SUBSET S /\ Cardinality(s) = 0
                BY <1>1 DEF Small
            <4> QED BY <1>1, <4>1, FS_EmptySet
        <3>2. g = [s \in Small(S, 0) |-> Round(g, s)]
            <4>1. ASSUME NEW s \in Small(S, 0) PROVE Round(g, s) = 0
                BY <3>1 DEF Round
            <4> HIDE DEF g
            <4> QED BY <4>1 DEF g
        <3>3. Partial(g, 0)
            BY <3>2
        <3> HIDE DEF g, Partial
        <3> QED BY <2>1, <3>3
    <2>4. n - 1 \in Nat /\ n - 1 \notin Bad
        BY <2>1, <2>2, <2>3
    <2>5. PICK g : Partial(g, n - 1)
        BY <2>4
    <2> DEFINE h == [s \in Small(S, n) |-> Round(g, s)]
    <2>6. ASSUME NEW s \in Small(S, n) PROVE s \in SUBSET S /\ (s # {} => s \ {Pick(s)} \in Small(S, n - 1))
        <3>1. s \in SUBSET S /\ Cardinality(s) <= n
            BY DEF Small
        <3>2. ASSUME s # {} PROVE Cardinality(s \ {Pick(s)}) = Cardinality(s) - 1
            BY <1>1, <3>1, <3>2, PickOne, FS_RemoveElement
        <3>3. Cardinality(s) \in Nat
            BY <1>1, <3>1
        <3> QED BY <2>2, <3>1, <3>2, <3>3 DEF Small
    <2>7. ASSUME NEW s \in Small(S, n - 1) PROVE s \in Small(S, n) /\ h[s] = g[s]
        <3>1. s \in Small(S, n)
            <4>1. s \in SUBSET S /\ Cardinality(s) <= n - 1 /\ Cardinality(s) \in Nat
                BY <1>1 DEF Small
            <4> QED BY <2>2, <4>1 DEF Small
        <3>2. g[s] = Round(g, s)
            BY <2>5
        <3> QED BY <3>1, <3>2
    <2>8. ASSUME NEW s \in Small(S, n) PROVE Round(h, s) = Round(g, s)
        <3>1. s # {} => h[s \ {Pick(s)}] = g[s \ {Pick(s)}]
            BY <2>6, <2>7
        <3> HIDE DEF h
        <3> QED BY <3>1 DEF Round
    <2>9. Partial(h, n)
        <3>1. h = [s \in Small(S, n) |-> Round(h, s)]
            <4> HIDE DEF h
            <4> QED BY <2>8 DEF h
        <3> QED BY <3>1
    <2> HIDE DEF h, Partial
    <2> QED BY <2>1, <2>9
<1>3. Small(S, Cardinality(S)) = SUBSET S
    BY FS_Subset, FS_CardinalityType, AcceptanceAssumption DEF Small
<1>4. Cardinality(S) \in Nat
    BY <1>1
<1>5. PICK g : Partial(g, Cardinality(S))
    BY <1>2, <1>4
<1>6. Adds(g, S)
    BY <1>3, <1>5 DEF Adds
<1> QED
    BY <1>6

LEMMA SumAdds ==
    ASSUME NEW S \in SUBSET Voter
    PROVE  Adds(Sum(S), S)
    BY SumExists DEF Sum

(* The sum over a set does not depend on the set it is a subset of. *)
LEMMA SumUnique ==
    ASSUME NEW S \in SUBSET Voter
    PROVE  \A s \in SUBSET S : Sum(S)[s] = Sum(Voter)[s]
<1> DEFINE C == {s \in SUBSET S : Sum(S)[s] # Sum(Voter)[s]}
<1>1. SUFFICES ASSUME C # {} PROVE FALSE
    OBVIOUS
<1>2. PICK s \in C : \A x \in s : s \ {x} \notin C
    <2>1. C \in SUBSET (SUBSET Voter)
        OBVIOUS
    <2> HIDE DEF C
    <2> QED BY <1>1, <2>1, SmallestSet
<1>3. s \in SUBSET S /\ s \in SUBSET Voter
    BY <1>2
<1>4. Sum(S)[s] = Round(Sum(S), s)
    BY <1>3, SumAdds DEF Adds
<1>5. Sum(Voter)[s] = Round(Sum(Voter), s)
    BY <1>3, SumAdds DEF Adds
<1>6. s # {} => Sum(S)[s \ {Pick(s)}] = Sum(Voter)[s \ {Pick(s)}]
    BY <1>2, <1>3, PickOne
<1>7. Round(Sum(S), s) = Round(Sum(Voter), s)
    BY <1>6 DEF Round
<1> QED
    BY <1>2, <1>4, <1>5, <1>7

LEMMA WeightRound ==
    ASSUME NEW V \in SUBSET Voter
    PROVE  WeightOf(V) = IF V = {} THEN 0 ELSE Weight[Pick(V)] + WeightOf(V \ {Pick(V)})
<1>1. ASSUME NEW U \in SUBSET Voter PROVE WeightOf(U) = Sum(Voter)[U]
    BY SumUnique, WeightIsSum
<1>2. Sum(Voter)[V] = Round(Sum(Voter), V)
    BY SumAdds DEF Adds
<1> QED
    BY <1>1, <1>2 DEF Round

LEMMA WeightNat ==
    ASSUME NEW V \in SUBSET Voter
    PROVE  WeightOf(V) \in Nat
<1> DEFINE C == {s \in SUBSET Voter : WeightOf(s) \notin Nat}
<1>1. SUFFICES ASSUME C # {} PROVE FALSE
    OBVIOUS
<1>2. PICK s \in C : \A x \in s : s \ {x} \notin C
    <2>1. C \in SUBSET (SUBSET Voter)
        OBVIOUS
    <2> HIDE DEF C
    <2> QED BY <1>1, <2>1, SmallestSet
<1>3. s # {} => Pick(s) \in s
    BY PickOne
<1>4. s # {} => Weight[Pick(s)] \in Nat /\ WeightOf(s \ {Pick(s)}) \in Nat
    BY <1>2, <1>3, AcceptanceAssumption
<1> QED
    BY <1>2, <1>4, WeightRound

(* Adding a voter, whichever voters the folds take out first. *)
LEMMA WeightAdd ==
    ASSUME NEW V \in SUBSET Voter, NEW v \in Voter, v \notin V
    PROVE  WeightOf(V \cup {v}) = WeightOf(V) + Weight[v]
<1> DEFINE C == {s \in SUBSET Voter : \E x \in Voter \ s : WeightOf(s \cup {x}) # WeightOf(s) + Weight[x]}
<1>1. SUFFICES ASSUME C # {} PROVE FALSE
    OBVIOUS
<1>2. PICK s \in C : \A x \in s : s \ {x} \notin C
    <2>1. C \in SUBSET (SUBSET Voter)
        OBVIOUS
    <2> HIDE DEF C
    <2> QED BY <1>1, <2>1, SmallestSet
<1>3. PICK x \in Voter \ s : WeightOf(s \cup {x}) # WeightOf(s) + Weight[x]
    BY <1>2
<1> DEFINE t == s \cup {x}
           y == Pick(t)
<1>4. s \in SUBSET Voter /\ t \in SUBSET Voter /\ t # {} /\ y \in t
    BY <1>2, PickOne
<1>5. WeightOf(t) = Weight[y] + WeightOf(t \ {y})
    BY <1>4, WeightRound
<1>6. Weight[x] \in Nat /\ WeightOf(s) \in Nat
    BY <1>4, WeightNat, AcceptanceAssumption
<1>7. CASE y = x
    <2>1. t \ {y} = s
        BY <1>7
    <2> HIDE DEF t, y
    <2>2. WeightOf(t) = WeightOf(s) + Weight[x]
        <3>1. WeightOf(t) = Weight[x] + WeightOf(s)
            BY <1>5, <1>7, <2>1, Zenon
        <3> QED BY <1>6, <3>1
    <2> QED BY <1>3, <2>2 DEF t
<1>8. CASE y # x
    <2> DEFINE u == s \ {y}
    <2>1. y \in s /\ y \in Voter
        BY <1>4, <1>8
    <2>2. u \in SUBSET Voter /\ u \notin C
        BY <1>2, <1>4, <2>1
    <2>3. t \ {y} = u \cup {x} /\ x \notin u /\ y \notin u /\ u \cup {y} = s
        BY <1>8, <2>1
    <2> HIDE DEF u, y, t
    <2>4. WeightOf(u \cup {x}) = WeightOf(u) + Weight[x] /\ WeightOf(u \cup {y}) = WeightOf(u) + Weight[y]
        BY <1>3, <2>1, <2>2, <2>3
    <2>5. Weight[y] \in Nat /\ WeightOf(u) \in Nat
        BY <2>1, <2>2, WeightNat, AcceptanceAssumption
    <2>6. WeightOf(t) = WeightOf(s) + Weight[x]
        BY <1>5, <1>6, <2>3, <2>4, <2>5
    <2> QED BY <1>3, <2>6 DEF t
<1> QED
    BY <1>7, <1>8

(* More voters have at least the weight. *)
LEMMA WeightMonotone ==
    ASSUME NEW U \in SUBSET Voter, NEW V \in SUBSET U
    PROVE  WeightOf(V) <= WeightOf(U)
<1> DEFINE C == {s \in SUBSET Voter : \E r \in SUBSET s : ~(WeightOf(r) <= WeightOf(s))}
<1>1. SUFFICES ASSUME C # {} PROVE FALSE
    OBVIOUS
<1>2. PICK s \in C : \A x \in s : s \ {x} \notin C
    <2>1. C \in SUBSET (SUBSET Voter)
        OBVIOUS
    <2> HIDE DEF C
    <2> QED BY <1>1, <2>1, SmallestSet
<1>3. PICK r \in SUBSET s : ~(WeightOf(r) <= WeightOf(s))
    BY <1>2
<1>4. s \in SUBSET Voter /\ WeightOf(r) \in Nat /\ WeightOf(s) \in Nat
    BY <1>2, WeightNat
<1>5. r # s
    BY <1>3, <1>4
<1>6. PICK x \in s : x \notin r
    BY <1>5
<1> DEFINE u == s \ {x}
<1>7. u \in SUBSET Voter /\ r \in SUBSET u /\ u \notin C
    BY <1>2, <1>4, <1>6
<1>8. u \cup {x} = s /\ x \notin u /\ x \in Voter
    BY <1>4, <1>6
<1>9. WeightOf(r) <= WeightOf(u)
    BY <1>7
<1> HIDE DEF u
<1>10. WeightOf(s) = WeightOf(u) + Weight[x] /\ WeightOf(u) \in Nat /\ Weight[x] \in Nat
    BY <1>7, <1>8, WeightAdd, WeightNat, AcceptanceAssumption
<1> QED
    BY <1>3, <1>4, <1>9, <1>10

(* Somebody has weight, so nobody is no quorum. *)
LEMMA QuorumFacts ==
    /\ ~IsQuorum({}) /\ ~ReachesThreshold(0)
    /\ \A V : ReachesThreshold(WeightOf(V)) <=> IsQuorum(V)
    /\ \A U \in SUBSET Voter : \A V \in SUBSET U : IsQuorum(V) => IsQuorum(U)
<1> DEFINE total == WeightOf(Voter)
<1>1. WeightOf({}) = 0
    BY WeightRound
<1>2. total \in Nat /\ total > 0
    <2>1. PICK v \in Voter : Weight[v] > 0
        BY AcceptanceAssumption
    <2>2. WeightOf({v}) = Weight[v]
        <3>1. WeightOf({} \cup {v}) = WeightOf({}) + Weight[v] /\ {} \cup {v} = {v} /\ Weight[v] \in Nat
            BY WeightAdd, AcceptanceAssumption
        <3> QED BY <1>1, <3>1
    <2>3. WeightOf({v}) <= total /\ total \in Nat /\ Weight[v] \in Nat
        BY WeightMonotone, WeightNat, AcceptanceAssumption
    <2> HIDE DEF total
    <2> QED BY <2>1, <2>2, <2>3
<1>3. ~ReachesThreshold(0)
    BY <1>2 DEF ReachesThreshold, AcceptanceThreshold
<1>4. \A V : ReachesThreshold(WeightOf(V)) <=> IsQuorum(V)
    BY DEF ReachesThreshold, IsQuorum
<1>5. ASSUME NEW U \in SUBSET Voter, NEW V \in SUBSET U, IsQuorum(V) PROVE IsQuorum(U)
    <2>1. WeightOf(V) \in Nat /\ WeightOf(U) \in Nat /\ WeightOf(V) <= WeightOf(U)
        BY WeightNat, WeightMonotone
    <2>2. 100 * WeightOf(V) >= AcceptanceThreshold * total
        BY <1>5 DEF IsQuorum
    <2>3. AcceptanceThreshold * total \in Nat
        BY <1>2 DEF AcceptanceThreshold
    <2> HIDE DEF total
    <2>4. 100 * WeightOf(U) >= AcceptanceThreshold * total
        BY <2>1, <2>2, <2>3
    <2> QED BY <2>4 DEF IsQuorum, total
<1> QED
    BY <1>1, <1>3, <1>4, <1>5

-----------------------------------------------------------------------------
(* The votes of one voter in one sequence, in whatever order they arrive. *)

(* The vote with the lowest index from i on, if there is a vote from i on. *)
LEMMA CeilingExists ==
    ASSUME NEW V \in SUBSET (MarkerIndex \X Nat), NEW i \in Nat, NEW e \in V, e[1] >= i
    PROVE  \E c \in Ceiling(V, i) : c[1] <= e[1]
<1> DEFINE T == {f[1] : f \in {x \in V : x[1] >= i}}
<1>1. T \in SUBSET Nat /\ e[1] \in T
    BY DEF MarkerIndex
<1>2. PICK t \in T : \A n \in T : t <= n
    <2> HIDE DEF T
    <2> QED BY <1>1, LeastNumber
<1>3. PICK c \in V : c[1] >= i /\ c[1] = t
    BY <1>2
<1>4. \A f \in V : f[1] >= i => c[1] <= f[1]
    BY <1>2, <1>3
<1> QED
    BY <1>1, <1>2, <1>3, <1>4 DEF Ceiling

(* Store of a vote that is not refused. *)
LEMMA StoredVote ==
    ASSUME NEW V \in SUBSET (MarkerIndex \X Nat), NEW C \in SUBSET (MarkerIndex \X Nat),
           V \subseteq C, Falling(V), Dominates(V, C),
           NEW i \in MarkerIndex, NEW p \in Nat, ~Refused(V, i, p)
    PROVE  LET W == Pruned(V, i, p) \cup {<<i, p>>}
               D == C \cup {<<i, p>>}
           IN  W \subseteq D /\ Falling(W) /\ Dominates(W, D)
<1> DEFINE W == Pruned(V, i, p) \cup {<<i, p>>}
           D == C \cup {<<i, p>>}
<1>1. \A e \in V : e[1] \in Nat /\ e[2] \in Nat
    BY DEF MarkerIndex
<1>2. Pruned(V, i, p) \subseteq V
    BY DEF Pruned
<1>3. i \in Nat
    BY DEF MarkerIndex
(* A vote from i on has no more power. *)
<1>4. ASSUME NEW e \in V, e[1] >= i PROVE e[2] <= p
    <2>1. PICK c \in Ceiling(V, i) : c[1] <= e[1]
        BY <1>3, <1>4, CeilingExists
    <2>2. c \in V /\ ~(p < c[2])
        BY <2>1 DEF Ceiling, Refused
    <2>3. e[2] <= c[2]
        BY <1>1, <2>1, <2>2 DEF Falling
    <2> QED BY <1>1, <2>2, <2>3
(* A vote that is kept below i has at least as much. *)
<1>5. ASSUME NEW e \in Pruned(V, i, p), e[1] <= i PROVE e[1] < i /\ e[2] >= p
    <2>1. PICK f \in V : f[1] < i /\ f[1] >= e[1] /\ f[2] >= p
        BY <1>1, <1>2, <1>3, <1>5 DEF Pruned
    <2>2. e[2] >= f[2]
        BY <1>1, <1>2, <2>1 DEF Falling
    <2>3. e \in V
        BY <1>2
    <2> QED BY <1>1, <1>3, <2>1, <2>2, <2>3
<1>6. W \subseteq D
    BY <1>2
<1>7. Falling(W)
    <2>1. SUFFICES ASSUME NEW e \in W, NEW f \in W
                   PROVE  (e[1] = f[1] => e = f) /\ (e[1] < f[1] => e[2] >= f[2])
        BY DEF Falling
    <2>2. CASE e \in Pruned(V, i, p) /\ f \in Pruned(V, i, p)
        BY <1>2, <2>2 DEF Falling
    <2>3. CASE e = <<i, p>> /\ f = <<i, p>>
        BY <1>3, <2>3
    <2>4. CASE e \in Pruned(V, i, p) /\ f = <<i, p>>
        BY <1>1, <1>2, <1>3, <1>5, <2>4
    <2>5. CASE e = <<i, p>> /\ f \in Pruned(V, i, p)
        BY <1>1, <1>2, <1>3, <1>4, <1>5, <2>5
    <2> QED BY <2>2, <2>3, <2>4, <2>5
<1>8. Dominates(W, D)
    <2>1. SUFFICES ASSUME NEW c \in D PROVE \E e \in W : e[1] >= c[1] /\ e[2] >= c[2]
        BY DEF Dominates
    <2>2. CASE c = <<i, p>>
        BY <1>3, <2>2
    <2>3. CASE c \in C
        <3>1. PICK e \in V : e[1] >= c[1] /\ e[2] >= c[2]
            BY <2>3 DEF Dominates
        <3>2. CASE e \in Pruned(V, i, p)
            BY <3>1, <3>2
        <3>3. CASE e \notin Pruned(V, i, p)
            <4>1. e[1] <= i /\ (e[1] < i => e[2] < p)
                BY <1>1, <1>3, <3>3 DEF Pruned
            <4>2. e[2] <= p
                BY <1>1, <1>3, <1>4, <4>1
            <4>3. c[1] \in Nat /\ c[2] \in Nat
                BY <2>3 DEF MarkerIndex
            <4>4. i >= c[1] /\ p >= c[2]
                BY <1>1, <1>3, <3>1, <4>1, <4>2, <4>3
            <4>5. <<i, p>> \in W
                OBVIOUS
            <4>6. <<i, p>>[1] >= c[1] /\ <<i, p>>[2] >= c[2]
                BY <4>4
            <4> HIDE DEF W
            <4> QED BY <4>5, <4>6
        <3> QED BY <3>2, <3>3
    <2> QED BY <2>2, <2>3
<1> QED
    BY <1>6, <1>7, <1>8

(* A vote that is refused. *)
LEMMA RefusedVote ==
    ASSUME NEW V \in SUBSET (MarkerIndex \X Nat), NEW C \in SUBSET (MarkerIndex \X Nat),
           Dominates(V, C), NEW i \in MarkerIndex, NEW p \in Nat, Refused(V, i, p)
    PROVE  Dominates(V, C \cup {<<i, p>>})
<1>1. PICK e \in V : e[1] >= i /\ p < e[2]
    BY DEF Refused, Ceiling
<1>2. \A f \in V : f[1] \in Nat /\ f[2] \in Nat
    BY DEF MarkerIndex
<1> QED
    BY <1>1, <1>2 DEF Dominates

(* The powers of the votes of C for i or a later index. *)
Powers(C, i) == {e[2] : e \in {x \in C : x[1] >= i}}

(* The vote kept for an index is the strongest one that was cast for it or a later one. *)
LEMMA KeptIsStrongest ==
    ASSUME NEW V \in SUBSET (MarkerIndex \X Nat), NEW C \in SUBSET (MarkerIndex \X Nat),
           V \subseteq C, Falling(V), Dominates(V, C), NEW i \in Nat
    PROVE  {e[2] : e \in Ceiling(V, i)} = IF Powers(C, i) = {} THEN {} ELSE {Max(Powers(C, i))}
<1> DEFINE powers == Powers(C, i)
<1>0. powers = {e[2] : e \in {x \in C : x[1] >= i}}
    BY DEF Powers
<1>1. \A e \in C : e[1] \in Nat /\ e[2] \in Nat
    BY DEF MarkerIndex
<1>2. ASSUME NEW c \in Ceiling(V, i)
      PROVE  c \in V /\ c[2] \in powers /\ (\A f \in V : f[1] >= i => c[2] >= f[2])
    <2>1. c \in V /\ c[1] >= i /\ \A f \in V : f[1] >= i => c[1] <= f[1]
        BY DEF Ceiling
    <2>2. c \in C
        BY <2>1
    <2>3. ASSUME NEW f \in V, f[1] >= i PROVE c[2] >= f[2]
        <3>1. c[1] <= f[1] /\ f \in C
            BY <2>1, <2>3
        <3>2. CASE c[1] = f[1]
            BY <1>1, <2>1, <2>2, <3>1, <3>2 DEF Falling
        <3>3. CASE c[1] < f[1]
            BY <2>1, <3>3 DEF Falling
        <3> QED BY <1>1, <2>2, <3>1, <3>2, <3>3
    <2> QED BY <1>0, <2>1, <2>2, <2>3
<1>3. ASSUME NEW c \in Ceiling(V, i) PROVE \A n \in powers : c[2] >= n
    <2>1. SUFFICES ASSUME NEW d \in C, d[1] >= i PROVE c[2] >= d[2]
        BY <1>0
    <2>2. PICK e \in V : e[1] >= d[1] /\ e[2] >= d[2]
        BY DEF Dominates
    <2>3. e \in C /\ c \in C
        BY <1>2, <2>2
    <2>4. c[2] >= e[2]
        BY <1>1, <1>2, <2>1, <2>2, <2>3
    <2> QED BY <1>1, <2>2, <2>3, <2>4
<1>4. \A n \in powers : n \in Nat
    BY <1>0, <1>1
<1>5. ASSUME NEW c \in Ceiling(V, i) PROVE c[2] = Max(powers)
    <2> HIDE DEF powers
    <2>1. Max(powers) \in powers /\ \A n \in powers : Max(powers) >= n
        BY <1>2, <1>3 DEF Max
    <2> QED BY <1>2, <1>3, <1>4, <2>1
<1>6. ASSUME powers # {} PROVE Ceiling(V, i) # {}
    <2>1. PICK d \in C : d[1] >= i
        BY <1>0, <1>6
    <2>2. PICK e \in V : e[1] >= d[1]
        BY DEF Dominates
    <2>3. e[1] >= i
        BY <1>1, <2>1, <2>2
    <2> QED BY <2>3, CeilingExists
<1>7. ASSUME powers = {} PROVE Ceiling(V, i) = {}
    BY <1>2, <1>7
<1> HIDE DEF powers
<1>8. CASE powers = {}
    BY <1>7, <1>8 DEF powers
<1>9. CASE powers # {}
    <2>1. {e[2] : e \in Ceiling(V, i)} = {Max(powers)}
        BY <1>5, <1>6, <1>9
    <2> QED BY <1>9, <2>1 DEF powers
<1> QED
    BY <1>8, <1>9

-----------------------------------------------------------------------------
(* Past cones. *)

(* The blocks that are in every set that holds b and the strong parents of its elements. *)
Reached(b) ==
    {x \in Block : \A S \in SUBSET Block : (b \in S /\ \A y \in S : StrongParents[y] \subseteq S) => x \in S}

LEMMA ReachedUnfolds ==
    ASSUME NEW b \in Block
    PROVE  Reached(b) = {b} \cup UNION {Reached(p) : p \in StrongParents[b]}
<1> DEFINE T == {b} \cup UNION {Reached(p) : p \in StrongParents[b]}
<1>1. \A y \in Block : StrongParents[y] \subseteq Block
    BY MarkersAssumption
<1>2. ASSUME NEW x \in T PROVE x \in Reached(b)
    <2>1. CASE x = b
        BY <2>1 DEF Reached
    <2>2. CASE x # b
        <3>1. PICK p \in StrongParents[b] : x \in Reached(p)
            BY <2>2
        <3>2. ASSUME NEW S \in SUBSET Block, b \in S, \A y \in S : StrongParents[y] \subseteq S
              PROVE  x \in S
            <4>1. p \in S
                BY <3>2
            <4> QED BY <3>1, <3>2, <4>1 DEF Reached
        <3>3. x \in Block
            BY <3>1 DEF Reached
        <3> HIDE DEF T
        <3> QED BY <3>2, <3>3 DEF Reached
    <2> QED BY <2>1, <2>2
<1>3. ASSUME NEW x \in Reached(b) PROVE x \in T
    <2>1. T \in SUBSET Block
        BY DEF Reached
    <2>2. ASSUME NEW y \in T, NEW z \in StrongParents[y] PROVE z \in T
        <3>1. CASE y = b
            <4>1. z \in Reached(z)
                BY <1>1, <3>1 DEF Reached
            <4>2. z \in StrongParents[b]
                BY <2>2, <3>1
            <4> QED BY <4>1, <4>2
        <3>2. CASE y # b
            <4>1. PICK p \in StrongParents[b] : y \in Reached(p)
                BY <3>2
            <4>2. y \in Block /\ z \in Block
                BY <1>1, <2>1, <2>2
            <4>3. z \in Reached(p)
                BY <2>2, <4>1, <4>2 DEF Reached
            <4> QED BY <4>3
        <3> QED BY <3>1, <3>2
    <2>3. b \in T
        OBVIOUS
    <2> HIDE DEF T
    <2> QED BY <1>3, <2>1, <2>2, <2>3 DEF Reached
<1> QED
    BY <1>2, <1>3

(* The past cone of a block holds the block and the past cones of its strong parents. *)
LEMMA PastConeUnfolds ==
    ASSUME NEW b \in Block
    PROVE  PastCone[b] = {b} \cup UNION {PastCone[p] : p \in StrongParents[b]}
<1> DEFINE R == [x \in Block |-> Reached(x)]
           Cone(f) == f = [x \in Block |-> {x} \cup UNION {f[p] : p \in StrongParents[x]}]
<1>1. ASSUME NEW x \in Block PROVE R[x] = {x} \cup UNION {R[p] : p \in StrongParents[x]}
    <2>1. \A p \in StrongParents[x] : R[p] = Reached(p)
        BY MarkersAssumption
    <2>2. UNION {R[p] : p \in StrongParents[x]} = UNION {Reached(p) : p \in StrongParents[x]}
        <3> HIDE DEF R
        <3> QED BY <2>1
    <2>3. R[x] = Reached(x)
        OBVIOUS
    <2> HIDE DEF R
    <2> QED BY <2>2, <2>3, ReachedUnfolds
<1>2. Cone(R)
    <2> HIDE DEF R
    <2>1. R = [x \in Block |-> R[x]]
        BY DEF R
    <2> QED BY <1>1, <2>1
<1>3. PastCone = CHOOSE f : Cone(f)
    BY DEF PastCone
<1>4. Cone(PastCone)
    <2> HIDE DEF R, Cone
    <2> QED BY <1>2, <1>3
<1> QED
    BY <1>4

(* When the workers are done, there is nothing left to visit. *)
LEMMA WalksAreDone == AcceptanceInv => PastConeAccepted
<1>1. SUFFICES ASSUME AcceptanceInv, QuietAcceptance
      PROVE  /\ \A s \in DOMAIN sequences : lastConfirmed[s] > 0 =>
                    BlockID(<<s, lastConfirmed[s]>>) \cap accepted # {}
             /\ \A b \in accepted : \A x \in PastCone[b] \ accepted :
                    \E y \in AcceptedWeakly : x \in PastCone[y]
    BY DEF PastConeAccepted
<1>2. \A S : ~Queued(S)
    BY <1>1 DEF Queued, QuietAcceptance, AcceptanceInv, WalksSound
<1>3. ASSUME NEW s \in DOMAIN sequences, lastConfirmed[s] > 0
      PROVE  BlockID(<<s, lastConfirmed[s]>>) \cap accepted # {}
    BY <1>1, <1>2, <1>3 DEF AcceptanceInv, AcceptanceTypeOK, MarkersTypeOK, WalksComplete
<1> DEFINE C == {b \in accepted : \E x \in PastCone[b] \ accepted : \A y \in AcceptedWeakly : x \notin PastCone[y]}
<1>4. accepted \subseteq Block
    BY <1>1 DEF AcceptanceInv, AcceptanceTypeOK
<1>5. ASSUME C # {} PROVE FALSE
    <2>1. PICK b \in C : StrongParents[b] \cap C = {}
        <3>1. C \in SUBSET Block /\ C # {}
            BY <1>4, <1>5
        <3> HIDE DEF C
        <3> QED BY <3>1, MarkersAssumption
    <2>2. PICK x \in PastCone[b] \ accepted : \A y \in AcceptedWeakly : x \notin PastCone[y]
        OBVIOUS
    <2>3. b \in accepted \ AcceptedWeakly
        BY <2>2
    <2>4. StrongParents[b] \subseteq accepted
        BY <1>1, <1>2, <2>3 DEF AcceptanceInv, WalksComplete
    <2>5. PICK p \in StrongParents[b] : x \in PastCone[p]
        BY <1>4, <2>2, <2>3, PastConeUnfolds
    <2>6. p \in C
        BY <2>2, <2>4, <2>5
    <2> QED BY <2>1, <2>5, <2>6
<1> QED
    BY <1>3, <1>5

-----------------------------------------------------------------------------
(* The votes on markers. *)

LEMMA VotesTyped ==
    ASSUME AcceptanceTypeOK, NEW s \in SequenceIDs, NEW v \in Voter
    PROVE  votes[s][v] \in SUBSET (MarkerIndex \X Nat) /\ Cast(s, v) \in SUBSET (MarkerIndex \X Nat)
    BY DEF AcceptanceTypeOK, Cast

LEMMA VotesOrdered == AcceptanceInv => VotesInAnyOrder
<1>1. SUFFICES ASSUME AcceptanceInv, NEW s \in DOMAIN sequences, NEW v \in Voter,
                      NEW i \in 1 .. sequences[s].highestIndex
      PROVE  LET powers == {e[4] : e \in {x \in cast : x[1] = s /\ x[2] = v /\ x[3] >= i}} IN
             {e[2] : e \in Ceiling(votes[s][v], i)} = IF powers = {} THEN {} ELSE {Max(powers)}
    BY DEF VotesInAnyOrder
<1>2. s \in SequenceIDs /\ i \in Nat
    BY <1>1 DEF AcceptanceInv, AcceptanceTypeOK, MarkersTypeOK
<1> DEFINE powers == {e[4] : e \in {x \in cast : x[1] = s /\ x[2] = v /\ x[3] >= i}}
           strong == Powers(Cast(s, v), i)
<1>3. powers = strong
    <2>1. ASSUME NEW x \in cast, x[1] = s, x[2] = v, x[3] >= i PROVE x[4] \in strong
        <3>1. <<x[3], x[4]>> \in Cast(s, v)
            BY <2>1 DEF Cast
        <3> QED BY <2>1, <3>1 DEF Powers
    <2>2. ASSUME NEW c \in Cast(s, v), c[1] >= i PROVE c[2] \in powers
        BY <2>2 DEF Cast
    <2> QED BY <2>1, <2>2 DEF Powers
<1>4. /\ votes[s][v] \in SUBSET (MarkerIndex \X Nat) /\ Cast(s, v) \in SUBSET (MarkerIndex \X Nat)
      /\ votes[s][v] \subseteq Cast(s, v) /\ Falling(votes[s][v]) /\ Dominates(votes[s][v], Cast(s, v))
    BY <1>1, <1>2, VotesTyped DEF AcceptanceInv, VotesKept
<1>5. {e[2] : e \in Ceiling(votes[s][v], i)} = IF strong = {} THEN {} ELSE {Max(strong)}
    BY <1>2, <1>4, KeptIsStrongest
<1> HIDE DEF powers, strong
<1>6. {e[2] : e \in Ceiling(votes[s][v], i)} = IF powers = {} THEN {} ELSE {Max(powers)}
    BY <1>3, <1>5
<1> QED
    BY <1>6 DEF powers

-----------------------------------------------------------------------------
(* The markers of a block. *)

LEMMA BookedCounted ==
    ASSUME booked \in SUBSET Block
    PROVE  /\ Cardinality(booked) \in Nat /\ Cardinality(Block) \in Nat
           /\ Cardinality(booked) <= Cardinality(Block)
           /\ \A b \in Block \ booked : /\ Cardinality(booked \cup {b}) = Cardinality(booked) + 1
                                        /\ Cardinality(booked) + 1 <= Cardinality(Block)
<1>1. IsFiniteSet(Block) /\ Cardinality(Block) \in Nat
    BY FS_CardinalityType, MarkersAssumption
<1>2. IsFiniteSet(booked) /\ Cardinality(booked) \in Nat /\ Cardinality(booked) <= Cardinality(Block)
    BY <1>1, FS_Subset, FS_CardinalityType
<1>3. ASSUME NEW b \in Block \ booked
      PROVE  /\ Cardinality(booked \cup {b}) = Cardinality(booked) + 1
             /\ Cardinality(booked) + 1 <= Cardinality(Block)
    <2>1. Cardinality(booked \cup {b}) = Cardinality(booked) + 1
        BY <1>2, FS_AddElement
    <2>2. Cardinality(booked \cup {b}) <= Cardinality(Block)
        <3>1. booked \cup {b} \in SUBSET Block
            OBVIOUS
        <3> QED BY <1>1, <3>1, FS_Subset
    <2> QED BY <2>1, <2>2
<1> QED
    BY <1>1, <1>2, <1>3

(* The markers of the sequences have an index for every booked block at most. *)
LEMMA KnownMarkersBounded ==
    ASSUME AcceptanceInv
    PROVE  /\ KnownMarkers \subseteq Marker
           /\ \A m \in KnownMarkers : m[2] \in 0 .. Cardinality(booked)
           /\ <<0, 0>> \in KnownMarkers
           /\ DOMAIN sequences \subseteq SequenceIDs
           /\ \A s \in DOMAIN sequences : sequences[s] \in Sequence
<1>1. /\ Cardinality(booked) \in Nat /\ Cardinality(Block) \in Nat
      /\ Cardinality(booked) <= Cardinality(Block)
    BY BookedCounted DEF AcceptanceInv, AcceptanceTypeOK
<1>2. DOMAIN sequences \subseteq SequenceIDs /\ \A s \in DOMAIN sequences : sequences[s] \in Sequence
    BY DEF AcceptanceInv, AcceptanceTypeOK, MarkersTypeOK
<1>3. ASSUME NEW m \in KnownMarkers PROVE m \in Marker /\ m[2] \in 0 .. Cardinality(booked)
    <2>1. /\ m \in SequenceIDs \X Nat /\ m[1] \in DOMAIN sequences
          /\ m[2] <= sequences[m[1]].highestIndex
          /\ sequences[m[1]].highestIndex <= Cardinality(booked)
        BY <1>2 DEF KnownMarkers, AcceptanceInv, MarkersKnown, Sequence
    <2>2. sequences[m[1]].highestIndex \in Nat /\ m[2] \in Nat
        BY <1>2, <2>1 DEF Sequence
    <2>3. m[2] \in 0 .. Cardinality(booked) /\ m[2] \in MarkerIndex
        BY <1>1, <2>1, <2>2 DEF MarkerIndex
    <2> QED BY <2>1, <2>3 DEF Marker
<1>4. <<0, 0>> \in KnownMarkers
    <2>1. 0 \in DOMAIN sequences /\ sequences[0].lowestIndex = 0
        BY <1>1 DEF AcceptanceInv, MarkersKnown
    <2>2. sequences[0].highestIndex \in Nat
        BY <1>2, <2>1 DEF Sequence
    <2> QED BY <1>2, <2>1, <2>2 DEF KnownMarkers
<1> QED
    BY <1>2, <1>3, <1>4

(* What a block inherits from its parents. *)
LEMMA MergedFromParents ==
    ASSUME AcceptanceInv, NEW b \in Block
    PROVE  /\ MergedDetails(b) \in StructureDetails /\ ~MergedDetails(b).isPastMarker
           /\ MergedDetails(b).pastMarkers \subseteq KnownMarkers
           /\ \A m \in MergedDetails(b).pastMarkers :
                    m = <<0, 0>> \/ \E p \in StrongParents[b] : m \in details[p].pastMarkers
<1> DEFINE parents == IF StrongParents[b] = {} THEN {NoMarkers} ELSE {details[p] : p \in StrongParents[b]}
           past == NormalizeMarkers(Merge(UNION {d.pastMarkers : d \in parents}))
           gaps == {d.pastMarkerGap : d \in parents}
<1>1. NoMarkers \in StructureDetails /\ NoMarkers.pastMarkers = {}
    BY DEF NoMarkers, StructureDetails
<1>2. StrongParents[b] \subseteq Block
    BY MarkersAssumption
<1>3. \A d \in parents : d \in StructureDetails /\ d.pastMarkers \subseteq KnownMarkers
    BY <1>1, <1>2 DEF AcceptanceInv, AcceptanceTypeOK, MarkersTypeOK, MarkersKnown
<1>4. parents # {}
    OBVIOUS
<1>11. \A d \in parents : d.pastMarkers = {} \/ \E p \in StrongParents[b] : d = details[p]
    BY <1>1
<1> HIDE DEF parents
<1>5. gaps \in SUBSET Nat /\ gaps # {}
    BY <1>3, <1>4 DEF StructureDetails
<1>6. Min(gaps) \in Nat
    <2> HIDE DEF gaps
    <2> QED BY <1>5, MinOfNumbers
<1>7. past \subseteq KnownMarkers
    BY <1>3 DEF NormalizeMarkers, Merge
<1>12. \A m \in past : \E p \in StrongParents[b] : m \in details[p].pastMarkers
    BY <1>11 DEF NormalizeMarkers, Merge
<1> DEFINE kept == IF past = {} THEN {<<0, 0>>} ELSE past
<1>8. kept \subseteq KnownMarkers /\ kept \subseteq Marker
    <2> HIDE DEF past
    <2> QED BY <1>7, KnownMarkersBounded
<1>13. \A m \in kept : m = <<0, 0>> \/ \E p \in StrongParents[b] : m \in details[p].pastMarkers
    <2> HIDE DEF past
    <2> QED BY <1>12
<1>9. MergedDetails(b) = [NoMarkers EXCEPT !.pastMarkers = kept, !.pastMarkerGap = Min(gaps) + 1]
    BY DEF MergedDetails, parents
<1> HIDE DEF kept, gaps
<1>10. MergedDetails(b) = [pastMarkers |-> kept, pastMarkerGap |-> Min(gaps) + 1, isPastMarker |-> FALSE]
    BY <1>9 DEF NoMarkers
<1> QED
    BY <1>6, <1>8, <1>10, <1>13 DEF StructureDetails

(* An index of a sequence that can be extended, or of the next sequence. *)
NextMarker(m) ==
    /\ m \in SequenceIDs \X (1 .. Cardinality(booked) + 1)
    /\ IF m[1] \in DOMAIN sequences THEN sequences[m[1]].highestIndex < m[2]
                                    ELSE DOMAIN sequences = 0 .. (m[1] - 1) /\ m[1] <= Cardinality(booked) + 1

LEMMA HighestIndexOfMarkers ==
    ASSUME NEW n \in Nat, NEW ms, \A m \in ms : m[2] \in 0 .. n
    PROVE  HighestIndex(ms) \in 0 .. n /\ \A m \in ms : m[2] <= HighestIndex(ms)
<1> DEFINE T == {0} \cup {m[2] : m \in ms}
<1>1. T \in SUBSET (0 .. n) /\ T # {} /\ HighestIndex(ms) = Max(T)
    BY DEF HighestIndex
<1>2. \A m \in ms : m[2] \in T
    OBVIOUS
<1> HIDE DEF T
<1>3. Max(T) \in T /\ \A x \in T : x <= Max(T)
    BY <1>1, MaxOfNumbers
<1> QED
    BY <1>1, <1>2, <1>3

(* A sequence is extended by a block that has its last marker in the past. *)
EndsSequence(m, past) == m[1] \in DOMAIN sequences => <<m[1], sequences[m[1]].highestIndex>> \in past

LEMMA AssignedIsNext ==
    ASSUME AcceptanceInv, booked # Block,
           NEW d \in StructureDetails, d.pastMarkers \subseteq KnownMarkers
    PROVE  \/ AssignedMarker(d) = {}
           \/ \E m : AssignedMarker(d) = {m} /\ NextMarker(m) /\ EndsSequence(m, d.pastMarkers)
<1> DEFINE P == d.pastMarkers
           new == HighestIndex(P) + 1
           ext == Extendable(P)
           ids == {m[1] : m \in ext}
<1>0. booked \in SUBSET Block
    BY DEF AcceptanceInv, AcceptanceTypeOK
<1>1. /\ Cardinality(booked) \in Nat /\ Cardinality(Block) \in Nat
      /\ Cardinality(booked) + 1 <= Cardinality(Block)
    BY <1>0, BookedCounted
<1>2. HighestIndex(P) \in 0 .. Cardinality(booked) /\ \A m \in P : m[2] <= HighestIndex(P)
    BY <1>1, HighestIndexOfMarkers, KnownMarkersBounded
<1>3. new \in 1 .. Cardinality(booked) + 1
    BY <1>1, <1>2
<1>4. CASE ext # {}
    <2>1. \A m \in ext : /\ m \in P /\ m[1] \in DOMAIN sequences /\ m[1] \in SequenceIDs
                         /\ m[2] \in Nat /\ sequences[m[1]].highestIndex = m[2] /\ m = <<m[1], m[2]>>
        BY DEF Extendable, KnownMarkers
    <2>2. ids \in SUBSET (0 .. Cardinality(Block)) /\ ids # {}
        BY <1>4, <2>1 DEF SequenceIDs
    <2>3. Max(ids) \in ids
        <3> HIDE DEF ids
        <3> QED BY <1>1, <2>2, MaxOfNumbers
    <2>4. PICK m \in ext : m[1] = Max(ids)
        BY <2>3
    <2>5. AssignedMarker(d) = {<<Max(ids), new>>}
        BY <1>4 DEF AssignedMarker
    <2> HIDE DEF ids, ext, P, new
    <2>6. sequences[Max(ids)].highestIndex < new
        BY <1>2, <2>1, <2>4 DEF new
    <2>7. NextMarker(<<Max(ids), new>>)
        BY <1>3, <2>1, <2>4, <2>6 DEF NextMarker
    <2>8. EndsSequence(<<Max(ids), new>>, P)
        BY <2>1, <2>4 DEF EndsSequence
    <2> QED BY <2>5, <2>7, <2>8 DEF P
<1>5. CASE ext = {} /\ d.pastMarkerGap >= MaxPastMarkerDistance
    <2>1. PICK k \in 0 .. Cardinality(booked) : DOMAIN sequences = 0 .. k
        BY DEF AcceptanceInv, MarkersKnown
    <2>2. Cardinality(DOMAIN sequences) = k + 1
        BY <1>1, <2>1, FS_Interval
    <2>3. AssignedMarker(d) = {<<k + 1, new>>}
        BY <1>5, <2>2 DEF AssignedMarker
    <2>4. k + 1 \notin DOMAIN sequences /\ k + 1 \in SequenceIDs
        BY <1>1, <2>1 DEF SequenceIDs
    <2> HIDE DEF ext, P, new
    <2>5. NextMarker(<<k + 1, new>>)
        BY <1>1, <1>3, <2>1, <2>4 DEF NextMarker
    <2>6. EndsSequence(<<k + 1, new>>, P)
        BY <2>4 DEF EndsSequence
    <2> QED BY <2>3, <2>5, <2>6 DEF P
<1>6. CASE ext = {} /\ ~(d.pastMarkerGap >= MaxPastMarkerDistance)
    BY <1>6 DEF AssignedMarker
<1> QED
    BY <1>4, <1>5, <1>6

(* The sequences after a block has become marker m; what an index references was known before. *)
Extended(m) ==
    /\ DOMAIN sequences' = DOMAIN sequences \cup {m[1]}
    /\ \A s \in DOMAIN sequences' : /\ sequences'[s] \in Sequence
                                    /\ sequences'[s].referenced \subseteq Nat \X KnownMarkers
    /\ \A s \in DOMAIN sequences :
            /\ sequences'[s].lowestIndex = sequences[s].lowestIndex
            /\ sequences'[s].highestIndex = IF s = m[1] THEN m[2] ELSE sequences[s].highestIndex
    /\ m[1] \notin DOMAIN sequences => /\ sequences'[m[1]].lowestIndex = m[2]
                                       /\ sequences'[m[1]].highestIndex = m[2]

(* What is referenced after that: the other markers of the block's past, from its index on. *)
References(m, past) ==
    \A s \in DOMAIN sequences' : \A e \in sequences'[s].referenced :
        \/ s \in DOMAIN sequences /\ e \in sequences[s].referenced
        \/ s = m[1] /\ e[1] = m[2] /\ e[2] \in past

LEMMA SequencesExtended ==
    ASSUME AcceptanceInv, NEW m, NextMarker(m), NEW P \in SUBSET KnownMarkers,
           sequences' = WithMarker(m, P)
    PROVE  Extended(m) /\ References(m, P)
<1> DEFINE others == {<<m[2], n>> : n \in {x \in P : x[1] # m[1]}}
<1>1. m[1] \in SequenceIDs /\ m[2] \in Nat
    <2>1. m[2] \in 1 .. Cardinality(booked) + 1 /\ Cardinality(booked) \in Nat
        BY BookedCounted DEF NextMarker, AcceptanceInv, AcceptanceTypeOK
    <2> QED BY <2>1 DEF NextMarker
<1>2. others \subseteq Nat \X KnownMarkers /\ others \subseteq Nat \X Marker
    BY <1>1, KnownMarkersBounded
<1>3. /\ \A s \in DOMAIN sequences : /\ sequences[s] \in Sequence
                                     /\ sequences[s].referenced \subseteq Nat \X KnownMarkers
    BY KnownMarkersBounded DEF AcceptanceInv, MarkersKnown
<1>6. \A e \in others : e[1] = m[2] /\ e[2] \in P
    OBVIOUS
<1>4. CASE m[1] \in DOMAIN sequences
    <2>1. sequences' = [sequences EXCEPT ![m[1]].highestIndex = m[2], ![m[1]].referenced = @ \cup others]
        BY <1>4 DEF WithMarker
    <2> HIDE DEF others
    <2>2. DOMAIN sequences' = DOMAIN sequences
        BY <2>1
    <2>3. ASSUME NEW s \in DOMAIN sequences, s # m[1] PROVE sequences'[s] = sequences[s]
        BY <2>1, <2>3
    <2> DEFINE old == sequences[m[1]]
               r == [old EXCEPT !.highestIndex = m[2], !.referenced = old.referenced \cup others]
    <2>4. sequences'[m[1]] = r
        BY <1>3, <1>4, <2>1 DEF Sequence
    <2>5. /\ sequences'[m[1]] \in Sequence
          /\ sequences'[m[1]].lowestIndex = sequences[m[1]].lowestIndex
          /\ sequences'[m[1]].highestIndex = m[2]
          /\ sequences'[m[1]].referenced = sequences[m[1]].referenced \cup others
        <3>1. old \in Sequence
            BY <1>3, <1>4
        <3> HIDE DEF old
        <3>2. r \in Sequence /\ r.lowestIndex = old.lowestIndex /\ r.highestIndex = m[2]
              /\ r.referenced = old.referenced \cup others
            BY <1>1, <1>2, <3>1 DEF Sequence
        <3> QED BY <2>4, <3>2 DEF old
    <2>6. sequences'[m[1]].referenced \subseteq Nat \X KnownMarkers
        BY <1>2, <1>3, <1>4, <2>5
    <2>7. DOMAIN sequences' = DOMAIN sequences \cup {m[1]}
        BY <1>4, <2>2
    <2>8. References(m, P)
        BY <1>6, <2>2, <2>3, <2>5 DEF References
    <2> QED BY <1>3, <1>4, <2>2, <2>3, <2>5, <2>6, <2>7, <2>8 DEF Extended
<1>5. CASE m[1] \notin DOMAIN sequences
    <2> DEFINE r == [lowestIndex |-> m[2], highestIndex |-> m[2], referenced |-> others, referencing |-> {}]
    <2>1. sequences' = [s \in DOMAIN sequences \cup {m[1]} |-> IF s \in DOMAIN sequences THEN sequences[s] ELSE r]
        BY <1>5 DEF WithMarker
    <2>2. r \in Sequence /\ r.lowestIndex = m[2] /\ r.highestIndex = m[2] /\ r.referenced = others
        BY <1>1, <1>2 DEF Sequence
    <2> HIDE DEF r
    <2>3. DOMAIN sequences' = DOMAIN sequences \cup {m[1]}
        BY <2>1
    <2>4. \A s \in DOMAIN sequences : sequences'[s] = sequences[s]
        BY <2>1
    <2>5. sequences'[m[1]] = r
        BY <1>5, <2>1
    <2>6. References(m, P)
        <3> HIDE DEF others
        <3> QED BY <1>6, <2>2, <2>3, <2>4, <2>5 DEF References
    <2> QED BY <1>2, <1>3, <1>5, <2>2, <2>3, <2>4, <2>5, <2>6 DEF Extended
<1> QED
    BY <1>4, <1>5

(* Markers and the blocks that have them stay, whatever is booked. *)
Grows ==
    /\ KnownMarkers \subseteq KnownMarkers'
    /\ \A m : BlockID(m) \subseteq BlockID(m)'
    /\ DOMAIN sequences \subseteq DOMAIN sequences'
    /\ \A s \in DOMAIN sequences : /\ sequences'[s].lowestIndex = sequences[s].lowestIndex
                                   /\ sequences'[s].highestIndex >= sequences[s].highestIndex

(* What the booking of b writes. *)
LEMMA BookingEffect ==
    ASSUME AcceptanceInv, NEW b \in Block, BookBlock(b)
    PROVE  /\ details' \in [Block -> StructureDetails]
           /\ \A x \in Block \ {b} : details'[x] = details[x]
           /\ thread' \in [Block -> Handler]
           /\ \A x \in Block \ {b} : thread'[x] = thread[x]
           /\ thread'[b].markers = thread'[b].pushed
           /\ \/ /\ sequences' = sequences
                 /\ details'[b].pastMarkers \subseteq KnownMarkers
                 /\ thread'[b].pushed \subseteq KnownMarkers
                 /\ ~details'[b].isPastMarker
                 /\ details'[b].pastMarkers \cup thread'[b].pushed \subseteq MergedDetails(b).pastMarkers
              \/ \E m : /\ NextMarker(m) /\ Extended(m)
                        /\ EndsSequence(m, MergedDetails(b).pastMarkers)
                        /\ References(m, MergedDetails(b).pastMarkers)
                        /\ m \in Marker
                        /\ details'[b].isPastMarker /\ details'[b].pastMarkers = {m}
                        /\ thread'[b].pushed \subseteq {m}
<1> DEFINE merged == MergedDetails(b)
           new == AssignedMarker(merged)
           past == IF new = {} THEN merged.pastMarkers ELSE new
           d == IF new = {} THEN merged ELSE [pastMarkers |-> new, pastMarkerGap |-> 0, isPastMarker |-> TRUE]
           th == IF Weight[Issuer[b]] = 0 THEN Idle
                 ELSE [Idle EXCEPT !.pc = "vote", !.markers = past, !.pushed = past]
<1>1. booked \in SUBSET Block /\ b \notin booked
    BY DEF BookBlock, AcceptanceInv, AcceptanceTypeOK
<1>2. merged \in StructureDetails /\ merged.pastMarkers \subseteq KnownMarkers /\ ~merged.isPastMarker
    BY MergedFromParents
<1>3. details' = [details EXCEPT ![b] = d] /\ thread' = [thread EXCEPT ![b] = th]
    BY DEF BookBlock
<1>4. sequences' = IF new = {} THEN sequences ELSE WithMarker(CHOOSE m \in new : TRUE, merged.pastMarkers)
    BY DEF BookBlock
<1> HIDE DEF merged
<1>5. new = {} \/ \E m : new = {m} /\ NextMarker(m) /\ EndsSequence(m, merged.pastMarkers)
    BY <1>1, <1>2, AssignedIsNext
<1>6. KnownMarkers \subseteq Marker
    BY KnownMarkersBounded
<1>7. ASSUME NEW m, NextMarker(m) PROVE m \in Marker
    <2>1. m \in SequenceIDs \X (1 .. Cardinality(booked) + 1)
        BY <1>7 DEF NextMarker
    <2>2. Cardinality(booked) + 1 <= Cardinality(Block) /\ Cardinality(booked) \in Nat /\ Cardinality(Block) \in Nat
        BY <1>1, BookedCounted
    <2>3. 1 .. Cardinality(booked) + 1 \subseteq MarkerIndex
        BY <2>2 DEF MarkerIndex
    <2> QED BY <2>1, <2>3 DEF Marker
<1> HIDE DEF new
<1>8. past \subseteq Marker /\ d \in StructureDetails /\ d.pastMarkers = past /\ (d.isPastMarker <=> new # {})
    <2>1. CASE new = {}
        BY <1>2, <1>6, <2>1
    <2>2. CASE new # {}
        <3>1. past \subseteq Marker
            BY <1>5, <1>7, <2>2
        <3> QED BY <2>2, <3>1 DEF StructureDetails
    <2> QED BY <2>1, <2>2
<1>9. 0 \in SequenceIDs
    BY <1>1, BookedCounted DEF SequenceIDs
<1>10. Idle.markers = {} /\ Idle.pushed = {}
    BY DEF Idle
<1>11. /\ th \in Handler
       /\ th.markers = th.pushed /\ th.pushed \subseteq past
    <2> HIDE DEF past
    <2>1. CASE Weight[Issuer[b]] = 0
        BY <1>9, <2>1 DEF Idle, Handler
    <2>2. CASE Weight[Issuer[b]] # 0
        BY <1>8, <1>9, <2>2 DEF Idle, Handler
    <2> QED BY <2>1, <2>2
<1> HIDE DEF d, th
<1>12. /\ details' \in [Block -> StructureDetails] /\ details'[b] = d
       /\ \A x \in Block \ {b} : details'[x] = details[x]
    BY <1>3, <1>8 DEF AcceptanceInv, AcceptanceTypeOK, MarkersTypeOK
<1>13. /\ thread' \in [Block -> Handler]
       /\ thread'[b] = th
       /\ \A x \in Block \ {b} : thread'[x] = thread[x]
    BY <1>3, <1>11 DEF AcceptanceInv, AcceptanceTypeOK
<1>14. CASE new = {}
    BY <1>2, <1>4, <1>8, <1>11, <1>12, <1>13, <1>14 DEF merged
<1>15. CASE new # {}
    <2>1. PICK m : new = {m} /\ NextMarker(m) /\ EndsSequence(m, merged.pastMarkers)
        BY <1>5, <1>15
    <2>2. (CHOOSE x \in new : TRUE) = m
        BY <2>1
    <2>3. sequences' = WithMarker(m, merged.pastMarkers)
        BY <1>4, <1>15, <2>2
    <2>4. Extended(m) /\ References(m, merged.pastMarkers)
        BY <1>2, <2>1, <2>3, SequencesExtended
    <2>5. past = {m} /\ m \in Marker
        BY <1>7, <2>1
    <2> HIDE DEF past
    <2> QED BY <1>8, <1>11, <1>12, <1>13, <1>15, <2>1, <2>4, <2>5 DEF merged
<1> QED
    BY <1>14, <1>15

(* The part of MarkersKnown that is about the sequences. *)
SequencesKnown ==
    /\ \E k \in 0 .. Cardinality(booked) : DOMAIN sequences = 0 .. k
    /\ \A s \in DOMAIN sequences :
            /\ sequences[s].lowestIndex <= sequences[s].highestIndex
            /\ sequences[s].highestIndex <= Cardinality(booked)
            /\ sequences[s].referenced \subseteq Nat \X KnownMarkers
    /\ sequences[0].lowestIndex = 0

LEMMA BookingGrows ==
    ASSUME AcceptanceInv, NEW b \in Block, BookBlock(b)
    PROVE  /\ SequencesKnown' /\ Grows
           /\ DOMAIN sequences' \subseteq SequenceIDs
           /\ \A s \in DOMAIN sequences' : sequences'[s] \in Sequence
           /\ details'[b].pastMarkers \subseteq KnownMarkers'
           /\ thread'[b].pushed \subseteq KnownMarkers'
<1> DEFINE n == Cardinality(booked)
<1>1. booked \in SUBSET Block /\ b \notin booked /\ booked' = booked \cup {b}
    BY DEF BookBlock, AcceptanceInv, AcceptanceTypeOK
<1>2. n \in Nat /\ Cardinality(booked)' = n + 1
    BY <1>1, BookedCounted
<1>3. PICK k \in 0 .. n : DOMAIN sequences = 0 .. k
    BY DEF AcceptanceInv, MarkersKnown
<1>4. \A s \in DOMAIN sequences :
            /\ sequences[s] \in Sequence
            /\ sequences[s].lowestIndex <= sequences[s].highestIndex
            /\ sequences[s].highestIndex <= n
            /\ sequences[s].referenced \subseteq Nat \X KnownMarkers
    BY KnownMarkersBounded DEF AcceptanceInv, MarkersKnown
<1>5. sequences[0].lowestIndex = 0 /\ DOMAIN sequences \subseteq SequenceIDs
    BY KnownMarkersBounded DEF AcceptanceInv, MarkersKnown
<1> HIDE DEF n
<1>7. \A x \in booked : x \in booked' /\ details'[x] = details[x]
    BY <1>1, BookingEffect
<1>8. \A m : BlockID(m) \subseteq BlockID(m)'
    BY <1>7 DEF BlockID
<1>9. CASE sequences' = sequences
    <2>1. KnownMarkers' = KnownMarkers
        BY <1>9 DEF KnownMarkers
    <2>2. details'[b].pastMarkers \subseteq KnownMarkers /\ thread'[b].pushed \subseteq KnownMarkers
        <3>1. ASSUME NEW m, NextMarker(m), Extended(m) PROVE FALSE
            <4>1. m[1] \in DOMAIN sequences
                BY <1>9, <3>1 DEF Extended
            <4>2. sequences[m[1]].highestIndex = m[2] /\ sequences[m[1]].highestIndex < m[2]
                BY <1>9, <3>1, <4>1 DEF Extended, NextMarker
            <4>3. m[2] \in Nat
                BY <1>4, <4>1, <4>2 DEF Sequence
            <4> QED BY <4>2, <4>3
        <3> QED BY <3>1, BookingEffect
    <2>3. SequencesKnown'
        <3>1. k \in 0 .. n + 1
            BY <1>2, <1>3
        <3>2. \A s \in DOMAIN sequences : sequences[s].highestIndex <= n + 1
            BY <1>2, <1>4 DEF Sequence
        <3> QED BY <1>2, <1>3, <1>4, <1>5, <1>9, <2>1, <3>1, <3>2 DEF SequencesKnown
    <2>4. \A s \in DOMAIN sequences : sequences[s].highestIndex >= sequences[s].highestIndex
        BY <1>4 DEF Sequence
    <2> QED BY <1>4, <1>5, <1>8, <1>9, <2>1, <2>2, <2>3, <2>4 DEF Grows
<1>10. CASE sequences' # sequences
    <2>1. PICK m : /\ NextMarker(m) /\ Extended(m)
                   /\ details'[b].pastMarkers = {m} /\ thread'[b].pushed \subseteq {m}
        BY <1>10, BookingEffect
    <2>2. m \in SequenceIDs \X (1 .. n + 1)
        BY <2>1 DEF NextMarker, n
    <2>3. /\ m[1] \in DOMAIN sequences => sequences[m[1]].highestIndex < m[2]
          /\ m[1] \notin DOMAIN sequences => DOMAIN sequences = 0 .. (m[1] - 1) /\ m[1] <= n + 1
        BY <2>1 DEF NextMarker, n
    <2>4. DOMAIN sequences' = DOMAIN sequences \cup {m[1]}
        BY <2>1 DEF Extended
    <2>5. \A s \in DOMAIN sequences :
            /\ sequences'[s].lowestIndex = sequences[s].lowestIndex
            /\ sequences'[s].highestIndex = IF s = m[1] THEN m[2] ELSE sequences[s].highestIndex
        BY <2>1 DEF Extended
    <2>6. m[1] \notin DOMAIN sequences => /\ sequences'[m[1]].lowestIndex = m[2]
                                          /\ sequences'[m[1]].highestIndex = m[2]
        BY <2>1 DEF Extended
    <2>7. \A s \in DOMAIN sequences' : /\ sequences'[s] \in Sequence
                                       /\ sequences'[s].referenced \subseteq Nat \X KnownMarkers
        BY <2>1 DEF Extended
    <2>8. ASSUME NEW s \in DOMAIN sequences
          PROVE  /\ sequences'[s].highestIndex >= sequences[s].highestIndex
                 /\ sequences'[s].lowestIndex <= sequences'[s].highestIndex
                 /\ sequences'[s].highestIndex <= n + 1
        <3>1. /\ sequences[s].lowestIndex \in Nat /\ sequences[s].highestIndex \in Nat
              /\ sequences[s].lowestIndex <= sequences[s].highestIndex
              /\ sequences[s].highestIndex <= n
            BY <1>4 DEF Sequence
        <3>2. m[2] \in 1 .. n + 1
            BY <2>2
        <3> QED BY <1>2, <2>3, <2>5, <3>1, <3>2
    <2>9. ASSUME NEW x \in KnownMarkers PROVE x \in KnownMarkers'
        <3>1. /\ x \in SequenceIDs \X Nat /\ x[1] \in DOMAIN sequences
              /\ x[2] >= sequences[x[1]].lowestIndex /\ x[2] <= sequences[x[1]].highestIndex
            BY <1>4 DEF KnownMarkers, Sequence
        <3>2. /\ x[1] \in DOMAIN sequences'
              /\ sequences'[x[1]].lowestIndex = sequences[x[1]].lowestIndex
              /\ sequences'[x[1]].highestIndex >= sequences[x[1]].highestIndex
            BY <2>4, <2>5, <2>8, <3>1
        <3>3. /\ sequences[x[1]].lowestIndex \in Nat /\ sequences[x[1]].highestIndex \in Nat
              /\ sequences'[x[1]].highestIndex \in Nat
            BY <1>4, <2>7, <3>1, <3>2 DEF Sequence
        <3>4. x[2] \in sequences'[x[1]].lowestIndex .. sequences'[x[1]].highestIndex
            BY <3>1, <3>2, <3>3
        <3> QED BY <3>1, <3>2, <3>4 DEF KnownMarkers
    <2>10. m \in KnownMarkers'
        <3>1. m \in SequenceIDs \X Nat /\ m[1] \in DOMAIN sequences'
            BY <1>2, <2>2, <2>4
        <3>2. m[2] \in sequences'[m[1]].lowestIndex .. sequences'[m[1]].highestIndex
            <4>1. CASE m[1] \in DOMAIN sequences
                BY <1>4, <2>3, <2>5, <3>1, <4>1 DEF Sequence
            <4>2. CASE m[1] \notin DOMAIN sequences
                BY <2>6, <3>1, <4>2
            <4> QED BY <4>1, <4>2
        <3> QED BY <3>1, <3>2 DEF KnownMarkers
    <2>11. \E j \in 0 .. n + 1 : DOMAIN sequences' = 0 .. j
        <3>1. CASE m[1] \in DOMAIN sequences
            BY <1>2, <1>3, <2>4, <3>1
        <3>2. CASE m[1] \notin DOMAIN sequences
            <4>1. m[1] \in Nat
                BY <2>2 DEF SequenceIDs
            <4>2. DOMAIN sequences' = 0 .. m[1]
                BY <2>3, <2>4, <3>2, <4>1
            <4>3. m[1] \in 0 .. n + 1
                BY <1>2, <2>3, <3>2, <4>1
            <4> QED BY <4>2, <4>3
        <3> QED BY <3>1, <3>2
    <2>12. SequencesKnown'
        <3>1. ASSUME NEW s \in DOMAIN sequences'
              PROVE  /\ sequences'[s].lowestIndex <= sequences'[s].highestIndex
                     /\ sequences'[s].highestIndex <= n + 1
            <4>1. CASE s \in DOMAIN sequences
                BY <2>8, <4>1
            <4>2. CASE s = m[1] /\ s \notin DOMAIN sequences
                <5>1. m[2] \in Nat /\ m[2] <= n + 1
                    BY <1>2, <2>2
                <5> QED BY <2>6, <4>2, <5>1
            <4> QED BY <2>4, <4>1, <4>2
        <3>2. sequences'[0].lowestIndex = 0
            BY <1>2, <1>3, <1>5, <2>5
        <3>3. \A s \in DOMAIN sequences' : sequences'[s].referenced \subseteq Nat \X KnownMarkers'
            BY <2>7, <2>9
        <3> QED BY <1>2, <2>11, <3>1, <3>2, <3>3 DEF SequencesKnown
    <2>13. DOMAIN sequences' \subseteq SequenceIDs
        BY <1>5, <2>2, <2>4
    <2>14. DOMAIN sequences \subseteq DOMAIN sequences'
        BY <2>4
    <2> QED BY <1>8, <2>1, <2>5, <2>7, <2>8, <2>9, <2>10, <2>12, <2>13, <2>14 DEF Grows
<1> QED
    BY <1>9, <1>10

LEMMA BookingKeepsTypes ==
    ASSUME AcceptanceInv, NEW b \in Block, BookBlock(b)
    PROVE  AcceptanceTypeOK'
<1>1. /\ booked \in SUBSET Block /\ b \notin booked /\ booked' = booked \cup {b}
      /\ votes' = votes /\ cast' = cast /\ lastConfirmed' = lastConfirmed
      /\ accepted' = accepted /\ tasks' = tasks /\ worker' = worker
    BY DEF BookBlock, AcceptanceInv, AcceptanceTypeOK
<1>2. MarkersTypeOK'
    BY BookingEffect, BookingGrows DEF MarkersTypeOK
<1>3. ASSUME NEW s \in SequenceIDs, lastConfirmed[s] > 0
      PROVE  /\ s \in DOMAIN sequences'
             /\ lastConfirmed[s] \in sequences'[s].lowestIndex .. sequences'[s].highestIndex
    <2>1. /\ s \in DOMAIN sequences /\ lastConfirmed[s] \in Nat
          /\ lastConfirmed[s] \in sequences[s].lowestIndex .. sequences[s].highestIndex
        BY <1>3 DEF AcceptanceInv, AcceptanceTypeOK
    <2>2. /\ s \in DOMAIN sequences'
          /\ sequences'[s].lowestIndex = sequences[s].lowestIndex
          /\ sequences'[s].highestIndex >= sequences[s].highestIndex
        BY <2>1, BookingGrows DEF Grows
    <2>3. /\ sequences[s].lowestIndex \in Nat /\ sequences[s].highestIndex \in Nat
          /\ sequences'[s].highestIndex \in Nat
        BY <2>1, <2>2, BookingGrows, KnownMarkersBounded DEF Sequence
    <2> QED BY <2>1, <2>2, <2>3
<1>4. ASSUME NEW x \in Block
      PROVE  thread'[x].markers \subseteq thread'[x].pushed /\ (thread'[x].pc # "idle" => x \in booked')
    BY <1>1, BookingEffect DEF AcceptanceInv, AcceptanceTypeOK
<1>5. tasks \subseteq UNION {details'[x].pastMarkers : x \in booked'}
    <2>1. \A x \in booked : details'[x] = details[x] /\ x \in booked'
        BY <1>1, BookingEffect
    <2> QED BY <2>1 DEF AcceptanceInv, AcceptanceTypeOK
<1>6. thread' \in [Block -> Handler]
    BY BookingEffect
<1>7. accepted' \subseteq booked' /\ booked' \subseteq Block
    BY <1>1 DEF AcceptanceInv, AcceptanceTypeOK
<1> QED
    BY <1>1, <1>2, <1>3, <1>4, <1>5, <1>6, <1>7 DEF AcceptanceInv, AcceptanceTypeOK

LEMMA BookingKeepsMarkers ==
    ASSUME AcceptanceInv, NEW b \in Block, BookBlock(b)
    PROVE  MarkersKnown'
<1>1. /\ booked \in SUBSET Block /\ b \notin booked /\ booked' = booked \cup {b} /\ tasks' = tasks
      /\ StrongParents[b] \cup WeakParents[b] \subseteq booked
    BY DEF BookBlock, AcceptanceInv, AcceptanceTypeOK
<1>2. KnownMarkers \subseteq KnownMarkers' /\ \A m : BlockID(m) \subseteq BlockID(m)'
    BY BookingGrows DEF Grows
<1>3. ASSUME NEW x \in Block
      PROVE  /\ details'[x].pastMarkers \subseteq KnownMarkers'
             /\ x \notin booked' => details'[x] = NoMarkers
             /\ thread'[x].pushed \subseteq KnownMarkers'
    <2>1. CASE x = b
        BY <1>1, <2>1, BookingGrows
    <2>2. CASE x # b
        BY <1>1, <1>2, <2>2, BookingEffect DEF AcceptanceInv, MarkersKnown
    <2> QED BY <2>1, <2>2
<1>4. \A x \in booked' : StrongParents[x] \cup WeakParents[x] \subseteq booked'
    BY <1>1 DEF AcceptanceInv, MarkersKnown
<1>5. \A m \in tasks' : BlockID(m)' # {}
    BY <1>1, <1>2 DEF AcceptanceInv, MarkersKnown
<1>6. SequencesKnown'
    BY BookingGrows
<1> QED
    BY <1>3, <1>4, <1>5, <1>6 DEF MarkersKnown, SequencesKnown

(* More blocks are booked, and those of a marker stay. *)
LEMMA BookingKeepsWalks ==
    ASSUME AcceptanceInv, NEW b \in Block, BookBlock(b)
    PROVE  WalksSound' /\ WalksComplete'
<1>1. /\ booked' = booked \cup {b} /\ accepted' = accepted /\ worker' = worker /\ lastConfirmed' = lastConfirmed
    BY DEF BookBlock
<1>2. \A m : BlockID(m) \subseteq BlockID(m)'
    BY BookingGrows DEF Grows
<1>3. AcceptedWeakly' = AcceptedWeakly
    BY <1>1 DEF AcceptedWeakly
<1>5. WalksSound'
    BY <1>1, <1>3 DEF AcceptanceInv, WalksSound
<1>6. ASSUME NEW x \in accepted \ AcceptedWeakly, NEW p \in StrongParents[x]
      PROVE  p \in accepted \/ Queued({p})'
    <2>1. p \in accepted \/ Queued({p})
        BY DEF AcceptanceInv, WalksComplete
    <2> QED BY <1>1, <2>1 DEF Queued
<1>7. ASSUME NEW s \in SequenceIDs, lastConfirmed[s] > 0
      PROVE  \/ BlockID(<<s, lastConfirmed[s]>>)' \cap accepted # {}
             \/ Queued(BlockID(<<s, lastConfirmed[s]>>))'
    <2> DEFINE m == <<s, lastConfirmed[s]>>
    <2>1. BlockID(m) \cap accepted # {} \/ Queued(BlockID(m))
        BY <1>7 DEF AcceptanceInv, WalksComplete
    <2>2. BlockID(m) \subseteq BlockID(m)'
        BY <1>1, <1>2
    <2>3. CASE BlockID(m) \cap accepted # {}
        BY <1>1, <2>2, <2>3
    <2>4. CASE Queued(BlockID(m))
        BY <1>1, <2>2, <2>4 DEF Queued
    <2> QED BY <2>1, <2>3, <2>4
<1> QED
    BY <1>1, <1>3, <1>5, <1>6, <1>7 DEF WalksComplete

LEMMA BookingKeepsInv ==
    ASSUME AcceptanceInv, NEW b \in Block, BookBlock(b)
    PROVE  AcceptanceInv'
<1>1. VotesKept'
    BY DEF BookBlock, AcceptanceInv, VotesKept, Cast
<1> QED
    BY <1>1, BookingKeepsTypes, BookingKeepsMarkers, BookingKeepsWalks DEF AcceptanceInv

-----------------------------------------------------------------------------
(* The handlers that vote. *)

(* What the gadget answers is confirmed. *)
LEMMA LastConfirmedIsConfirmed ==
    ASSUME AcceptanceInv, NEW s \in DOMAIN sequences
    PROVE  /\ LastConfirmedMarkers(s) \in [SequenceIDs -> Nat]
           /\ \A t \in SequenceIDs \ {s} : LastConfirmedMarkers(s)[t] = lastConfirmed[t]
           /\ \/ LastConfirmedMarkers(s)[s] = lastConfirmed[s]
              \/ LastConfirmedMarkers(s)[s] = 0
              \/ LastConfirmedMarkers(s)[s] \in ConfirmedPrefix(s)
           /\ FirstUnconfirmedMarkerIndex(s) \in Nat
<1> DEFINE T == {0} \cup ConfirmedPrefix(s)
           last == IF lastConfirmed[s] > 0 THEN lastConfirmed[s] ELSE Max(T)
<1>1. s \in SequenceIDs /\ sequences[s].lowestIndex \in Nat /\ sequences[s].highestIndex \in Nat
    BY KnownMarkersBounded DEF Sequence
<1>2. lastConfirmed \in [SequenceIDs -> Nat]
    BY DEF AcceptanceInv, AcceptanceTypeOK
<1>3. T \in SUBSET (0 .. sequences[s].highestIndex)
    BY <1>1 DEF ConfirmedPrefix
<1>4. Max(T) \in T
    <2>1. T # {}
        OBVIOUS
    <2> HIDE DEF T
    <2> QED BY <1>1, <1>3, <2>1, MaxOfNumbers
<1>5. LastConfirmedMarkers(s) = [lastConfirmed EXCEPT ![s] = last]
    BY <1>1, <1>2 DEF LastConfirmedMarkers
<1>6. last \in Nat /\ (last = lastConfirmed[s] \/ last \in T)
    <2>1. Max(T) \in Nat
        BY <1>1, <1>3, <1>4
    <2> HIDE DEF T
    <2> QED BY <1>1, <1>2, <1>4, <2>1
<1> HIDE DEF last
<1>7. LastConfirmedMarkers(s) \in [SequenceIDs -> Nat] /\ LastConfirmedMarkers(s)[s] = last
    BY <1>1, <1>2, <1>5, <1>6
<1>8. FirstUnconfirmedMarkerIndex(s) \in Nat
    BY <1>1, <1>6, <1>7 DEF FirstUnconfirmedMarkerIndex
<1> QED
    BY <1>2, <1>5, <1>6, <1>7, <1>8

LEMMA ReferencedMarkersKnown ==
    ASSUME AcceptanceInv, NEW m \in KnownMarkers
    PROVE  ReferencedMarkers(m) \subseteq KnownMarkers
<1>1. sequences[m[1]].referenced \subseteq Nat \X KnownMarkers
    BY DEF KnownMarkers, AcceptanceInv, MarkersKnown
<1> QED
    BY <1>1 DEF ReferencedMarkers

(* Markers and booked blocks are left alone. *)
LEMMA MarkersStay ==
    ASSUME UNCHANGED <<markerVars, booked>>
    PROVE  /\ KnownMarkers' = KnownMarkers /\ \A m : BlockID(m)' = BlockID(m)
           /\ (MarkersTypeOK => MarkersTypeOK')
           /\ (SequencesKnown => SequencesKnown')
    BY DEF markerVars, KnownMarkers, BlockID, MarkersTypeOK, SequencesKnown

(* Whether the vote of a block for a marker is stored. *)
Stores(b, m) == /\ ~(FirstUnconfirmedMarkerIndex(m[1]) >= m[2])
                /\ ~Refused(votes[m[1]][Issuer[b]], m[2], SequenceNumber[b])

LEMMA VotingKeepsVotes ==
    ASSUME AcceptanceInv, NEW b \in Block, NEW m \in thread[b].markers, AddVoteToMarker(b, m)
    PROVE  /\ \A t \in SequenceIDs, x \in Voter : votes'[t][x] =
                IF t = m[1] /\ x = Issuer[b] /\ Stores(b, m)
                THEN Pruned(votes[t][x], m[2], SequenceNumber[b]) \cup {<<m[2], SequenceNumber[b]>>}
                ELSE votes[t][x]
           /\ votes' \in [SequenceIDs -> [Voter -> SUBSET (MarkerIndex \X Nat)]]
           /\ cast' \subseteq SequenceIDs \X Voter \X MarkerIndex \X Nat
           /\ VotesKept'
<1> DEFINE s == m[1]
           i == m[2]
           v == Issuer[b]
           V == votes[s][v]
           power == SequenceNumber[b]
           ignored == FirstUnconfirmedMarkerIndex(s) >= i
           stored == ~ignored /\ ~Refused(V, i, power)
           W == Pruned(V, i, power) \cup {<<i, power>>}
<1>1. m \in Marker /\ s \in SequenceIDs /\ i \in MarkerIndex
    BY DEF AcceptanceInv, AcceptanceTypeOK, Handler, Marker
<1>2. v \in Voter /\ power \in Nat
    BY AcceptanceAssumption
<1>3. /\ votes \in [SequenceIDs -> [Voter -> SUBSET (MarkerIndex \X Nat)]]
      /\ cast \subseteq SequenceIDs \X Voter \X MarkerIndex \X Nat
    BY DEF AcceptanceInv, AcceptanceTypeOK
<1>4. /\ cast' = IF ignored THEN cast ELSE cast \cup {<<s, v, i, power>>}
      /\ votes' = IF stored THEN [votes EXCEPT ![s][v] = W] ELSE votes
    <2>1. stored => votes' = [votes EXCEPT ![s][v] = Pruned(@, i, power) \cup {<<i, power>>}]
        BY DEF AddVoteToMarker
    <2>2. ~stored => votes' = votes
        BY DEF AddVoteToMarker
    <2>3. [votes EXCEPT ![s][v] = Pruned(@, i, power) \cup {<<i, power>>}] = [votes EXCEPT ![s][v] = W]
        BY <1>1, <1>2, <1>3
    <2>4. cast' = IF ignored THEN cast ELSE cast \cup {<<s, v, i, power>>}
        BY DEF AddVoteToMarker
    <2> QED BY <2>1, <2>2, <2>3, <2>4
<1>5. V \in SUBSET (MarkerIndex \X Nat) /\ Cast(s, v) \in SUBSET (MarkerIndex \X Nat)
    BY <1>1, <1>2, VotesTyped DEF AcceptanceInv
<1>6. V \subseteq Cast(s, v) /\ Falling(V) /\ Dominates(V, Cast(s, v))
    BY <1>1, <1>2 DEF AcceptanceInv, VotesKept
<1> HIDE DEF s, i, v, power, ignored
<1>7. W \in SUBSET (MarkerIndex \X Nat)
    BY <1>1, <1>2, <1>5 DEF Pruned
<1> HIDE DEF W
<1>8. /\ votes' \in [SequenceIDs -> [Voter -> SUBSET (MarkerIndex \X Nat)]]
      /\ votes'[s][v] = IF stored THEN W ELSE V
      /\ \A t \in SequenceIDs, x \in Voter : (t # s \/ x # v) => votes'[t][x] = votes[t][x]
    BY <1>1, <1>2, <1>3, <1>4, <1>5, <1>7
<1>14. ASSUME NEW t \in SequenceIDs, NEW x \in Voter
       PROVE  votes'[t][x] = IF t = m[1] /\ x = Issuer[b] /\ Stores(b, m)
                             THEN Pruned(votes[t][x], m[2], SequenceNumber[b]) \cup {<<m[2], SequenceNumber[b]>>}
                             ELSE votes[t][x]
    <2>1. stored <=> Stores(b, m)
        BY DEF Stores, s, i, v, power, ignored
    <2>2. CASE t = s /\ x = v /\ stored
        <3>1. W = Pruned(votes[t][x], m[2], SequenceNumber[b]) \cup {<<m[2], SequenceNumber[b]>>}
            BY <2>2 DEF W, s, i, v, power
        <3> QED BY <1>8, <2>1, <2>2, <3>1 DEF s, v
    <2>3. CASE t = s /\ x = v /\ ~stored
        BY <1>8, <2>1, <2>3
    <2>4. CASE t # s \/ x # v
        BY <1>8, <2>4 DEF s, v
    <2> QED BY <2>2, <2>3, <2>4
<1>9. cast' \subseteq SequenceIDs \X Voter \X MarkerIndex \X Nat
    BY <1>1, <1>2, <1>3, <1>4
<1>10. ASSUME NEW t \in SequenceIDs, NEW x \in Voter, t # s \/ x # v
       PROVE  Cast(t, x)' = Cast(t, x)
    <2>1. ASSUME NEW y \in cast' PROVE y \in cast \/ (y[1] = s /\ y[2] = v)
        BY <1>4
    <2>2. cast \subseteq cast'
        BY <1>4
    <2> QED BY <1>10, <2>1, <2>2 DEF Cast
<1>11. Cast(s, v)' = IF ignored THEN Cast(s, v) ELSE Cast(s, v) \cup {<<i, power>>}
    <2>1. CASE ignored
        BY <1>4, <2>1 DEF Cast
    <2>2. CASE ~ignored
        <3>1. cast' = cast \cup {<<s, v, i, power>>}
            BY <1>4, <2>2
        <3>2. ASSUME NEW y \in Cast(s, v)' PROVE y \in Cast(s, v) \cup {<<i, power>>}
            <4>1. PICK z \in cast' : z[1] = s /\ z[2] = v /\ y = <<z[3], z[4]>>
                BY DEF Cast
            <4>2. CASE z \in cast
                BY <4>1, <4>2 DEF Cast
            <4>3. CASE z = <<s, v, i, power>>
                BY <4>1, <4>3
            <4> QED BY <3>1, <4>2, <4>3
        <3>3. Cast(s, v) \subseteq Cast(s, v)'
            BY <3>1 DEF Cast
        <3>4. <<i, power>> \in Cast(s, v)'
            <4> DEFINE z == <<s, v, i, power>>
            <4>1. z \in cast' /\ z[1] = s /\ z[2] = v /\ <<z[3], z[4]>> = <<i, power>>
                BY <3>1
            <4> HIDE DEF z
            <4>2. \E y \in cast' : y[1] = s /\ y[2] = v /\ <<y[3], y[4]>> = <<i, power>>
                BY <4>1
            <4> QED BY <4>2 DEF Cast
        <3> QED BY <2>2, <3>2, <3>3, <3>4
    <2> QED BY <2>1, <2>2
<1>12. /\ votes'[s][v] \subseteq Cast(s, v)'
       /\ Falling(votes'[s][v])
       /\ Dominates(votes'[s][v], Cast(s, v)')
    <2>1. CASE ignored
        BY <1>6, <1>8, <1>11, <2>1
    <2>2. CASE stored
        <3>1. W \subseteq Cast(s, v) \cup {<<i, power>>} /\ Falling(W) /\ Dominates(W, Cast(s, v) \cup {<<i, power>>})
            <4> HIDE DEF V
            <4>1. ~Refused(V, i, power)
                BY <2>2
            <4> QED BY <1>1, <1>2, <1>5, <1>6, <4>1, StoredVote DEF W
        <3> QED BY <1>8, <1>11, <2>2, <3>1
    <2>3. CASE ~ignored /\ Refused(V, i, power)
        <3>1. Dominates(V, Cast(s, v) \cup {<<i, power>>})
            <4> HIDE DEF V
            <4> QED BY <1>1, <1>2, <1>5, <1>6, <2>3, RefusedVote
        <3> QED BY <1>6, <1>8, <1>11, <2>3, <3>1
    <2> QED BY <2>1, <2>2, <2>3
<1>13. ASSUME NEW t \in SequenceIDs, NEW x \in Voter
       PROVE  /\ votes'[t][x] \subseteq Cast(t, x)'
              /\ Falling(votes'[t][x])
              /\ Dominates(votes'[t][x], Cast(t, x)')
    <2>1. CASE t = s /\ x = v
        BY <1>12, <2>1
    <2>2. CASE t # s \/ x # v
        BY <1>8, <1>10, <2>2 DEF AcceptanceInv, VotesKept
    <2> QED BY <2>1, <2>2
<1> QED
    BY <1>8, <1>9, <1>13, <1>14 DEF VotesKept, Falling, Dominates

(* A handler may go on. *)
GoesOn(th) == th \in Handler /\ th.markers \subseteq th.pushed /\ th.pushed \subseteq KnownMarkers

LEMMA ContinueGoesOn ==
    ASSUME AcceptanceInv, NEW th, GoesOn(th)
    PROVE  GoesOn(Continue(th)) /\ Continue(th).pushed \subseteq th.pushed /\ Continue(th).pc # "weigh"
<1>1. 0 \in SequenceIDs
    BY BookedCounted DEF SequenceIDs, AcceptanceInv, AcceptanceTypeOK
<1>2. CASE th.markers = {}
    BY <1>1, <1>2 DEF Continue, Idle, GoesOn, Handler
<1>3. CASE th.markers # {}
    <2> DEFINE r == [th EXCEPT !.pc = "vote", !.sequence = 0, !.from = 0, !.to = 0]
    <2>1. th \in Handler
        BY DEF GoesOn
    <2>2. r \in Handler /\ r.markers = th.markers /\ r.pushed = th.pushed /\ r.pc = "vote"
        BY <1>1, <2>1 DEF Handler
    <2>3. Continue(th) = r
        BY <1>3 DEF Continue
    <2> HIDE DEF r
    <2> QED BY <2>2, <2>3 DEF GoesOn
<1> QED
    BY <1>2, <1>3

(* The index of the last vote. *)
Previous(s, v) == Max({0} \cup {e[1] : e \in votes[s][v]})

LEMMA PreviousIndex ==
    ASSUME booked \in SUBSET Block, NEW V \in SUBSET (MarkerIndex \X Nat)
    PROVE  /\ Max({0} \cup {e[1] : e \in V}) \in Nat
           /\ \A n \in Nat \ {0} : (\A e \in V : e[1] < n) => Max({0} \cup {e[1] : e \in V}) < n
<1> DEFINE T == {0} \cup {e[1] : e \in V}
           n == 2 * Cardinality(Block)
<1>1. Cardinality(Block) \in Nat
    BY BookedCounted
<1>2. n \in Nat
    BY <1>1
<1>3. T \in SUBSET (0 .. n) /\ T # {}
    BY <1>2 DEF MarkerIndex
<1> HIDE DEF T, n
<1>4. Max(T) \in T
    BY <1>2, <1>3, MaxOfNumbers
<1>5. \A x \in T : x \in Nat
    BY <1>2, <1>3
<1>6. \A x \in T : x = 0 \/ \E e \in V : x = e[1]
    BY DEF T
<1>7. \A k \in Nat \ {0} : (\A e \in V : e[1] < k) => Max(T) < k
    BY <1>4, <1>6
<1> QED
    BY <1>4, <1>5, <1>7 DEF T

LEMMA VotingKeepsHandlers ==
    ASSUME AcceptanceInv, NEW b \in Block, NEW m \in thread[b].markers, AddVoteToMarker(b, m)
    PROVE  \E th : /\ GoesOn(th) /\ thread' = [thread EXCEPT ![b] = th]
                   /\ th.pushed \subseteq thread[b].pushed \cup ReferencedMarkers(m)
                   /\ IF Stores(b, m) /\ m[2] > Previous(m[1], Issuer[b])
                      THEN /\ th.pc = "weigh" /\ th.sequence = m[1] /\ th.to = m[2]
                           /\ th.from = UpdateFrom(m[1], Previous(m[1], Issuer[b]))
                      ELSE th.pc # "weigh"
<1> DEFINE s == m[1]
           V == votes[s][Issuer[b]]
           power == SequenceNumber[b]
           previous == Max({0} \cup {e[1] : e \in V})
           stored == ~(FirstUnconfirmedMarkerIndex(s) >= m[2]) /\ ~Refused(V, m[2], power)
           next == IF stored THEN ReferencedMarkers(m) ELSE {}
           old == thread[b]
           th == [old EXCEPT !.markers = (old.markers \ {m}) \cup (next \ old.pushed), !.pushed = old.pushed \cup next]
           weigh == [th EXCEPT !.pc = "weigh", !.sequence = s, !.from = UpdateFrom(s, previous), !.to = m[2]]
<1>1. GoesOn(old)
    BY DEF AcceptanceInv, AcceptanceTypeOK, MarkersKnown, GoesOn
<1>2. m \in KnownMarkers /\ m \in Marker /\ s \in DOMAIN sequences /\ s \in SequenceIDs /\ m[2] \in Nat
    BY <1>1, KnownMarkersBounded DEF GoesOn, KnownMarkers
<1>3. V \in SUBSET (MarkerIndex \X Nat)
    BY <1>2, AcceptanceAssumption, VotesTyped DEF AcceptanceInv
<1>4. previous \in Nat
    <2> HIDE DEF V
    <2> QED BY <1>3, PreviousIndex DEF AcceptanceInv, AcceptanceTypeOK
<1>5. UpdateFrom(s, previous) \in Nat
    <2> HIDE DEF previous
    <2> QED BY <1>2, <1>4, LastConfirmedIsConfirmed DEF UpdateFrom
<1>6. next \subseteq KnownMarkers /\ next \subseteq Marker
    <2>1. ReferencedMarkers(m) \subseteq KnownMarkers
        BY <1>2, ReferencedMarkersKnown
    <2>2. KnownMarkers \subseteq Marker
        BY KnownMarkersBounded
    <2> QED BY <2>1, <2>2
<1>7. thread' = [thread EXCEPT ![b] = IF stored /\ m[2] > previous THEN weigh ELSE Continue(th)]
    BY DEF AddVoteToMarker
<1>11. /\ stored <=> Stores(b, m)
       /\ previous = Previous(s, Issuer[b])
    BY DEF Stores, Previous
<1>12. next \subseteq ReferencedMarkers(m)
    OBVIOUS
<1> HIDE DEF next, previous, V, old, stored
<1>8. GoesOn(th)
    <2>1. old \in Handler
        BY <1>1 DEF GoesOn
    <2>2. /\ th \in Handler
          /\ th.markers = (old.markers \ {m}) \cup (next \ old.pushed)
          /\ th.pushed = old.pushed \cup next
        BY <1>6, <2>1 DEF Handler
    <2> HIDE DEF th
    <2> QED BY <1>1, <1>6, <2>2 DEF GoesOn
<1>13. th.pushed \subseteq old.pushed \cup ReferencedMarkers(m)
    BY <1>1, <1>12 DEF GoesOn, Handler
<1> HIDE DEF th
<1>9. /\ GoesOn(weigh) /\ weigh.pushed = th.pushed
      /\ weigh.pc = "weigh" /\ weigh.sequence = s /\ weigh.from = UpdateFrom(s, previous) /\ weigh.to = m[2]
    <2>1. th \in Handler
        BY <1>8 DEF GoesOn
    <2>2. /\ weigh \in Handler /\ weigh.markers = th.markers /\ weigh.pushed = th.pushed
          /\ weigh.pc = "weigh" /\ weigh.sequence = s /\ weigh.from = UpdateFrom(s, previous) /\ weigh.to = m[2]
        BY <1>2, <1>5, <2>1 DEF Handler
    <2> HIDE DEF weigh
    <2> QED BY <1>8, <2>2 DEF GoesOn
<1>10. GoesOn(Continue(th)) /\ Continue(th).pushed \subseteq th.pushed /\ Continue(th).pc # "weigh"
    BY <1>8, ContinueGoesOn
<1> HIDE DEF weigh
<1>14. CASE stored /\ m[2] > previous
    BY <1>7, <1>9, <1>11, <1>13, <1>14 DEF old
<1>15. CASE ~(stored /\ m[2] > previous)
    BY <1>7, <1>10, <1>11, <1>13, <1>15 DEF old
<1> QED
    BY <1>14, <1>15

LEMMA HandlersKept ==
    ASSUME AcceptanceInv, UNCHANGED <<markerVars, booked>>, NEW b \in booked, NEW th, GoesOn(th),
           thread' = [thread EXCEPT ![b] = th]
    PROVE  /\ thread' \in [Block -> Handler]
           /\ \A x \in Block : /\ thread'[x].markers \subseteq thread'[x].pushed
                               /\ thread'[x].pc # "idle" => x \in booked
                               /\ thread'[x].pushed \subseteq KnownMarkers'
<1>1. KnownMarkers' = KnownMarkers
    BY MarkersStay
<1>2. thread \in [Block -> Handler] /\ b \in Block
    BY DEF AcceptanceInv, AcceptanceTypeOK
<1>3. thread' \in [Block -> Handler] /\ thread'[b] = th
    BY <1>2 DEF GoesOn
<1>4. \A x \in Block \ {b} : thread'[x] = thread[x]
    BY <1>2
<1> QED
    BY <1>1, <1>3, <1>4 DEF GoesOn, AcceptanceInv, AcceptanceTypeOK, MarkersKnown

LEMMA VotingKeepsInv ==
    ASSUME AcceptanceInv, NEW b \in Block, NEW m \in thread[b].markers, AddVoteToMarker(b, m)
    PROVE  AcceptanceInv'
<1> DEFINE s == m[1]
<1>1. /\ UNCHANGED <<markerVars, booked>> /\ b \in booked
      /\ accepted' = accepted /\ tasks' = tasks /\ worker' = worker
      /\ lastConfirmed' = LastConfirmedMarkers(s)
    BY DEF AddVoteToMarker, AcceptanceInv, AcceptanceTypeOK
<1>2. s \in DOMAIN sequences
    BY DEF AcceptanceInv, AcceptanceTypeOK, MarkersKnown, KnownMarkers
<1>3. /\ KnownMarkers' = KnownMarkers /\ \A x : BlockID(x)' = BlockID(x)
      /\ MarkersTypeOK' /\ SequencesKnown'
    BY <1>1, MarkersStay DEF AcceptanceInv, AcceptanceTypeOK, MarkersKnown, SequencesKnown
<1>4. /\ thread' \in [Block -> Handler]
      /\ \A x \in Block : /\ thread'[x].markers \subseteq thread'[x].pushed
                          /\ thread'[x].pc # "idle" => x \in booked
                          /\ thread'[x].pushed \subseteq KnownMarkers'
    BY <1>1, VotingKeepsHandlers, HandlersKept
<1>5. ASSUME NEW t \in SequenceIDs, lastConfirmed'[t] > 0
      PROVE  /\ t \in DOMAIN sequences
             /\ lastConfirmed'[t] \in sequences[t].lowestIndex .. sequences[t].highestIndex
             /\ \/ BlockID(<<t, lastConfirmed'[t]>>) \cap accepted # {}
                \/ Queued(BlockID(<<t, lastConfirmed'[t]>>))
    <2>1. CASE lastConfirmed'[t] = lastConfirmed[t]
        BY <1>5, <2>1 DEF AcceptanceInv, AcceptanceTypeOK, WalksComplete
    <2>2. CASE lastConfirmed'[t] # lastConfirmed[t]
        <3>1. t = s /\ lastConfirmed'[s] \in ConfirmedPrefix(s)
            BY <1>1, <1>2, <1>5, <2>2, LastConfirmedIsConfirmed
        <3>2. /\ lastConfirmed'[s] \in sequences[s].lowestIndex .. sequences[s].highestIndex
              /\ IsMarkerConfirmed(<<s, lastConfirmed'[s]>>)
            <4>1. sequences[s].lowestIndex \in Nat /\ sequences[s].highestIndex \in Nat
                BY <1>2, KnownMarkersBounded DEF Sequence
            <4>2. lastConfirmed'[s] \in sequences[s].lowestIndex .. lastConfirmed'[s]
                BY <3>1, <4>1 DEF ConfirmedPrefix
            <4> QED BY <3>1, <4>2 DEF ConfirmedPrefix
        <3> QED BY <1>2, <3>1, <3>2 DEF IsMarkerConfirmed
    <2> QED BY <2>1, <2>2
<1>6. lastConfirmed' \in [SequenceIDs -> Nat]
    BY <1>1, <1>2, LastConfirmedIsConfirmed
<1>7. AcceptanceTypeOK'
    <2>1. details' = details /\ sequences' = sequences
        BY <1>1 DEF markerVars
    <2>2. /\ accepted' \subseteq booked' /\ booked' \subseteq Block
          /\ tasks' \subseteq UNION {details'[x].pastMarkers : x \in booked'}
          /\ worker' \in [Worker -> Walk] /\ \A w \in Worker : worker'[w].queue \subseteq worker'[w].pushed
        BY <1>1, <2>1 DEF AcceptanceInv, AcceptanceTypeOK
    <2> QED BY <1>1, <1>3, <1>4, <1>5, <1>6, <2>1, <2>2, VotingKeepsVotes DEF AcceptanceTypeOK
<1>8. MarkersKnown'
    <2>1. details' = details
        BY <1>1 DEF markerVars
    <2> QED BY <1>1, <1>3, <1>4, <2>1 DEF AcceptanceInv, MarkersKnown, SequencesKnown
<1>9. AcceptedWeakly' = AcceptedWeakly /\ \A S : Queued(S) => \E w \in Worker : worker'[w].queue \cap S # {}
    BY <1>1 DEF AcceptedWeakly, Queued
<1>10. WalksSound'
    BY <1>1, <1>9 DEF AcceptanceInv, WalksSound
<1>11. WalksComplete'
    <2>1. ASSUME NEW x \in accepted \ AcceptedWeakly, NEW p \in StrongParents[x]
          PROVE  p \in accepted \/ \E w \in Worker : worker'[w].queue \cap {p} # {}
        BY <1>9 DEF AcceptanceInv, WalksComplete
    <2>2. ASSUME NEW t \in SequenceIDs, lastConfirmed'[t] > 0
          PROVE  \/ BlockID(<<t, lastConfirmed'[t]>>) \cap accepted # {}
                 \/ \E w \in Worker : worker'[w].queue \cap BlockID(<<t, lastConfirmed'[t]>>) # {}
        BY <1>5, <1>9, <2>2
    <2>3. details' = details
        BY <1>1 DEF markerVars
    <2>4. ASSUME NEW t \in SequenceIDs, lastConfirmed'[t] > 0
          PROVE  (BlockID(<<t, lastConfirmed[t]>>) \cap accepted # {} \/ Queued(BlockID(<<t, lastConfirmed[t]>>)))'
        BY <1>1, <2>2, <2>3, <2>4 DEF BlockID, Queued
    <2>5. ASSUME NEW x \in accepted' \ AcceptedWeakly', NEW p \in StrongParents[x]
          PROVE  (p \in accepted \/ Queued({p}))'
        BY <1>1, <1>9, <2>1 DEF Queued
    <2> QED BY <2>4, <2>5 DEF WalksComplete
<1> QED
    BY <1>7, <1>8, <1>10, <1>11, VotingKeepsVotes DEF AcceptanceInv

(* The walks do not depend on anything that weighing changes. *)
LEMMA WalksStay ==
    ASSUME AcceptanceInv, UNCHANGED <<markerVars, booked, lastConfirmed, accepted, worker>>
    PROVE  WalksSound' /\ WalksComplete'
    BY DEF markerVars, AcceptanceInv, WalksSound, WalksComplete, AcceptedWeakly, Queued, BlockID

LEMMA WeighingKeepsInv ==
    ASSUME AcceptanceInv, NEW b \in Block, UpdateMarkerWeight(b)
    PROVE  AcceptanceInv'
<1> DEFINE m == <<thread[b].sequence, thread[b].from>>
           old == thread[b]
           th == IF old.from = old.to THEN Continue(old) ELSE [old EXCEPT !.from = old.from + 1]
<1>1. /\ UNCHANGED <<markerVars, booked, votes, cast, lastConfirmed, accepted, worker>> /\ b \in booked
      /\ tasks' = IF BlockID(m) # {} /\ ReachesThreshold(WeightOf(MarkerVotes(m))) THEN tasks \cup {m} ELSE tasks
      /\ thread' = [thread EXCEPT ![b] =
            IF @.from = @.to THEN Continue(thread[b]) ELSE [thread[b] EXCEPT !.from = @ + 1]]
    BY DEF UpdateMarkerWeight, AcceptanceInv, AcceptanceTypeOK
<1>2. thread' = [thread EXCEPT ![b] = th]
    BY <1>1 DEF AcceptanceInv, AcceptanceTypeOK
<1>3. GoesOn(old)
    BY DEF AcceptanceInv, AcceptanceTypeOK, MarkersKnown, GoesOn
<1>4. GoesOn(th)
    <2> HIDE DEF old
    <2>1. CASE old.from = old.to
        BY <1>3, <2>1, ContinueGoesOn
    <2>2. CASE old.from # old.to
        <3> DEFINE r == [old EXCEPT !.from = old.from + 1]
        <3>1. r \in Handler /\ r.markers = old.markers /\ r.pushed = old.pushed
            BY <1>3 DEF GoesOn, Handler
        <3>2. th = r
            BY <2>2
        <3> HIDE DEF r, th
        <3> QED BY <1>3, <3>1, <3>2 DEF GoesOn
    <2> QED BY <2>1, <2>2
<1> HIDE DEF th, old, m
<1>5. /\ thread' \in [Block -> Handler]
      /\ \A x \in Block : /\ thread'[x].markers \subseteq thread'[x].pushed
                          /\ thread'[x].pc # "idle" => x \in booked
                          /\ thread'[x].pushed \subseteq KnownMarkers'
    BY <1>1, <1>2, <1>4, HandlersKept
<1>6. /\ \A x : BlockID(x)' = BlockID(x)
      /\ MarkersTypeOK' /\ SequencesKnown'
    BY <1>1, MarkersStay DEF AcceptanceInv, AcceptanceTypeOK, MarkersKnown, SequencesKnown
<1>7. details' = details /\ sequences' = sequences
    BY <1>1 DEF markerVars
<1>8. ASSUME NEW x \in tasks' PROVE BlockID(x) # {} /\ x \in UNION {details[y].pastMarkers : y \in booked}
    <2>1. CASE x \in tasks
        BY <2>1 DEF AcceptanceInv, AcceptanceTypeOK, MarkersKnown
    <2>2. CASE x = m /\ BlockID(m) # {}
        BY <2>2 DEF BlockID
    <2> QED BY <1>1, <1>8, <2>1, <2>2
<1>9. AcceptanceTypeOK'
    <2>1. tasks' \subseteq UNION {details'[x].pastMarkers : x \in booked'}
        BY <1>1, <1>7, <1>8
    <2> QED BY <1>1, <1>5, <1>6, <1>7, <2>1 DEF AcceptanceInv, AcceptanceTypeOK
<1>10. MarkersKnown'
    <2>1. KnownMarkers' = KnownMarkers /\ \A x \in tasks' : BlockID(x)' # {}
        BY <1>1, <1>6, <1>8, MarkersStay
    <2> QED BY <1>1, <1>5, <1>6, <1>7, <2>1 DEF AcceptanceInv, MarkersKnown, SequencesKnown
<1>11. VotesKept'
    BY <1>1 DEF AcceptanceInv, VotesKept, Cast
<1>12. WalksSound' /\ WalksComplete'
    BY <1>1, WalksStay
<1> QED
    BY <1>9, <1>10, <1>11, <1>12 DEF AcceptanceInv

-----------------------------------------------------------------------------
(* The workers. *)

LEMMA GadgetStep ==
    ASSUME AcceptanceInv, UNCHANGED <<markerVars, booked, votes, cast, thread>>,
           tasks' \subseteq tasks, accepted' \subseteq booked,
           lastConfirmed' \in [SequenceIDs -> Nat],
           \A s \in SequenceIDs : lastConfirmed'[s] > 0 =>
                s \in DOMAIN sequences /\ lastConfirmed'[s] \in sequences[s].lowestIndex .. sequences[s].highestIndex,
           worker' \in [Worker -> Walk],
           \A w \in Worker : worker'[w].queue \subseteq worker'[w].pushed
    PROVE  AcceptanceTypeOK' /\ MarkersKnown' /\ VotesKept'
<1>1. /\ KnownMarkers' = KnownMarkers /\ \A x : BlockID(x)' = BlockID(x)
      /\ MarkersTypeOK' /\ SequencesKnown'
    BY MarkersStay DEF AcceptanceInv, AcceptanceTypeOK, MarkersKnown, SequencesKnown
<1>2. details' = details /\ sequences' = sequences
    BY DEF markerVars
<1>3. AcceptanceTypeOK'
    <2>1. tasks' \subseteq UNION {details'[x].pastMarkers : x \in booked'}
        BY <1>2 DEF AcceptanceInv, AcceptanceTypeOK
    <2> QED BY <1>1, <1>2, <2>1 DEF AcceptanceInv, AcceptanceTypeOK
<1>4. MarkersKnown'
    <2>1. \A x \in tasks' : BlockID(x)' # {}
        BY <1>1 DEF AcceptanceInv, MarkersKnown
    <2> QED BY <1>1, <1>2, <2>1 DEF AcceptanceInv, MarkersKnown, SequencesKnown
<1>5. VotesKept'
    BY DEF AcceptanceInv, VotesKept, Cast
<1> QED
    BY <1>3, <1>4, <1>5

(* What the handling of a marker writes. *)
LEMMA HandlingEffect ==
    ASSUME AcceptanceInv, NEW w \in Worker, NEW m \in tasks, HandleMarker(w, m)
    PROVE  /\ \A x \in Worker \ {w} : worker'[x] = worker[x]
           /\ IF IsMarkerConfirmed(m)
              THEN worker' = worker /\ lastConfirmed' = lastConfirmed
              ELSE /\ worker' \in [Worker -> Walk] /\ worker'[w].pc = "strong"
                   /\ worker'[w].queue = BlockID(m) /\ worker'[w].pushed = BlockID(m) /\ worker'[w].weak = {}
                   /\ lastConfirmed' \in [SequenceIDs -> Nat]
                   /\ lastConfirmed'[m[1]] \in {lastConfirmed[m[1]], m[2]}
                   /\ \A t \in SequenceIDs \ {m[1]} : lastConfirmed'[t] = lastConfirmed[t]
<1> DEFINE s == m[1]
           i == m[2]
           r == [Waiting EXCEPT !.pc = "strong", !.queue = BlockID(m), !.pushed = BlockID(m)]
           last == Max({lastConfirmed[s], i})
<1>1. s \in SequenceIDs /\ i \in Nat
    BY DEF AcceptanceInv, AcceptanceTypeOK, MarkersKnown, KnownMarkers
<1>2. lastConfirmed \in [SequenceIDs -> Nat] /\ worker \in [Worker -> Walk]
    BY DEF AcceptanceInv, AcceptanceTypeOK
<1>3. CASE IsMarkerConfirmed(m)
    BY <1>3 DEF HandleMarker
<1>4. CASE ~IsMarkerConfirmed(m)
    <2>1. lastConfirmed' = [lastConfirmed EXCEPT ![s] = last] /\ worker' = [worker EXCEPT ![w] = r]
        <3>1. lastConfirmed' = [lastConfirmed EXCEPT ![s] = Max({@, i})]
            BY <1>4 DEF HandleMarker, SetMarkerConfirmed
        <3> QED BY <1>1, <1>2, <1>4, <3>1 DEF HandleMarker
    <2>2. last \in {lastConfirmed[s], i}
        <3>1. lastConfirmed[s] + i \in Nat /\ {lastConfirmed[s], i} \in SUBSET (0 .. lastConfirmed[s] + i)
            BY <1>1, <1>2
        <3>2. {lastConfirmed[s], i} # {}
            OBVIOUS
        <3> HIDE DEF i, s
        <3> QED BY <3>1, <3>2, MaxOfNumbers
    <2>3. r \in Walk /\ r.pc = "strong" /\ r.queue = BlockID(m) /\ r.pushed = BlockID(m) /\ r.weak = {}
        <3>1. BlockID(m) \subseteq Block
            BY DEF BlockID, AcceptanceInv, AcceptanceTypeOK
        <3> QED BY <3>1 DEF Waiting, Walk
    <2> HIDE DEF last, r
    <2>4. worker' \in [Worker -> Walk] /\ worker'[w] = r /\ \A x \in Worker \ {w} : worker'[x] = worker[x]
        BY <1>2, <2>1, <2>3
    <2>5. /\ lastConfirmed' \in [SequenceIDs -> Nat] /\ lastConfirmed'[s] = last
          /\ \A t \in SequenceIDs \ {s} : lastConfirmed'[t] = lastConfirmed[t]
        BY <1>1, <1>2, <2>1, <2>2
    <2> QED BY <1>4, <2>2, <2>3, <2>4, <2>5
<1> QED
    BY <1>3, <1>4

LEMMA HandlingKeepsInv ==
    ASSUME AcceptanceInv, NEW w \in Worker, NEW m \in tasks, HandleMarker(w, m)
    PROVE  AcceptanceInv'
<1> DEFINE s == m[1]
           i == m[2]
           begin == ~IsMarkerConfirmed(m)
<1>1. /\ UNCHANGED <<markerVars, booked, votes, cast, accepted, thread>>
      /\ worker[w].pc = "idle" /\ tasks' = tasks \ {m}
    BY DEF HandleMarker
<1>2. m \in KnownMarkers /\ BlockID(m) # {} /\ BlockID(m) \subseteq booked
    BY DEF AcceptanceInv, AcceptanceTypeOK, MarkersKnown, BlockID
<1>3. /\ s \in SequenceIDs /\ s \in DOMAIN sequences /\ i \in Nat /\ m = <<s, i>>
      /\ i \in sequences[s].lowestIndex .. sequences[s].highestIndex
    BY <1>2 DEF KnownMarkers
<1>4. lastConfirmed \in [SequenceIDs -> Nat] /\ worker \in [Worker -> Walk] /\ booked \subseteq Block
    BY DEF AcceptanceInv, AcceptanceTypeOK
<1>5. details' = details /\ AcceptedWeakly' = AcceptedWeakly
    BY <1>1 DEF markerVars, AcceptedWeakly
<1>6. CASE ~begin
    <2>1. lastConfirmed' = lastConfirmed /\ worker' = worker
        BY <1>6 DEF HandleMarker
    <2>2. AcceptanceTypeOK' /\ MarkersKnown' /\ VotesKept'
        <3>1. tasks' \subseteq tasks /\ accepted' \subseteq booked
            BY <1>1 DEF AcceptanceInv, AcceptanceTypeOK
        <3> QED BY <1>1, <2>1, <3>1, GadgetStep DEF AcceptanceInv, AcceptanceTypeOK
    <2>3. WalksSound' /\ WalksComplete'
        BY <1>1, <2>1, WalksStay
    <2> QED BY <2>2, <2>3 DEF AcceptanceInv
<1>7. CASE begin
    <2> DEFINE last == lastConfirmed'[s]
               r == worker'[w]
    <2>2. last \in {lastConfirmed[s], i}
        BY <1>7, HandlingEffect
    <2>3. r.pc = "strong" /\ r.queue = BlockID(m) /\ r.pushed = BlockID(m) /\ r.weak = {}
        BY <1>7, HandlingEffect
    <2>4. /\ worker' \in [Worker -> Walk] /\ worker'[w] = r
          /\ \A x \in Worker \ {w} : worker'[x] = worker[x]
        BY <1>7, HandlingEffect
    <2>5. /\ lastConfirmed' \in [SequenceIDs -> Nat] /\ lastConfirmed'[s] = last
          /\ \A t \in SequenceIDs \ {s} : lastConfirmed'[t] = lastConfirmed[t]
        BY <1>7, HandlingEffect
    <2> HIDE DEF last, r
    <2>6. AcceptanceTypeOK' /\ MarkersKnown' /\ VotesKept'
        <3>1. tasks' \subseteq tasks /\ accepted' \subseteq booked
            BY <1>1 DEF AcceptanceInv, AcceptanceTypeOK
        <3>2. \A x \in Worker : worker'[x].queue \subseteq worker'[x].pushed
            BY <2>3, <2>4 DEF AcceptanceInv, AcceptanceTypeOK
        <3>3. ASSUME NEW t \in SequenceIDs, lastConfirmed'[t] > 0
              PROVE  t \in DOMAIN sequences /\ lastConfirmed'[t] \in sequences[t].lowestIndex .. sequences[t].highestIndex
            <4>1. CASE lastConfirmed'[t] = lastConfirmed[t]
                BY <3>3, <4>1 DEF AcceptanceInv, AcceptanceTypeOK
            <4>2. CASE t = s /\ lastConfirmed'[t] = i
                BY <1>3, <4>2
            <4> QED BY <2>2, <2>5, <4>1, <4>2
        <3> QED BY <1>1, <2>4, <2>5, <3>1, <3>2, <3>3, GadgetStep
    <2>7. WalksSound'
        <3>1. ASSUME NEW x \in Worker
              PROVE  /\ worker'[x].pushed \subseteq booked /\ worker'[x].weak \subseteq AcceptedWeakly \cap booked
                     /\ worker'[x].pushed \ worker'[x].queue \subseteq accepted
                     /\ worker'[x].pc # "strong" => worker'[x].queue = {}
                     /\ worker'[x].pc = "idle" => worker'[x].pushed = {}
            <4>1. CASE x = w
                BY <1>2, <2>3, <2>4, <4>1
            <4>2. CASE x # w
                BY <2>4, <4>2 DEF AcceptanceInv, WalksSound
            <4> QED BY <4>1, <4>2
        <3> QED BY <1>1, <1>5, <3>1 DEF WalksSound
    <2>8. ASSUME NEW S, Queued(S) PROVE \E x \in Worker : worker'[x].queue \cap S # {}
        <3>1. PICK x \in Worker : worker[x].queue \cap S # {}
            BY <2>8 DEF Queued
        <3>2. x # w
            BY <1>1, <3>1 DEF AcceptanceInv, WalksSound
        <3> QED BY <2>4, <3>1, <3>2
    <2>9. WalksComplete'
        <3>1. ASSUME NEW x \in accepted' \ AcceptedWeakly', NEW p \in StrongParents[x]
              PROVE  (p \in accepted \/ Queued({p}))'
            <4>1. p \in accepted \/ Queued({p})
                BY <1>1, <1>5 DEF AcceptanceInv, WalksComplete
            <4>2. p \in accepted \/ \E y \in Worker : worker'[y].queue \cap {p} # {}
                BY <2>8, <4>1
            <4> QED BY <1>1, <4>2 DEF Queued
        <3>2. ASSUME NEW t \in SequenceIDs, lastConfirmed'[t] > 0
              PROVE  \/ BlockID(<<t, lastConfirmed'[t]>>) \cap accepted # {}
                     \/ \E y \in Worker : worker'[y].queue \cap BlockID(<<t, lastConfirmed'[t]>>) # {}
            <4>1. CASE lastConfirmed'[t] = lastConfirmed[t]
                BY <2>8, <3>2, <4>1 DEF AcceptanceInv, WalksComplete
            <4>2. CASE t = s /\ lastConfirmed'[t] = i
                <5>1. worker'[w].queue \cap BlockID(<<t, lastConfirmed'[t]>>) # {}
                    BY <1>2, <1>3, <2>3, <2>4, <4>2
                <5> QED BY <5>1
            <4> QED BY <2>2, <2>5, <4>1, <4>2
        <3>3. ASSUME NEW t \in SequenceIDs, lastConfirmed'[t] > 0
              PROVE  (BlockID(<<t, lastConfirmed[t]>>) \cap accepted # {} \/ Queued(BlockID(<<t, lastConfirmed[t]>>)))'
            BY <1>1, <1>5, <3>2, <3>3 DEF BlockID, Queued
        <3> QED BY <3>1, <3>3 DEF WalksComplete
    <2> QED BY <2>6, <2>7, <2>9 DEF AcceptanceInv
<1> QED
    BY <1>6, <1>7

(* A block is visited: what was queued is queued or accepted. *)
Visits ==
    /\ UNCHANGED <<markerVars, booked, votes, cast, lastConfirmed, thread, tasks>>
    /\ accepted \subseteq accepted' /\ accepted' \subseteq booked
    /\ worker' \in [Worker -> Walk]
    /\ \A w \in Worker : worker'[w].queue \subseteq worker'[w].pushed
    /\ \A w \in Worker : worker[w].queue \subseteq worker'[w].queue \cup accepted'

LEMMA VisitStep ==
    ASSUME AcceptanceInv, Visits
    PROVE  /\ AcceptanceTypeOK' /\ MarkersKnown' /\ VotesKept'
           /\ AcceptedWeakly \subseteq AcceptedWeakly'
           /\ \A p : p \in accepted \/ Queued({p}) => (p \in accepted \/ Queued({p}))'
           /\ \A s \in SequenceIDs : lastConfirmed'[s] > 0 =>
                    (BlockID(<<s, lastConfirmed[s]>>) \cap accepted # {} \/ Queued(BlockID(<<s, lastConfirmed[s]>>)))'
<1>1. /\ UNCHANGED <<markerVars, booked, votes, cast, lastConfirmed, thread, tasks>>
      /\ accepted \subseteq accepted' /\ accepted' \subseteq booked
      /\ worker' \in [Worker -> Walk]
      /\ \A w \in Worker : worker'[w].queue \subseteq worker'[w].pushed
      /\ \A w \in Worker : worker[w].queue \subseteq worker'[w].queue \cup accepted'
    BY DEF Visits
<1>2. AcceptanceTypeOK' /\ MarkersKnown' /\ VotesKept'
    BY <1>1, GadgetStep DEF AcceptanceInv, AcceptanceTypeOK
<1>3. AcceptedWeakly \subseteq AcceptedWeakly'
    BY <1>1 DEF AcceptedWeakly
<1>4. ASSUME NEW p, p \in accepted \/ Queued({p}) PROVE (p \in accepted \/ Queued({p}))'
    BY <1>1, <1>4 DEF Queued
<1>5. ASSUME NEW s \in SequenceIDs, lastConfirmed'[s] > 0
      PROVE  (BlockID(<<s, lastConfirmed[s]>>) \cap accepted # {} \/ Queued(BlockID(<<s, lastConfirmed[s]>>)))'
    <2> DEFINE B == BlockID(<<s, lastConfirmed[s]>>)
    <2>1. B \cap accepted # {} \/ Queued(B)
        BY <1>1, <1>5 DEF AcceptanceInv, WalksComplete
    <2>2. BlockID(<<s, lastConfirmed[s]>>)' = B
        BY <1>1 DEF BlockID, markerVars
    <2> HIDE DEF B
    <2>3. B \cap accepted' # {} \/ \E w \in Worker : worker'[w].queue \cap B # {}
        BY <1>1, <2>1 DEF Queued
    <2> QED BY <2>2, <2>3 DEF Queued
<1> QED
    BY <1>2, <1>3, <1>4, <1>5

(* What the visits write. *)
LEMMA StrongVisitEffect ==
    ASSUME AcceptanceInv, NEW w \in Worker, NEW b \in worker[w].queue, VisitStrong(w, b)
    PROVE  \E r \in Walk :
                /\ worker' = [worker EXCEPT ![w] = r]
                /\ r.pc = "strong"
                /\ r.queue = (worker[w].queue \ {b}) \cup (ToVisit(b) \ worker[w].pushed)
                /\ r.pushed = worker[w].pushed \cup ToVisit(b)
                /\ r.weak = IF b \in accepted THEN worker[w].weak ELSE worker[w].weak \cup WeakParents[b]
<1> DEFINE old == worker[w]
           r == [old EXCEPT !.queue = (old.queue \ {b}) \cup (ToVisit(b) \ old.pushed),
                            !.pushed = old.pushed \cup ToVisit(b),
                            !.weak = IF b \in accepted THEN old.weak ELSE old.weak \cup WeakParents[b]]
<1>1. worker \in [Worker -> Walk] /\ old \in Walk /\ old.pc = "strong"
    BY DEF VisitStrong, AcceptanceInv, AcceptanceTypeOK
<1>2. worker' = [worker EXCEPT ![w] = r]
    <2>1. worker' = [worker EXCEPT
            ![w].queue = (@ \ {b}) \cup (ToVisit(b) \ worker[w].pushed),
            ![w].pushed = @ \cup ToVisit(b),
            ![w].weak = IF b \in accepted THEN @ ELSE @ \cup WeakParents[b]]
        BY DEF VisitStrong
    <2> QED BY <1>1, <2>1 DEF Walk
<1>3. StrongParents[b] \cup WeakParents[b] \subseteq Block
    BY DEF AcceptanceInv, AcceptanceTypeOK, WalksSound, MarkersKnown
<1>4. ToVisit(b) \subseteq Block
    BY <1>3 DEF ToVisit
<1> HIDE DEF old
<1>5. /\ r \in Walk /\ r.pc = "strong"
      /\ r.queue = (old.queue \ {b}) \cup (ToVisit(b) \ old.pushed)
      /\ r.pushed = old.pushed \cup ToVisit(b)
      /\ r.weak = IF b \in accepted THEN old.weak ELSE old.weak \cup WeakParents[b]
    BY <1>1, <1>3, <1>4 DEF Walk
<1> HIDE DEF r
<1> QED
    BY <1>2, <1>5 DEF old

LEMMA WeakVisitEffect ==
    ASSUME AcceptanceInv, NEW w \in Worker, VisitWeak(w)
    PROVE  \E r \in Walk :
                /\ worker' = [worker EXCEPT ![w] = r]
                /\ r.queue = {} /\ r.pc # "strong"
                /\ r.pushed \subseteq worker[w].pushed /\ r.weak \subseteq worker[w].weak
                /\ r.pc = "idle" => r.pushed = {}
                /\ accepted' = accepted \/ \E b \in worker[w].weak : accepted' = accepted \cup {b}
<1> DEFINE old == worker[w]
<1>1. worker \in [Worker -> Walk] /\ old \in Walk /\ old.queue = {}
    BY DEF VisitWeak, AcceptanceInv, AcceptanceTypeOK
<1>2. CASE old.weak \subseteq old.pushed
    <2>1. worker' = [worker EXCEPT ![w] = Waiting] /\ accepted' = accepted
        BY <1>2 DEF VisitWeak
    <2>2. Waiting \in Walk /\ Waiting.queue = {} /\ Waiting.pc = "idle" /\ Waiting.pushed = {} /\ Waiting.weak = {}
        BY DEF Waiting, Walk
    <2> QED BY <2>1, <2>2
<1>3. CASE ~(old.weak \subseteq old.pushed)
    <2>1. PICK b \in old.weak \ old.pushed :
            /\ accepted' = accepted \cup {b}
            /\ worker' = [worker EXCEPT ![w].pc = "weak", ![w].weak = @ \ {b}]
        BY <1>3 DEF VisitWeak
    <2> DEFINE r == [old EXCEPT !.pc = "weak", !.weak = old.weak \ {b}]
    <2>2. worker' = [worker EXCEPT ![w] = r]
        BY <1>1, <2>1 DEF Walk
    <2> HIDE DEF old
    <2>3. r \in Walk /\ r.pc = "weak" /\ r.queue = old.queue /\ r.pushed = old.pushed /\ r.weak = old.weak \ {b}
        BY <1>1 DEF Walk
    <2> HIDE DEF r
    <2>4. r.pc # "strong" /\ r.pc # "idle" /\ r.weak \subseteq old.weak
        BY <2>3
    <2> QED BY <1>1, <2>1, <2>2, <2>3, <2>4 DEF old
<1> QED
    BY <1>2, <1>3

LEMMA StrongVisitVisits ==
    ASSUME AcceptanceInv, NEW w \in Worker, NEW b \in worker[w].queue, VisitStrong(w, b)
    PROVE  Visits
<1>1. /\ UNCHANGED <<markerVars, booked, votes, cast, lastConfirmed, thread, tasks>>
      /\ accepted' = accepted \cup {b}
    BY DEF VisitStrong
<1>2. worker \in [Worker -> Walk]
    BY DEF AcceptanceInv, AcceptanceTypeOK
<1>3. PICK r \in Walk :
        /\ worker' = [worker EXCEPT ![w] = r]
        /\ r.pc = "strong"
        /\ r.queue = (worker[w].queue \ {b}) \cup (ToVisit(b) \ worker[w].pushed)
        /\ r.pushed = worker[w].pushed \cup ToVisit(b)
        /\ r.weak = IF b \in accepted THEN worker[w].weak ELSE worker[w].weak \cup WeakParents[b]
    BY StrongVisitEffect
<1>4. worker' \in [Worker -> Walk] /\ worker'[w] = r /\ \A x \in Worker \ {w} : worker'[x] = worker[x]
    BY <1>2, <1>3
<1>5. worker[w].queue \subseteq worker[w].pushed /\ accepted' \subseteq booked
    BY <1>1 DEF AcceptanceInv, AcceptanceTypeOK, WalksSound
<1>6. \A x \in Worker : /\ worker'[x].queue \subseteq worker'[x].pushed
                        /\ worker[x].queue \subseteq worker'[x].queue \cup accepted'
    BY <1>1, <1>3, <1>4, <1>5 DEF AcceptanceInv, AcceptanceTypeOK
<1> QED
    BY <1>1, <1>4, <1>5, <1>6 DEF Visits

LEMMA WeakVisitVisits ==
    ASSUME AcceptanceInv, NEW w \in Worker, VisitWeak(w)
    PROVE  Visits
<1>1. /\ UNCHANGED <<markerVars, booked, votes, cast, lastConfirmed, thread, tasks>>
      /\ worker[w].queue = {}
    BY DEF VisitWeak
<1>2. worker \in [Worker -> Walk]
    BY DEF AcceptanceInv, AcceptanceTypeOK
<1>3. PICK r \in Walk :
        /\ worker' = [worker EXCEPT ![w] = r]
        /\ r.queue = {}
        /\ accepted' = accepted \/ \E b \in worker[w].weak : accepted' = accepted \cup {b}
    BY WeakVisitEffect
<1>4. worker' \in [Worker -> Walk] /\ worker'[w] = r /\ \A x \in Worker \ {w} : worker'[x] = worker[x]
    BY <1>2, <1>3
<1>5. accepted \subseteq accepted' /\ accepted' \subseteq booked
    BY <1>3 DEF AcceptanceInv, AcceptanceTypeOK, WalksSound
<1>6. \A x \in Worker : /\ worker'[x].queue \subseteq worker'[x].pushed
                        /\ worker[x].queue \subseteq worker'[x].queue \cup accepted'
    BY <1>1, <1>3, <1>4 DEF AcceptanceInv, AcceptanceTypeOK
<1> QED
    BY <1>1, <1>4, <1>5, <1>6 DEF Visits

LEMMA StrongVisitKeepsInv ==
    ASSUME AcceptanceInv, NEW w \in Worker, NEW b \in worker[w].queue, VisitStrong(w, b)
    PROVE  AcceptanceInv'
<1> DEFINE old == worker[w]
<1>1. /\ UNCHANGED <<markerVars, booked, votes, cast, lastConfirmed, thread, tasks>>
      /\ old.pc = "strong" /\ accepted' = accepted \cup {b}
    BY DEF VisitStrong
<1>2. worker \in [Worker -> Walk]
    BY DEF AcceptanceInv, AcceptanceTypeOK
<1>3. PICK r \in Walk :
        /\ worker' = [worker EXCEPT ![w] = r]
        /\ r.pc = "strong"
        /\ r.queue = (old.queue \ {b}) \cup (ToVisit(b) \ old.pushed)
        /\ r.pushed = old.pushed \cup ToVisit(b)
        /\ r.weak = IF b \in accepted THEN old.weak ELSE old.weak \cup WeakParents[b]
    BY StrongVisitEffect
<1>4. /\ old.pushed \subseteq booked /\ old.weak \subseteq AcceptedWeakly \cap booked
      /\ old.pushed \ old.queue \subseteq accepted /\ old.queue \subseteq old.pushed
    BY DEF AcceptanceInv, AcceptanceTypeOK, WalksSound
<1>5. b \in booked /\ b \in Block /\ StrongParents[b] \cup WeakParents[b] \subseteq booked /\ booked \subseteq Block
      /\ accepted \subseteq booked
    BY <1>4 DEF AcceptanceInv, AcceptanceTypeOK, MarkersKnown
<1>6. ToVisit(b) \subseteq booked
    BY <1>5 DEF ToVisit
<1> HIDE DEF old
<1>7. worker' \in [Worker -> Walk] /\ worker'[w] = r /\ \A x \in Worker \ {w} : worker'[x] = worker[x]
    BY <1>2, <1>3
<1>8. Visits
    BY StrongVisitVisits
<1>9. WeakParents[b] \subseteq AcceptedWeakly' /\ AcceptedWeakly \subseteq AcceptedWeakly'
    BY <1>1, <1>8, VisitStep DEF AcceptedWeakly
<1>10. WalksSound'
    <2>1. ASSUME NEW x \in Worker
          PROVE  /\ worker'[x].pushed \subseteq booked /\ worker'[x].weak \subseteq AcceptedWeakly' \cap booked
                 /\ worker'[x].pushed \ worker'[x].queue \subseteq accepted'
                 /\ worker'[x].pc # "strong" => worker'[x].queue = {}
                 /\ worker'[x].pc = "idle" => worker'[x].pushed = {}
        <3>1. CASE x = w
            BY <1>1, <1>4, <1>5, <1>6, <1>3, <1>7, <1>9, <3>1
        <3>2. CASE x # w
            BY <1>1, <1>7, <1>9, <3>2 DEF AcceptanceInv, WalksSound
        <3> QED BY <3>1, <3>2
    <2> QED BY <1>1, <2>1 DEF WalksSound
<1>11. ASSUME NEW x \in accepted' \ AcceptedWeakly', NEW p \in StrongParents[x]
       PROVE  (p \in accepted \/ Queued({p}))'
    <2>1. CASE x \in accepted
        <3>1. p \in accepted \/ Queued({p})
            BY <1>9, <2>1 DEF AcceptanceInv, WalksComplete
        <3> QED BY <1>8, <3>1, VisitStep
    <2>2. CASE x = b /\ b \notin accepted
        <3>1. p \in ToVisit(b)
            BY <2>2 DEF ToVisit
        <3>2. p \in accepted' \/ p \in r.queue
            BY <1>1, <1>4, <1>3, <3>1
        <3> QED BY <1>7, <3>2 DEF Queued
    <2> QED BY <1>1, <2>1, <2>2
<1>12. WalksComplete'
    BY <1>8, <1>11, VisitStep DEF WalksComplete
<1> QED
    BY <1>8, <1>10, <1>12, VisitStep DEF AcceptanceInv

LEMMA WeakVisitKeepsInv ==
    ASSUME AcceptanceInv, NEW w \in Worker, VisitWeak(w)
    PROVE  AcceptanceInv'
<1> DEFINE old == worker[w]
<1>1. /\ UNCHANGED <<markerVars, booked, votes, cast, lastConfirmed, thread, tasks>>
      /\ old.queue = {}
    BY DEF VisitWeak
<1>2. worker \in [Worker -> Walk] /\ old \in Walk /\ accepted \subseteq booked
    BY DEF AcceptanceInv, AcceptanceTypeOK
<1>3. /\ old.pushed \subseteq booked /\ old.weak \subseteq AcceptedWeakly \cap booked
      /\ old.pushed \ old.queue \subseteq accepted
    BY DEF AcceptanceInv, WalksSound
(* Whatever it does, the worker is left without a block to visit along strong parents. *)
<1>4. PICK r \in Walk :
        /\ worker' = [worker EXCEPT ![w] = r]
        /\ r.queue = {} /\ r.pc # "strong"
        /\ r.pushed \subseteq old.pushed /\ r.weak \subseteq old.weak
        /\ r.pc = "idle" => r.pushed = {}
        /\ accepted' = accepted \/ \E b \in old.weak : accepted' = accepted \cup {b}
    BY WeakVisitEffect
<1>5. worker' \in [Worker -> Walk] /\ worker'[w] = r /\ \A x \in Worker \ {w} : worker'[x] = worker[x]
    BY <1>2, <1>4
<1>6. accepted \subseteq accepted' /\ accepted' \subseteq booked /\ accepted' \ accepted \subseteq AcceptedWeakly
    BY <1>2, <1>3, <1>4
<1>7. Visits
    BY WeakVisitVisits
<1>8. AcceptedWeakly \subseteq AcceptedWeakly'
    BY <1>7, VisitStep
<1>9. WalksSound'
    <2>1. ASSUME NEW x \in Worker
          PROVE  /\ worker'[x].pushed \subseteq booked /\ worker'[x].weak \subseteq AcceptedWeakly' \cap booked
                 /\ worker'[x].pushed \ worker'[x].queue \subseteq accepted'
                 /\ worker'[x].pc # "strong" => worker'[x].queue = {}
                 /\ worker'[x].pc = "idle" => worker'[x].pushed = {}
        <3>1. CASE x = w
            BY <1>1, <1>3, <1>4, <1>5, <1>6, <1>8, <3>1
        <3>2. CASE x # w
            BY <1>5, <1>6, <1>8, <3>2 DEF AcceptanceInv, WalksSound
        <3> QED BY <3>1, <3>2
    <2> QED BY <1>1, <2>1 DEF WalksSound
<1>10. ASSUME NEW x \in accepted' \ AcceptedWeakly', NEW p \in StrongParents[x]
       PROVE  (p \in accepted \/ Queued({p}))'
    <2>1. p \in accepted \/ Queued({p})
        BY <1>6, <1>8 DEF AcceptanceInv, WalksComplete
    <2> QED BY <1>7, <2>1, VisitStep
<1>11. WalksComplete'
    BY <1>7, <1>10, VisitStep DEF WalksComplete
<1> QED
    BY <1>7, <1>9, <1>11, VisitStep DEF AcceptanceInv

-----------------------------------------------------------------------------
(* What the markers of a block say about its past cone. *)

(* A past cone holds blocks, and the past cones of what it holds. *)
LEMMA PastConeClosed ==
    ASSUME NEW b \in Block
    PROVE  /\ b \in PastCone[b] /\ PastCone[b] \subseteq Block
           /\ \A x \in PastCone[b] : PastCone[x] \subseteq PastCone[b]
           /\ \A p \in StrongParents[b] : PastCone[p] \subseteq PastCone[b]
<1> DEFINE Closed(y) == PastCone[y] \subseteq Block /\ \A x \in PastCone[y] : PastCone[x] \subseteq PastCone[y]
           C == {y \in Block : ~Closed(y)}
<1>1. \A y \in Block : StrongParents[y] \subseteq Block
    BY MarkersAssumption
<1>2. ASSUME C # {} PROVE FALSE
    <2>1. PICK y \in C : StrongParents[y] \cap C = {}
        <3>1. C \in SUBSET Block
            OBVIOUS
        <3> HIDE DEF C
        <3> QED BY <1>2, <3>1, MarkersAssumption
    <2>2. PastCone[y] = {y} \cup UNION {PastCone[p] : p \in StrongParents[y]}
        BY PastConeUnfolds
    <2>3. \A p \in StrongParents[y] : Closed(p)
        BY <1>1, <2>1
    <2>4. PastCone[y] \subseteq Block
        BY <2>2, <2>3
    <2>5. ASSUME NEW x \in PastCone[y] PROVE PastCone[x] \subseteq PastCone[y]
        <3>1. CASE x = y
            BY <3>1
        <3>2. CASE x # y
            <4>1. PICK p \in StrongParents[y] : x \in PastCone[p]
                BY <2>2, <3>2
            <4>2. PastCone[x] \subseteq PastCone[p] /\ PastCone[p] \subseteq PastCone[y]
                BY <2>2, <2>3, <4>1
            <4> QED BY <4>2
        <3> QED BY <3>1, <3>2
    <2> QED BY <2>1, <2>4, <2>5
<1>3. Closed(b)
    BY <1>2
<1> QED
    BY <1>3, PastConeUnfolds

(* The blocks of the markers up to m are in the past cone of b. *)
Above(b, m) == \A i \in 0 .. m[2] : BlockID(<<m[1], i>>) \subseteq PastCone[b]

(* A block is above its past markers, a marker above what it references, and a handler votes for *)
(* what its block is above.  A marker has one block.                                             *)
MarkersBelow ==
    /\ \A b \in booked : \A m \in details[b].pastMarkers : Above(b, m)
    /\ \A s \in DOMAIN sequences : \A e \in sequences[s].referenced :
            \E x \in BlockID(<<s, e[1]>>) : Above(x, e[2])
    /\ \A b \in Block : \A m \in thread[b].pushed : Above(b, m)
    /\ \A s \in SequenceIDs, v \in Voter : \A e \in votes[s][v] :
            <<s, e[1]>> \in KnownMarkers /\ \E b \in booked : Issuer[b] = v /\ Above(b, <<s, e[1]>>)
    /\ \A b \in booked : details[b].isPastMarker =>
            \A m \in details[b].pastMarkers : m[2] > 0 /\ \A x \in BlockID(m) : x = b

LEMMA AboveInherited ==
    ASSUME NEW b \in Block, NEW x \in PastCone[b], NEW m, Above(x, m)
    PROVE  Above(b, m)
    BY PastConeClosed DEF Above

(* The blocks of markers that are known do not change. *)
LEMMA MarkersFixed ==
    ASSUME AcceptanceInv, NEW b \in Block, BookBlock(b), NEW m \in KnownMarkers, NEW i \in 0 .. m[2]
    PROVE  BlockID(<<m[1], i>>)' = BlockID(<<m[1], i>>)
<1> DEFINE n == <<m[1], i>>
<1>1. BlockID(n) \subseteq BlockID(n)'
    BY BookingGrows DEF Grows
<1>2. ASSUME NEW x \in BlockID(n)' PROVE x \in BlockID(n)
    <2>1. x \in booked' /\ details'[x].isPastMarker /\ n \in details'[x].pastMarkers /\ booked' = booked \cup {b}
        BY DEF BlockID, BookBlock
    <2>2. CASE x # b
        <3>1. x \in booked /\ details'[x] = details[x]
            BY <2>1, <2>2, BookingEffect DEF AcceptanceInv, AcceptanceTypeOK
        <3> QED BY <2>1, <3>1 DEF BlockID
    <2>3. CASE x = b
        <3>1. NextMarker(n)
            BY <2>1, <2>3, BookingEffect
        <3>2. m[1] \in DOMAIN sequences /\ sequences[m[1]] \in Sequence
              /\ m[2] \in sequences[m[1]].lowestIndex .. sequences[m[1]].highestIndex
            BY KnownMarkersBounded DEF KnownMarkers
        <3>3. sequences[m[1]].highestIndex < i
            BY <3>1, <3>2 DEF NextMarker
        <3>4. sequences[m[1]].highestIndex \in Nat /\ sequences[m[1]].lowestIndex \in Nat
            BY <3>2 DEF Sequence
        <3> QED BY <3>2, <3>3, <3>4
    <2> QED BY <2>2, <2>3
<1> QED
    BY <1>1, <1>2

LEMMA AboveStays ==
    ASSUME AcceptanceInv, NEW b \in Block, BookBlock(b), NEW m \in KnownMarkers, NEW x, Above(x, m)
    PROVE  Above(x, m)'
    BY MarkersFixed DEF Above

(* The markers a block inherits are those of its parents, or that of the genesis. *)
LEMMA InheritedBelow ==
    ASSUME AcceptanceInv, MarkersBelow, NEW b \in Block, BookBlock(b)
    PROVE  \A m \in MergedDetails(b).pastMarkers : m \in KnownMarkers /\ Above(b, m)
<1>1. StrongParents[b] \subseteq booked /\ booked \subseteq Block
    BY DEF BookBlock, AcceptanceInv, AcceptanceTypeOK
<1>2. Above(b, <<0, 0>>)
    <2>1. BlockID(<<0, 0>>) = {}
        <3>1. ASSUME NEW x \in BlockID(<<0, 0>>) PROVE FALSE
            BY DEF BlockID, MarkersBelow
        <3> QED BY <3>1
    <2>2. \A i \in 0 .. 0 : i = 0
        OBVIOUS
    <2> QED BY <2>1, <2>2 DEF Above
<1>3. ASSUME NEW p \in StrongParents[b], NEW m \in details[p].pastMarkers PROVE Above(b, m)
    <2>1. Above(p, m)
        BY <1>1 DEF MarkersBelow
    <2>2. p \in PastCone[b]
        BY <1>1, PastConeClosed
    <2> QED BY <2>1, <2>2, AboveInherited
<1> QED
    BY <1>2, <1>3, MergedFromParents

(* A block that becomes a marker is above the markers of its sequence. *)
LEMMA NewMarkerAbove ==
    ASSUME AcceptanceInv, MarkersBelow, NEW b \in Block, BookBlock(b),
           NEW m, NextMarker(m), EndsSequence(m, MergedDetails(b).pastMarkers),
           details'[b].isPastMarker, details'[b].pastMarkers = {m}
    PROVE  /\ BlockID(m)' = {b} /\ m \notin KnownMarkers /\ m[2] > 0 /\ m = <<m[1], m[2]>>
           /\ Above(b, m)'
<1>1. booked \subseteq Block /\ booked' = booked \cup {b} /\ b \notin booked
    BY DEF BookBlock, AcceptanceInv, AcceptanceTypeOK
<1>2. m = <<m[1], m[2]>> /\ m[2] \in Nat \ {0} /\ m[1] \in SequenceIDs
    <2>1. Cardinality(booked) \in Nat
        BY <1>1, BookedCounted
    <2> QED BY <2>1 DEF NextMarker
<1>3. ASSUME m[1] \in DOMAIN sequences
      PROVE  sequences[m[1]].highestIndex < m[2] /\ sequences[m[1]].highestIndex \in Nat /\ sequences[m[1]].lowestIndex \in Nat
    BY <1>3, KnownMarkersBounded DEF NextMarker, Sequence
<1>4. m \notin KnownMarkers
    BY <1>2, <1>3 DEF KnownMarkers
<1>5. \A x \in booked : details'[x] = details[x] /\ details[x].pastMarkers \subseteq KnownMarkers
    BY <1>1, BookingEffect DEF AcceptanceInv, MarkersKnown
<1>6. BlockID(m)' = {b}
    BY <1>1, <1>4, <1>5 DEF BlockID
<1>7. ASSUME NEW i \in 0 .. m[2], NEW x \in BlockID(<<m[1], i>>)' PROVE x \in PastCone[b]
    <2>1. CASE x = b
        BY <2>1, PastConeClosed
    <2>2. CASE x # b
        <3>1. x \in booked /\ details[x].isPastMarker /\ <<m[1], i>> \in details[x].pastMarkers
            BY <1>1, <1>5, <2>2 DEF BlockID
        <3>2. <<m[1], i>> \in KnownMarkers
            BY <1>5, <3>1
        <3> DEFINE h == sequences[m[1]].highestIndex
        <3>3. m[1] \in DOMAIN sequences /\ i \in Nat /\ i <= h
            <4>1. m[1] \in DOMAIN sequences /\ i \in sequences[m[1]].lowestIndex .. sequences[m[1]].highestIndex
                BY <3>2 DEF KnownMarkers
            <4> QED BY <1>3, <4>1
        <3>4. Above(b, <<m[1], h>>)
            BY <3>3, InheritedBelow DEF EndsSequence
        <3>5. i \in 0 .. h
            BY <1>3, <3>3
        <3> HIDE DEF h
        <3>6. x \in BlockID(<<m[1], i>>)
            BY <3>1 DEF BlockID
        <3> QED BY <3>4, <3>5, <3>6 DEF Above
    <2> QED BY <2>1, <2>2
<1> QED
    BY <1>2, <1>4, <1>6, <1>7 DEF Above

LEMMA BookingKeepsBelow ==
    ASSUME AcceptanceInv, MarkersBelow, NEW b \in Block, BookBlock(b)
    PROVE  MarkersBelow'
<1> DEFINE P == MergedDetails(b).pastMarkers
<1>1. booked \subseteq Block /\ booked' = booked \cup {b} /\ b \notin booked /\ votes' = votes
    BY DEF BookBlock, AcceptanceInv, AcceptanceTypeOK
<1>2. \A x \in Block \ {b} : details'[x] = details[x] /\ thread'[x] = thread[x]
    BY BookingEffect
<1>3. /\ KnownMarkers \subseteq KnownMarkers' /\ DOMAIN sequences \subseteq DOMAIN sequences'
      /\ \A m : BlockID(m) \subseteq BlockID(m)'
    BY BookingGrows DEF Grows
<1>4. \A x, m : m \in KnownMarkers /\ Above(x, m) => Above(x, m)'
    BY AboveStays
<1>5. \A m \in P : m \in KnownMarkers /\ Above(b, m)
    BY InheritedBelow
<1>6. \A x \in Block : details[x].pastMarkers \subseteq KnownMarkers /\ thread[x].pushed \subseteq KnownMarkers
    BY DEF AcceptanceInv, MarkersKnown
<1>7. \A s \in DOMAIN sequences : sequences[s].referenced \subseteq Nat \X KnownMarkers
    BY DEF AcceptanceInv, MarkersKnown
(* All that b has to satisfy, as a marker or not. *)
<1>8. /\ \A m \in details'[b].pastMarkers \cup thread'[b].pushed : Above(b, m)'
      /\ \A s \in DOMAIN sequences' : \A e \in sequences'[s].referenced :
            \/ s \in DOMAIN sequences /\ e \in sequences[s].referenced
            \/ b \in BlockID(<<s, e[1]>>)' /\ e[2] \in P
      /\ details'[b].isPastMarker =>
            \A m \in details'[b].pastMarkers : m \notin KnownMarkers /\ m[2] > 0 /\ BlockID(m)' = {b}
    <2>1. CASE /\ sequences' = sequences /\ ~details'[b].isPastMarker
               /\ details'[b].pastMarkers \cup thread'[b].pushed \subseteq P
        BY <1>4, <1>5, <2>1
    <2>2. ASSUME NEW m, NextMarker(m), EndsSequence(m, P), References(m, P), Extended(m),
                 details'[b].isPastMarker, details'[b].pastMarkers = {m}, thread'[b].pushed \subseteq {m}
          PROVE  <1>8!1 /\ <1>8!2 /\ <1>8!3
        <3>1. /\ BlockID(m)' = {b} /\ m \notin KnownMarkers /\ m[2] > 0 /\ m = <<m[1], m[2]>>
              /\ Above(b, m)'
            BY <2>2, NewMarkerAbove
        <3>2. ASSUME NEW s \in DOMAIN sequences', NEW e \in sequences'[s].referenced
              PROVE  \/ s \in DOMAIN sequences /\ e \in sequences[s].referenced
                     \/ b \in BlockID(<<s, e[1]>>)' /\ e[2] \in P
            <4> HIDE DEF P
            <4> QED BY <2>2, <3>1 DEF References
        <3> QED BY <2>2, <3>1, <3>2
    <2> QED BY <2>1, <2>2, BookingEffect
<1> HIDE DEF P
<1>9. ASSUME NEW x \in booked', NEW m \in details'[x].pastMarkers PROVE Above(x, m)'
    <2>1. CASE x = b
        BY <1>8, <2>1
    <2>2. CASE x # b
        BY <1>1, <1>2, <1>4, <1>6, <2>2 DEF MarkersBelow
    <2> QED BY <2>1, <2>2
<1>10. ASSUME NEW s \in DOMAIN sequences', NEW e \in sequences'[s].referenced
       PROVE  \E x \in BlockID(<<s, e[1]>>)' : Above(x, e[2])'
    <2>1. CASE s \in DOMAIN sequences /\ e \in sequences[s].referenced
        <3>1. PICK x \in BlockID(<<s, e[1]>>) : Above(x, e[2])
            BY <2>1 DEF MarkersBelow
        <3>2. e[2] \in KnownMarkers
            BY <1>7, <2>1
        <3> QED BY <1>3, <1>4, <3>1, <3>2
    <2>2. CASE b \in BlockID(<<s, e[1]>>)' /\ e[2] \in P
        BY <1>4, <1>5, <2>2
    <2> QED BY <1>8, <2>1, <2>2
<1>11. ASSUME NEW x \in Block, NEW m \in thread'[x].pushed PROVE Above(x, m)'
    <2>1. CASE x = b
        BY <1>8, <2>1
    <2>2. CASE x # b
        BY <1>2, <1>4, <1>6, <2>2 DEF MarkersBelow
    <2> QED BY <2>1, <2>2
<1>12. ASSUME NEW s \in SequenceIDs, NEW v \in Voter, NEW e \in votes[s][v]
       PROVE  <<s, e[1]>> \in KnownMarkers' /\ \E x \in booked' : Issuer[x] = v /\ Above(x, <<s, e[1]>>)'
    BY <1>1, <1>3, <1>4 DEF MarkersBelow
<1>13. ASSUME NEW x \in booked', details'[x].isPastMarker, NEW m \in details'[x].pastMarkers
       PROVE  m[2] > 0 /\ \A y \in BlockID(m)' : y = x
    <2>1. CASE x = b
        BY <1>8, <1>13, <2>1
    <2>2. CASE x # b
        <3>1. x \in booked /\ details[x].isPastMarker /\ m \in details[x].pastMarkers /\ m \in KnownMarkers
            BY <1>1, <1>2, <1>6, <1>13, <2>2
        <3>2. ASSUME NEW y \in BlockID(m)' PROVE y \in BlockID(m)
            <4>1. y \in booked' /\ details'[y].isPastMarker /\ m \in details'[y].pastMarkers
                BY DEF BlockID
            <4>2. y # b
                BY <1>8, <3>1, <4>1
            <4> QED BY <1>1, <1>2, <4>1, <4>2 DEF BlockID
        <3> QED BY <3>1, <3>2 DEF MarkersBelow
    <2> QED BY <2>1, <2>2
<1> QED
    BY <1>1, <1>9, <1>10, <1>11, <1>12, <1>13 DEF MarkersBelow

LEMMA AboveFixed ==
    ASSUME UNCHANGED <<markerVars, booked>>
    PROVE  /\ \A x, m : Above(x, m)' <=> Above(x, m)
           /\ KnownMarkers' = KnownMarkers /\ details' = details /\ sequences' = sequences
           /\ \A m : BlockID(m)' = BlockID(m)
<1>1. \A m : BlockID(m)' = BlockID(m)
    BY MarkersStay
<1> QED
    BY <1>1, MarkersStay DEF Above, markerVars

(* What a marker references is below each of the sequence's markers from there on. *)
LEMMA ReferencedBelow ==
    ASSUME AcceptanceInv, MarkersBelow, NEW b \in Block, NEW m \in KnownMarkers, Above(b, m)
    PROVE  \A n \in ReferencedMarkers(m) : Above(b, n)
<1> SUFFICES ASSUME NEW n \in ReferencedMarkers(m) PROVE Above(b, n)
    OBVIOUS
<1>1. PICK e \in sequences[m[1]].referenced : e[1] <= m[2] /\ n = e[2]
    BY DEF ReferencedMarkers
<1>2. m[1] \in DOMAIN sequences /\ m[2] \in Nat /\ e[1] \in Nat
    BY DEF KnownMarkers, AcceptanceInv, MarkersKnown
<1>3. PICK x \in BlockID(<<m[1], e[1]>>) : Above(x, n)
    BY <1>1, <1>2 DEF MarkersBelow
<1>4. x \in PastCone[b]
    BY <1>1, <1>2, <1>3 DEF Above
<1> QED
    BY <1>3, <1>4, AboveInherited

LEMMA VotingKeepsBelow ==
    ASSUME AcceptanceInv, MarkersBelow, NEW b \in Block, NEW m \in thread[b].markers, AddVoteToMarker(b, m)
    PROVE  MarkersBelow'
<1>1. UNCHANGED <<markerVars, booked>> /\ b \in booked
    BY DEF AddVoteToMarker, AcceptanceInv, AcceptanceTypeOK
<1>2. m \in KnownMarkers /\ m \in thread[b].pushed /\ m = <<m[1], m[2]>>
    BY DEF AcceptanceInv, AcceptanceTypeOK, MarkersKnown, KnownMarkers
<1>3. Above(b, m)
    BY <1>2 DEF MarkersBelow
<1>4. PICK th : thread' = [thread EXCEPT ![b] = th] /\ th.pushed \subseteq thread[b].pushed \cup ReferencedMarkers(m)
    BY VotingKeepsHandlers
<1>5. thread'[b] = th /\ \A x \in Block \ {b} : thread'[x] = thread[x]
    BY <1>4 DEF AcceptanceInv, AcceptanceTypeOK
<1>6. ASSUME NEW x \in Block, NEW n \in thread'[x].pushed PROVE Above(x, n)
    <2>1. CASE x = b
        BY <1>2, <1>3, <1>4, <1>5, <2>1, ReferencedBelow DEF MarkersBelow
    <2>2. CASE x # b
        BY <1>5, <2>2 DEF MarkersBelow
    <2> QED BY <2>1, <2>2
<1>8. \A t \in SequenceIDs, x \in Voter : votes'[t][x] =
            IF t = m[1] /\ x = Issuer[b] /\ Stores(b, m)
            THEN Pruned(votes[t][x], m[2], SequenceNumber[b]) \cup {<<m[2], SequenceNumber[b]>>}
            ELSE votes[t][x]
    BY VotingKeepsVotes
<1>7. ASSUME NEW s \in SequenceIDs, NEW v \in Voter, NEW e \in votes'[s][v]
      PROVE  <<s, e[1]>> \in KnownMarkers /\ \E x \in booked : Issuer[x] = v /\ Above(x, <<s, e[1]>>)
    <2>1. CASE e \in votes[s][v]
        BY <2>1 DEF MarkersBelow
    <2>2. CASE e = <<m[2], SequenceNumber[b]>> /\ s = m[1] /\ v = Issuer[b]
        <3>1. <<s, e[1]>> = m
            BY <1>2, <2>2
        <3> QED BY <1>1, <1>2, <1>3, <2>2, <3>1
    <2>3. votes'[s][v] = IF s = m[1] /\ v = Issuer[b] /\ Stores(b, m)
                          THEN Pruned(votes[s][v], m[2], SequenceNumber[b]) \cup {<<m[2], SequenceNumber[b]>>}
                          ELSE votes[s][v]
        BY <1>8
    <2>4. Pruned(votes[s][v], m[2], SequenceNumber[b]) \subseteq votes[s][v]
        BY DEF Pruned
    <2>5. e \in votes[s][v] \/ (s = m[1] /\ v = Issuer[b] /\ e = <<m[2], SequenceNumber[b]>>)
        BY <2>3, <2>4
    <2> QED BY <2>1, <2>2, <2>5
<1> QED
    BY <1>1, <1>6, <1>7, AboveFixed DEF MarkersBelow

(* No other step changes markers or votes. *)
LEMMA BelowKept ==
    ASSUME MarkersBelow, UNCHANGED <<markerVars, booked, votes>>,
           \A b \in Block : thread'[b].pushed \subseteq thread[b].pushed
    PROVE  MarkersBelow'
    BY AboveFixed DEF MarkersBelow

-----------------------------------------------------------------------------
(* The voters of a marker, and the blocks that they approve. *)

LEMMA HasVote ==
    ASSUME NEW V \in SUBSET (MarkerIndex \X Nat), NEW i \in Nat
    PROVE  Ceiling(V, i) # {} <=> \E e \in V : e[1] >= i
    BY CeilingExists DEF Ceiling

(* A stored vote takes no vote away, and is new for the indexes from the previous one to its own. *)
LEMMA VotersGrow ==
    ASSUME AcceptanceInv, NEW b \in Block, NEW m \in thread[b].markers, AddVoteToMarker(b, m),
           NEW n \in KnownMarkers
    PROVE  /\ MarkerVotes(n) \subseteq MarkerVotes(n)'
           /\ \/ MarkerVotes(n)' = MarkerVotes(n)
              \/ /\ Stores(b, m) /\ n[1] = m[1] /\ n[2] <= m[2]
                 /\ n[2] > 0 => Previous(m[1], Issuer[b]) < n[2]
<1> DEFINE s == n[1]
           i == n[2]
           p == SequenceNumber[b]
<1>1. s \in SequenceIDs /\ i \in Nat
    BY DEF KnownMarkers
<1>2. m[2] \in Nat
    BY DEF AcceptanceInv, AcceptanceTypeOK, MarkersKnown, KnownMarkers
<1>3. \A t \in SequenceIDs, x \in Voter : votes'[t][x] =
            IF t = m[1] /\ x = Issuer[b] /\ Stores(b, m)
            THEN Pruned(votes[t][x], m[2], SequenceNumber[b]) \cup {<<m[2], SequenceNumber[b]>>}
            ELSE votes[t][x]
    BY VotingKeepsVotes
<1>4. /\ votes' \in [SequenceIDs -> [Voter -> SUBSET (MarkerIndex \X Nat)]]
      /\ votes \in [SequenceIDs -> [Voter -> SUBSET (MarkerIndex \X Nat)]]
    BY VotingKeepsVotes DEF AcceptanceInv, AcceptanceTypeOK
<1>5. ASSUME NEW v \in Voter
      PROVE  /\ v \in MarkerVotes(n) <=> \E e \in votes[s][v] : e[1] >= i
             /\ v \in MarkerVotes(n)' <=> \E e \in votes'[s][v] : e[1] >= i
    <2>1. votes[s][v] \in SUBSET (MarkerIndex \X Nat) /\ votes'[s][v] \in SUBSET (MarkerIndex \X Nat)
        BY <1>1, <1>4
    <2>2. /\ Ceiling(votes[s][v], i) # {} <=> \E e \in votes[s][v] : e[1] >= i
          /\ Ceiling(votes'[s][v], i) # {} <=> \E e \in votes'[s][v] : e[1] >= i
        BY <1>1, <2>1, HasVote
    <2> QED BY <2>2 DEF MarkerVotes
<1>6. ASSUME NEW v \in Voter, NEW e \in votes[s][v], e[1] >= i PROVE \E f \in votes'[s][v] : f[1] >= i
    <2>1. e[1] \in Nat
        <3>1. e \in MarkerIndex \X Nat
            BY <1>1, <1>4
        <3> QED BY <3>1 DEF MarkerIndex
    <2>2. CASE s = m[1] /\ v = Issuer[b] /\ Stores(b, m)
        <3>1. votes'[s][v] = Pruned(votes[s][v], m[2], p) \cup {<<m[2], p>>}
            BY <1>1, <1>3, <2>2
        <3>2. CASE e[1] > m[2]
            BY <1>6, <3>1, <3>2 DEF Pruned
        <3>3. CASE ~(e[1] > m[2])
            <4>1. m[2] >= i
                BY <1>1, <1>2, <1>6, <2>1, <3>3
            <4> DEFINE f == <<m[2], p>>
            <4>2. f \in votes'[s][v] /\ f[1] >= i
                BY <3>1, <4>1
            <4> QED BY <4>2
        <3> QED BY <3>2, <3>3
    <2>3. CASE ~(s = m[1] /\ v = Issuer[b] /\ Stores(b, m))
        BY <1>1, <1>3, <1>6, <2>3
    <2> QED BY <2>2, <2>3
<1>7. ASSUME NEW v \in Voter, NEW f \in votes'[s][v], f[1] >= i, ~ \E e \in votes[s][v] : e[1] >= i
      PROVE  Stores(b, m) /\ s = m[1] /\ i <= m[2] /\ (i > 0 => Previous(m[1], Issuer[b]) < i)
    <2>1. s = m[1] /\ v = Issuer[b] /\ Stores(b, m)
        BY <1>1, <1>3, <1>7
    <2>2. votes'[s][v] = Pruned(votes[s][v], m[2], p) \cup {<<m[2], p>>}
        BY <1>1, <1>3, <2>1
    <2>3. f = <<m[2], p>>
        BY <1>7, <2>2 DEF Pruned
    <2>4. i <= m[2]
        BY <1>1, <1>2, <1>7, <2>3
    <2>5. ASSUME i > 0 PROVE Previous(m[1], Issuer[b]) < i
        <3> DEFINE V == votes[m[1]][Issuer[b]]
        <3>1. V \in SUBSET (MarkerIndex \X Nat)
            BY <1>1, <1>4, <2>1
        <3>2. \A e \in V : e[1] < i
            <4>1. \A e \in V : e[1] \in Nat
                BY <3>1 DEF MarkerIndex
            <4> QED BY <1>1, <1>7, <2>1, <4>1
        <3>3. i \in Nat \ {0} /\ booked \in SUBSET Block
            BY <1>1, <2>5 DEF AcceptanceInv, AcceptanceTypeOK
        <3> HIDE DEF V, i
        <3>4. Max({0} \cup {e[1] : e \in V}) < i
            BY <3>1, <3>2, <3>3, PreviousIndex
        <3> QED BY <3>4 DEF Previous, V
    <2> QED BY <2>1, <2>4, <2>5
<1>8. MarkerVotes(n) \subseteq MarkerVotes(n)'
    BY <1>5, <1>6 DEF MarkerVotes
<1>9. ASSUME MarkerVotes(n)' # MarkerVotes(n)
      PROVE  Stores(b, m) /\ s = m[1] /\ i <= m[2] /\ (i > 0 => Previous(m[1], Issuer[b]) < i)
    <2>1. PICK v \in Voter : v \in MarkerVotes(n)' /\ v \notin MarkerVotes(n)
        BY <1>8, <1>9 DEF MarkerVotes
    <2> QED BY <1>5, <1>7, <2>1
<1> QED
    BY <1>8, <1>9

(* The later of two markers of a sequence has no other voters. *)
LEMMA LaterVoters ==
    ASSUME AcceptanceInv, NEW m \in KnownMarkers, NEW n \in KnownMarkers, n[1] = m[1], n[2] <= m[2]
    PROVE  MarkerVotes(m) \subseteq MarkerVotes(n)
<1>1. m[1] \in SequenceIDs /\ m[2] \in Nat /\ n[2] \in Nat
    BY DEF KnownMarkers
<1>2. ASSUME NEW v \in MarkerVotes(m) PROVE v \in MarkerVotes(n)
    <2> DEFINE V == votes[m[1]][v]
    <2>1. v \in Voter /\ V \in SUBSET (MarkerIndex \X Nat)
        BY <1>1 DEF MarkerVotes, AcceptanceInv, AcceptanceTypeOK
    <2>2. Ceiling(V, m[2]) # {}
        BY DEF MarkerVotes
    <2>3. \A e \in V : e[1] \in Nat
        BY <2>1 DEF MarkerIndex
    <2> HIDE DEF V
    <2>4. PICK e \in V : e[1] >= m[2]
        BY <1>1, <2>1, <2>2, HasVote
    <2>5. e[1] >= n[2]
        BY <1>1, <2>3, <2>4
    <2>6. Ceiling(V, n[2]) # {}
        BY <1>1, <2>1, <2>5, HasVote
    <2> QED BY <2>1, <2>6 DEF MarkerVotes, V
<1> QED
    BY <1>2

LEMMA ApprovedByVotes ==
    ASSUME AcceptanceInv, MarkersBelow, NEW n \in KnownMarkers, IsQuorum(MarkerVotes(n))
    PROVE  BlockID(n) \subseteq Approved
<1>1. n[1] \in SequenceIDs /\ n[2] \in Nat /\ n = <<n[1], n[2]>>
    BY DEF KnownMarkers
<1>2. booked \subseteq Block
    BY DEF AcceptanceInv, AcceptanceTypeOK
<1>3. ASSUME NEW x \in BlockID(n) PROVE x \in Approved
    <2> DEFINE U == {Issuer[y] : y \in {z \in booked : x \in PastCone[z]}}
    <2>1. U \in SUBSET Voter
        BY <1>2, AcceptanceAssumption
    <2>2. ASSUME NEW v \in MarkerVotes(n) PROVE v \in U
        <3>1. v \in Voter /\ votes[n[1]][v] \in SUBSET (MarkerIndex \X Nat)
            BY <1>1 DEF MarkerVotes, AcceptanceInv, AcceptanceTypeOK
        <3>2. PICK e \in votes[n[1]][v] : e[1] >= n[2]
            BY <1>1, <3>1, HasVote DEF MarkerVotes
        <3>3. e[1] \in Nat
            BY <3>1 DEF MarkerIndex
        <3>4. PICK y \in booked : Issuer[y] = v /\ Above(y, <<n[1], e[1]>>)
            BY <1>1, <3>1 DEF MarkersBelow
        <3>5. n[2] \in 0 .. e[1]
            BY <1>1, <3>2, <3>3
        <3>6. x \in PastCone[y]
            BY <1>1, <3>4, <3>5 DEF Above
        <3> QED BY <3>4, <3>6
    <2>3. MarkerVotes(n) \in SUBSET U
        BY <2>2
    <2> HIDE DEF U
    <2>4. IsQuorum(U)
        BY <2>1, <2>3, QuorumFacts
    <2> QED BY <2>4 DEF Approved, U, BlockID
<1> QED
    BY <1>3

LEMMA ApprovedDown ==
    ASSUME AcceptanceInv, NEW x \in Approved, NEW p \in StrongParents[x]
    PROVE  p \in Approved
<1>1. x \in booked /\ booked \subseteq Block /\ p \in booked
    BY DEF Approved, AcceptanceInv, AcceptanceTypeOK, MarkersKnown
<1> DEFINE U(y) == {Issuer[z] : z \in {t \in booked : y \in PastCone[t]}}
<1>2. ASSUME NEW z \in booked, x \in PastCone[z] PROVE p \in PastCone[z]
    <2>1. p \in PastCone[x] /\ PastCone[x] \subseteq PastCone[z]
        BY <1>1, <1>2, PastConeClosed
    <2> QED BY <2>1
<1>3. U(x) \in SUBSET U(p) /\ U(p) \in SUBSET Voter
    BY <1>1, <1>2, AcceptanceAssumption
<1>4. IsQuorum(U(x))
    BY DEF Approved
<1>5. IsQuorum(U(p))
    <2> HIDE DEF U
    <2> QED BY <1>3, <1>4, QuorumFacts
<1> QED
    BY <1>1, <1>5 DEF Approved

LEMMA ApprovedGrows ==
    ASSUME booked \subseteq booked', booked' \subseteq Block
    PROVE  Approved \subseteq Approved'
<1> SUFFICES ASSUME NEW x \in Approved PROVE x \in Approved'
    OBVIOUS
<1> DEFINE U == {Issuer[z] : z \in {t \in booked : x \in PastCone[t]}}
           W == {Issuer[z] : z \in {t \in booked' : x \in PastCone[t]}}
<1>1. U \in SUBSET W /\ W \in SUBSET Voter
    BY AcceptanceAssumption
<1>2. IsQuorum(U) /\ x \in booked'
    BY DEF Approved
<1> HIDE DEF U, W
<1>3. IsQuorum(W)
    BY <1>1, <1>2, QuorumFacts
<1> QED
    BY <1>2, <1>3 DEF W, Approved

(* The markers to handle have a quorum, and workers visit approved blocks and their weak parents. *)
ApprovedWeakly == UNION {WeakParents[x] : x \in Approved}

VisitsApproved ==
    /\ \A m \in tasks : IsQuorum(MarkerVotes(m))
    /\ \A w \in Worker : worker[w].pushed \subseteq Approved /\ worker[w].weak \subseteq ApprovedWeakly
    /\ accepted \subseteq Approved \cup ApprovedWeakly

(* A step that books nothing keeps what is approved. *)
LEMMA ApprovedStays == (booked' = booked) => (Approved' = Approved /\ ApprovedWeakly' = ApprovedWeakly)
    BY DEF Approved, ApprovedWeakly

LEMMA BookingKeepsApproved ==
    ASSUME AcceptanceInv, VisitsApproved, NEW b \in Block, BookBlock(b)
    PROVE  VisitsApproved'
<1>1. /\ booked' = booked \cup {b} /\ votes' = votes
      /\ accepted' = accepted /\ tasks' = tasks /\ worker' = worker
    BY DEF BookBlock
<1>2. Approved \subseteq Approved'
    BY <1>1, ApprovedGrows DEF AcceptanceInv, AcceptanceTypeOK
<1>3. ApprovedWeakly \subseteq ApprovedWeakly'
    BY <1>2 DEF ApprovedWeakly
<1>4. \A m : MarkerVotes(m)' = MarkerVotes(m)
    BY <1>1 DEF MarkerVotes
<1> QED
    BY <1>1, <1>2, <1>3, <1>4 DEF VisitsApproved

LEMMA QuorumStays ==
    ASSUME AcceptanceInv, NEW b \in Block, NEW m \in thread[b].markers, AddVoteToMarker(b, m),
           NEW n \in KnownMarkers, IsQuorum(MarkerVotes(n))
    PROVE  IsQuorum(MarkerVotes(n)')
<1>1. MarkerVotes(n)' \in SUBSET Voter /\ MarkerVotes(n) \in SUBSET (MarkerVotes(n)')
    BY VotersGrow DEF MarkerVotes
<1> QED
    BY <1>1, QuorumFacts

LEMMA VotingKeepsApproved ==
    ASSUME AcceptanceInv, VisitsApproved, NEW b \in Block, NEW m \in thread[b].markers, AddVoteToMarker(b, m)
    PROVE  VisitsApproved'
<1>1. booked' = booked /\ accepted' = accepted /\ tasks' = tasks /\ worker' = worker
    BY DEF AddVoteToMarker
<1>2. tasks \subseteq KnownMarkers
    BY DEF AcceptanceInv, AcceptanceTypeOK, MarkersKnown
<1>3. ASSUME NEW n \in tasks PROVE IsQuorum(MarkerVotes(n))'
    BY <1>2, QuorumStays DEF VisitsApproved
<1> QED
    BY <1>1, <1>3, ApprovedStays DEF VisitsApproved

LEMMA WeighingKeepsApproved ==
    ASSUME VisitsApproved, NEW b \in Block, UpdateMarkerWeight(b)
    PROVE  VisitsApproved'
<1> DEFINE m == <<thread[b].sequence, thread[b].from>>
<1>1. /\ booked' = booked /\ accepted' = accepted /\ votes' = votes /\ worker' = worker
      /\ tasks' = IF BlockID(m) # {} /\ ReachesThreshold(WeightOf(MarkerVotes(m))) THEN tasks \cup {m} ELSE tasks
    BY DEF UpdateMarkerWeight
<1>2. \A n : MarkerVotes(n)' = MarkerVotes(n)
    BY <1>1 DEF MarkerVotes
<1> HIDE DEF m
<1>3. \A n \in tasks' : IsQuorum(MarkerVotes(n))
    BY <1>1, QuorumFacts DEF VisitsApproved
<1> QED
    BY <1>1, <1>2, <1>3, ApprovedStays DEF VisitsApproved

LEMMA HandlingKeepsApproved ==
    ASSUME AcceptanceInv, MarkersBelow, VisitsApproved, NEW w \in Worker, NEW m \in tasks, HandleMarker(w, m)
    PROVE  VisitsApproved'
<1>1. booked' = booked /\ accepted' = accepted /\ votes' = votes /\ tasks' = tasks \ {m}
    BY DEF HandleMarker
<1>2. \A n : MarkerVotes(n)' = MarkerVotes(n)
    BY <1>1 DEF MarkerVotes
<1>3. BlockID(m) \subseteq Approved
    <2>1. m \in KnownMarkers
        BY DEF AcceptanceInv, AcceptanceTypeOK, MarkersKnown
    <2> QED BY <2>1, ApprovedByVotes DEF VisitsApproved
<1>4. ASSUME NEW x \in Worker PROVE worker'[x].pushed \subseteq Approved /\ worker'[x].weak \subseteq ApprovedWeakly
    BY <1>3, HandlingEffect DEF VisitsApproved
<1> QED
    BY <1>1, <1>2, <1>4, ApprovedStays DEF VisitsApproved

LEMMA WalkKeepsApproved ==
    ASSUME AcceptanceInv, VisitsApproved, UNCHANGED <<booked, votes, tasks>>,
           NEW w \in Worker, NEW r, worker' = [worker EXCEPT ![w] = r],
           r.pushed \subseteq Approved, r.weak \subseteq ApprovedWeakly,
           accepted' \subseteq accepted \cup Approved \cup ApprovedWeakly
    PROVE  VisitsApproved'
<1>1. \A n : MarkerVotes(n)' = MarkerVotes(n)
    BY DEF MarkerVotes
<1>2. worker \in [Worker -> Walk]
    BY DEF AcceptanceInv, AcceptanceTypeOK
<1>3. ASSUME NEW x \in Worker PROVE worker'[x].pushed \subseteq Approved /\ worker'[x].weak \subseteq ApprovedWeakly
    BY <1>2 DEF VisitsApproved
<1> QED
    BY <1>1, <1>3, ApprovedStays DEF VisitsApproved

LEMMA StrongVisitKeepsApproved ==
    ASSUME AcceptanceInv, VisitsApproved, NEW w \in Worker, NEW b \in worker[w].queue, VisitStrong(w, b)
    PROVE  VisitsApproved'
<1>1. UNCHANGED <<booked, votes, tasks>> /\ accepted' = accepted \cup {b}
    BY DEF VisitStrong
<1>2. /\ worker[w].queue \subseteq worker[w].pushed
      /\ worker[w].pushed \subseteq Approved /\ worker[w].weak \subseteq ApprovedWeakly
    BY DEF AcceptanceInv, AcceptanceTypeOK, VisitsApproved
<1>3. ToVisit(b) \subseteq Approved
    BY <1>2, ApprovedDown DEF ToVisit
<1>4. WeakParents[b] \subseteq ApprovedWeakly
    BY <1>2 DEF ApprovedWeakly
<1>5. PICK r \in Walk :
        /\ worker' = [worker EXCEPT ![w] = r]
        /\ r.pc = "strong"
        /\ r.queue = (worker[w].queue \ {b}) \cup (ToVisit(b) \ worker[w].pushed)
        /\ r.pushed = worker[w].pushed \cup ToVisit(b)
        /\ r.weak = IF b \in accepted THEN worker[w].weak ELSE worker[w].weak \cup WeakParents[b]
    BY StrongVisitEffect
<1> QED
    BY <1>1, <1>2, <1>3, <1>4, <1>5, WalkKeepsApproved

LEMMA WeakVisitKeepsApproved ==
    ASSUME AcceptanceInv, VisitsApproved, NEW w \in Worker, VisitWeak(w)
    PROVE  VisitsApproved'
<1>1. UNCHANGED <<booked, votes, tasks>>
    BY DEF VisitWeak
<1>2. worker[w].pushed \subseteq Approved /\ worker[w].weak \subseteq ApprovedWeakly
    BY DEF VisitsApproved
<1>3. PICK r \in Walk :
        /\ worker' = [worker EXCEPT ![w] = r]
        /\ r.pushed \subseteq worker[w].pushed /\ r.weak \subseteq worker[w].weak
        /\ accepted' = accepted \/ \E b \in worker[w].weak : accepted' = accepted \cup {b}
    BY WeakVisitEffect
<1> QED
    BY <1>1, <1>2, <1>3, WalkKeepsApproved

-----------------------------------------------------------------------------
(* Quorums are noticed. *)

(* Some handler still comes to the weight of a marker. *)
ToWeigh(m) == \E b \in Block : /\ thread[b].pc = "weigh" /\ thread[b].sequence = m[1]
                               /\ thread[b].from <= m[2] /\ m[2] <= thread[b].to

Noticed(m, x) == x \in accepted \/ Queued({x}) \/ m \in tasks \/ ToWeigh(m)

(* The weight of a marker with a quorum is looked at, its event handled, or its block visited, *)
(* and up to the last confirmed marker the blocks of a sequence are accepted or have a quorum.  *)
QuorumsNoticed ==
    \A m \in KnownMarkers : \A x \in BlockID(m) :
        /\ IsQuorum(MarkerVotes(m)) => Noticed(m, x)
        /\ m[2] <= lastConfirmed[m[1]] => x \in accepted \/ IsQuorum(MarkerVotes(m))

LEMMA OneBlock ==
    ASSUME AcceptanceInv, MarkersBelow, NEW n, NEW x \in BlockID(n)
    PROVE  /\ n \in KnownMarkers /\ n = <<n[1], n[2]>> /\ n[1] \in SequenceIDs /\ n[2] \in Nat \ {0}
           /\ BlockID(n) = {x}
<1>1. x \in booked /\ x \in Block /\ details[x].isPastMarker /\ n \in details[x].pastMarkers
    BY DEF BlockID, AcceptanceInv, AcceptanceTypeOK
<1>2. n \in KnownMarkers
    BY <1>1 DEF AcceptanceInv, MarkersKnown
<1>3. n[2] > 0 /\ \A y \in BlockID(n) : y = x
    BY <1>1 DEF MarkersBelow
<1>4. n = <<n[1], n[2]>> /\ n[1] \in SequenceIDs /\ n[2] \in Nat
    BY <1>2 DEF KnownMarkers
<1> QED
    BY <1>2, <1>3, <1>4

(* A new marker has no votes. *)
LEMMA BookingKeepsNoticed ==
    ASSUME AcceptanceInv, MarkersBelow, QuorumsNoticed, NEW b \in Block, BookBlock(b)
    PROVE  QuorumsNoticed'
<1>1. /\ booked' = booked \cup {b} /\ b \notin booked /\ booked \subseteq Block
      /\ votes' = votes /\ lastConfirmed' = lastConfirmed
      /\ accepted' = accepted /\ tasks' = tasks /\ worker' = worker
    BY DEF BookBlock, AcceptanceInv, AcceptanceTypeOK
<1>2. \A n : MarkerVotes(n)' = MarkerVotes(n)
    BY <1>1 DEF MarkerVotes
<1>3. ASSUME NEW n, NEW x, Noticed(n, x) PROVE Noticed(n, x)'
    <2>1. \A y \in Block : thread[y].pc = "weigh" => thread'[y] = thread[y]
        BY <1>1, BookingEffect DEF AcceptanceInv, AcceptanceTypeOK
    <2>2. ToWeigh(n) => ToWeigh(n)'
        BY <2>1 DEF ToWeigh
    <2> QED BY <1>1, <1>3, <2>2 DEF Noticed, Queued
<1>4. ASSUME NEW n \in KnownMarkers', NEW x \in BlockID(n)'
      PROVE  /\ IsQuorum(MarkerVotes(n)) => Noticed(n, x)'
             /\ n[2] <= lastConfirmed[n[1]] => x \in accepted \/ IsQuorum(MarkerVotes(n))
    <2>1. CASE n \in KnownMarkers
        <3>1. n = <<n[1], n[2]>> /\ n[2] \in 0 .. n[2]
            BY <2>1 DEF KnownMarkers
        <3>2. x \in BlockID(n)
            BY <2>1, <3>1, MarkersFixed
        <3> QED BY <1>3, <2>1, <3>2 DEF QuorumsNoticed
    <2>2. CASE n \notin KnownMarkers
        <3>1. x \in booked' /\ details'[x].isPastMarker /\ n \in details'[x].pastMarkers
            BY DEF BlockID
        <3>2. x = b
            <4>1. ASSUME x # b PROVE FALSE
                <5>1. x \in booked /\ details'[x] = details[x]
                    BY <1>1, <3>1, <4>1, BookingEffect
                <5> QED BY <1>1, <2>2, <3>1, <5>1 DEF AcceptanceInv, MarkersKnown
            <4> QED BY <4>1
        <3>3. NextMarker(n)
            BY <3>1, <3>2, BookingEffect
        <3>4. n[1] \in SequenceIDs /\ n[2] \in Nat \ {0}
            <4>1. Cardinality(booked) \in Nat
                BY <1>1, BookedCounted
            <4> QED BY <3>3, <4>1 DEF NextMarker
        <3>5. ASSUME n[1] \in DOMAIN sequences
              PROVE  /\ sequences[n[1]].highestIndex \in Nat /\ sequences[n[1]].lowestIndex \in Nat
                     /\ sequences[n[1]].highestIndex < n[2]
            BY <3>3, <3>5, KnownMarkersBounded DEF NextMarker, Sequence
        <3>6. ASSUME NEW v \in MarkerVotes(n) PROVE FALSE
            <4>1. v \in Voter /\ votes[n[1]][v] \in SUBSET (MarkerIndex \X Nat)
                BY <3>4 DEF MarkerVotes, AcceptanceInv, AcceptanceTypeOK
            <4>2. PICK e \in votes[n[1]][v] : e[1] >= n[2]
                BY <3>4, <4>1, HasVote DEF MarkerVotes
            <4>3. <<n[1], e[1]>> \in KnownMarkers
                BY <3>4, <4>1 DEF MarkersBelow
            <4>4. n[1] \in DOMAIN sequences /\ e[1] \in sequences[n[1]].lowestIndex .. sequences[n[1]].highestIndex
                BY <4>3 DEF KnownMarkers
            <4> QED BY <3>4, <3>5, <4>2, <4>4
        <3>7. ~IsQuorum(MarkerVotes(n))
            <4>1. MarkerVotes(n) = {}
                BY <3>6
            <4> QED BY <4>1, QuorumFacts
        <3>8. ASSUME n[2] <= lastConfirmed[n[1]] PROVE FALSE
            <4>1. lastConfirmed[n[1]] \in Nat
                BY <3>4 DEF AcceptanceInv, AcceptanceTypeOK
            <4>2. lastConfirmed[n[1]] > 0
                BY <3>4, <3>8, <4>1
            <4>3. /\ n[1] \in DOMAIN sequences
                  /\ lastConfirmed[n[1]] \in sequences[n[1]].lowestIndex .. sequences[n[1]].highestIndex
                BY <3>4, <4>2 DEF AcceptanceInv, AcceptanceTypeOK
            <4> QED BY <3>4, <3>5, <3>8, <4>1, <4>3
        <3> QED BY <3>7, <3>8
    <2> QED BY <2>1, <2>2
<1> QED
    BY <1>1, <1>2, <1>4 DEF QuorumsNoticed

(* A step that leaves markers and votes alone. *)
LEMMA NoticedKept ==
    ASSUME QuorumsNoticed, UNCHANGED <<markerVars, booked, votes>>, accepted \subseteq accepted',
           \A n \in KnownMarkers : \A x \in BlockID(n) :
                IsQuorum(MarkerVotes(n)) /\ Noticed(n, x) => Noticed(n, x)',
           \A n \in KnownMarkers : n[2] <= lastConfirmed'[n[1]] =>
                n[2] <= lastConfirmed[n[1]] \/ IsQuorum(MarkerVotes(n))
    PROVE  QuorumsNoticed'
<1>1. KnownMarkers' = KnownMarkers /\ \A n : BlockID(n)' = BlockID(n)
    BY MarkersStay
<1>2. \A n : MarkerVotes(n)' = MarkerVotes(n)
    BY DEF MarkerVotes
<1>3. ASSUME NEW n \in KnownMarkers, NEW x \in BlockID(n)
      PROVE  /\ IsQuorum(MarkerVotes(n)) => Noticed(n, x)'
             /\ n[2] <= lastConfirmed'[n[1]] => x \in accepted' \/ IsQuorum(MarkerVotes(n))
    BY DEF QuorumsNoticed
<1> QED
    BY <1>1, <1>2, <1>3 DEF QuorumsNoticed

LEMMA WeighingKeepsNoticed ==
    ASSUME AcceptanceInv, QuorumsNoticed, NEW b \in Block, UpdateMarkerWeight(b)
    PROVE  QuorumsNoticed'
<1> DEFINE m == <<thread[b].sequence, thread[b].from>>
           old == thread[b]
<1>1. /\ UNCHANGED <<markerVars, booked, votes, lastConfirmed, accepted, worker>>
      /\ tasks' = IF BlockID(m) # {} /\ ReachesThreshold(WeightOf(MarkerVotes(m))) THEN tasks \cup {m} ELSE tasks
      /\ thread' = [thread EXCEPT ![b] =
            IF @.from = @.to THEN Continue(thread[b]) ELSE [thread[b] EXCEPT !.from = @ + 1]]
    BY DEF UpdateMarkerWeight
<1>2. thread \in [Block -> Handler] /\ old \in Handler /\ old.from \in Nat /\ old.to \in Nat /\ old.pc = "weigh"
    <2>1. thread \in [Block -> Handler] /\ old \in Handler
        BY DEF AcceptanceInv, AcceptanceTypeOK
    <2>2. old.from \in Nat /\ old.to \in Nat
        BY <2>1 DEF Handler
    <2> QED BY <2>1, <2>2 DEF UpdateMarkerWeight
<1>3. ASSUME old.from # old.to
      PROVE  /\ thread'[b].pc = "weigh" /\ thread'[b].sequence = old.sequence
             /\ thread'[b].from = old.from + 1 /\ thread'[b].to = old.to
    <2> DEFINE r == [old EXCEPT !.from = old.from + 1]
    <2>1. thread'[b] = r
        BY <1>1, <1>2, <1>3
    <2>2. r.pc = old.pc /\ r.sequence = old.sequence /\ r.from = old.from + 1 /\ r.to = old.to
        BY <1>2 DEF Handler
    <2> HIDE DEF r
    <2> QED BY <1>2, <2>1, <2>2
<1>4. \A y \in Block \ {b} : thread'[y] = thread[y]
    BY <1>1, <1>2
<1>5. ASSUME NEW n \in KnownMarkers, NEW x \in BlockID(n), IsQuorum(MarkerVotes(n)), Noticed(n, x)
      PROVE  Noticed(n, x)'
    <2>1. CASE ~ToWeigh(n)
        BY <1>1, <1>5, <2>1 DEF Noticed, Queued
    <2>2. CASE ToWeigh(n)
        <3>1. PICK y \in Block : /\ thread[y].pc = "weigh" /\ thread[y].sequence = n[1]
                                 /\ thread[y].from <= n[2] /\ n[2] <= thread[y].to
            BY <2>2 DEF ToWeigh
        <3>2. CASE y # b
            BY <1>4, <3>1, <3>2 DEF Noticed, ToWeigh
        <3>3. CASE y = b /\ n[2] = old.from
            <4>1. n = m
                BY <3>1, <3>3 DEF KnownMarkers
            <4>2. ReachesThreshold(WeightOf(MarkerVotes(m)))
                BY <1>5, <4>1, QuorumFacts
            <4> HIDE DEF m
            <4> QED BY <1>1, <4>1, <4>2 DEF Noticed
        <3>4. CASE y = b /\ n[2] # old.from
            <4>1. n[2] \in Nat
                BY DEF KnownMarkers
            <4>2. old.from # old.to /\ old.from + 1 <= n[2]
                BY <1>2, <3>1, <3>4, <4>1
            <4> HIDE DEF old, m
            <4>3. ToWeigh(n)'
                BY <1>3, <3>1, <3>4, <4>2 DEF ToWeigh, old
            <4> QED BY <4>3 DEF Noticed
        <3> QED BY <3>2, <3>3, <3>4
    <2> QED BY <2>1, <2>2
<1> QED
    BY <1>1, <1>5, NoticedKept

LEMMA VotingKeepsNoticed ==
    ASSUME AcceptanceInv, MarkersBelow, QuorumsNoticed,
           NEW b \in Block, NEW m \in thread[b].markers, AddVoteToMarker(b, m)
    PROVE  QuorumsNoticed'
<1> DEFINE s == m[1]
           previous == Previous(s, Issuer[b])
<1>1. /\ UNCHANGED <<markerVars, booked, accepted, tasks, worker>> /\ thread[b].pc = "vote"
      /\ lastConfirmed' = LastConfirmedMarkers(s)
    BY DEF AddVoteToMarker
<1>2. /\ s \in DOMAIN sequences /\ s \in SequenceIDs /\ m[2] \in Nat
      /\ sequences[s].lowestIndex \in Nat /\ sequences[s].highestIndex \in Nat
    <2>1. m \in KnownMarkers
        BY DEF AcceptanceInv, AcceptanceTypeOK, MarkersKnown
    <2> QED BY <2>1, KnownMarkersBounded DEF KnownMarkers, Sequence
(* Up to the last confirmed marker. *)
<1>3. ASSUME NEW n \in KnownMarkers, NEW x \in BlockID(n), n[2] <= lastConfirmed'[n[1]]
      PROVE  x \in accepted \/ IsQuorum(MarkerVotes(n))
    <2>1. CASE lastConfirmed'[n[1]] = lastConfirmed[n[1]]
        BY <1>3, <2>1 DEF QuorumsNoticed
    <2>2. CASE lastConfirmed'[n[1]] # lastConfirmed[n[1]]
        <3>1. n = <<n[1], n[2]>> /\ n[1] \in SequenceIDs /\ n[2] \in Nat \ {0} /\ BlockID(n) = {x}
            BY OneBlock
        <3>2. n[1] = s
            BY <1>1, <1>2, <2>2, <3>1, LastConfirmedIsConfirmed
        <3>3. lastConfirmed'[s] \in ConfirmedPrefix(s)
            <4>1. lastConfirmed'[s] # 0
                BY <1>3, <3>1, <3>2
            <4> QED BY <1>1, <1>2, <2>2, <3>2, <4>1, LastConfirmedIsConfirmed
        <3>4. n[2] \in sequences[s].lowestIndex .. lastConfirmed'[s]
            <4>1. n[2] \in sequences[s].lowestIndex .. sequences[s].highestIndex
                BY <3>2 DEF KnownMarkers
            <4>2. lastConfirmed'[s] \in sequences[s].lowestIndex .. sequences[s].highestIndex
                BY <3>3 DEF ConfirmedPrefix
            <4> QED BY <1>2, <1>3, <3>2, <4>1, <4>2
        <3>5. IsMarkerConfirmed(<<s, n[2]>>)
            BY <3>3, <3>4 DEF ConfirmedPrefix
        <3> QED BY <3>1, <3>2, <3>5 DEF IsMarkerConfirmed
    <2> QED BY <2>1, <2>2
<1>4. \A y \in Block \ {b} : thread'[y] = thread[y]
    BY VotingKeepsHandlers DEF AcceptanceInv, AcceptanceTypeOK
<1>5. ASSUME NEW n, NEW x, Noticed(n, x) PROVE Noticed(n, x)'
    <2>1. ToWeigh(n) => ToWeigh(n)'
        BY <1>1, <1>4 DEF ToWeigh
    <2> QED BY <1>1, <1>5, <2>1 DEF Noticed, Queued
(* A vote that is new for a marker is before its weight is updated, or that is confirmed. *)
<1>6. ASSUME NEW n \in KnownMarkers, NEW x \in BlockID(n), IsQuorum(MarkerVotes(n)')
      PROVE  Noticed(n, x)'
    <2>1. n[2] \in Nat \ {0}
        BY OneBlock
    <2>2. CASE MarkerVotes(n)' = MarkerVotes(n)
        BY <1>5, <1>6, <2>2 DEF QuorumsNoticed
    <2>3. CASE MarkerVotes(n)' # MarkerVotes(n)
        <3>1. Stores(b, m) /\ n[1] = s /\ n[2] <= m[2] /\ previous < n[2]
            BY <2>1, <2>3, VotersGrow
        <3>2. previous \in Nat
            <4> DEFINE V == votes[s][Issuer[b]]
            <4>1. V \in SUBSET (MarkerIndex \X Nat) /\ booked \in SUBSET Block
                BY <1>2, AcceptanceAssumption DEF AcceptanceInv, AcceptanceTypeOK
            <4> HIDE DEF V
            <4>2. Max({0} \cup {e[1] : e \in V}) \in Nat
                BY <4>1, PreviousIndex
            <4> QED BY <4>2 DEF V, Previous
        <3> HIDE DEF previous
        <3>3. m[2] > previous
            BY <1>2, <2>1, <3>1, <3>2
        <3>4. /\ thread'[b].pc = "weigh" /\ thread'[b].sequence = s /\ thread'[b].to = m[2]
              /\ thread'[b].from = UpdateFrom(s, previous)
            BY <3>1, <3>3, VotingKeepsHandlers DEF previous, AcceptanceInv, AcceptanceTypeOK
        <3>5. UpdateFrom(s, previous) <= n[2] => Noticed(n, x)'
            BY <3>1, <3>4 DEF Noticed, ToWeigh
        <3>6. CASE previous # 0
            <4>1. UpdateFrom(s, previous) = previous + 1
                BY <3>6 DEF UpdateFrom
            <4> QED BY <2>1, <3>1, <3>2, <3>5, <4>1
        <3>7. CASE previous = 0
            <4>1. UpdateFrom(s, previous) = IF lastConfirmed'[s] > 0 THEN lastConfirmed'[s] + 1 ELSE sequences[s].lowestIndex
                BY <1>1, <3>7 DEF UpdateFrom, FirstUnconfirmedMarkerIndex
            <4>2. lastConfirmed'[s] \in Nat
                BY <1>1, <1>2, LastConfirmedIsConfirmed
            <4>3. n[2] >= sequences[s].lowestIndex
                BY <1>2, <2>1, <3>1 DEF KnownMarkers
            <4>4. CASE n[2] <= lastConfirmed'[s]
                <5>1. x \in accepted \/ IsQuorum(MarkerVotes(n))
                    BY <1>3, <3>1, <4>4
                <5>2. Noticed(n, x)
                    BY <5>1 DEF QuorumsNoticed, Noticed
                <5> QED BY <1>5, <5>2
            <4>5. CASE ~(n[2] <= lastConfirmed'[s])
                BY <1>2, <2>1, <3>5, <4>1, <4>2, <4>3, <4>5
            <4> QED BY <4>4, <4>5
        <3> QED BY <3>6, <3>7
    <2> QED BY <2>2, <2>3
<1>7. KnownMarkers' = KnownMarkers /\ \A n : BlockID(n)' = BlockID(n)
    BY <1>1, MarkersStay
<1>8. ASSUME NEW n \in KnownMarkers, NEW x \in BlockID(n)
      PROVE  /\ IsQuorum(MarkerVotes(n)') => Noticed(n, x)'
             /\ n[2] <= lastConfirmed'[n[1]] => x \in accepted' \/ IsQuorum(MarkerVotes(n)')
    BY <1>1, <1>3, <1>6, QuorumStays
<1> QED
    BY <1>7, <1>8 DEF QuorumsNoticed

LEMMA HandlingKeepsNoticed ==
    ASSUME AcceptanceInv, MarkersBelow, VisitsApproved, QuorumsNoticed,
           NEW w \in Worker, NEW m \in tasks, HandleMarker(w, m)
    PROVE  QuorumsNoticed'
<1>1. /\ UNCHANGED <<markerVars, booked, votes, accepted, thread>>
      /\ worker[w].pc = "idle" /\ tasks' = tasks \ {m}
    BY DEF HandleMarker
<1>2. m \in KnownMarkers /\ m[1] \in SequenceIDs /\ IsQuorum(MarkerVotes(m))
    BY DEF AcceptanceInv, AcceptanceTypeOK, MarkersKnown, KnownMarkers, VisitsApproved
<1>3. worker[w].queue = {}
    BY <1>1 DEF AcceptanceInv, AcceptanceTypeOK, WalksSound
<1>4. \A S : Queued(S) => \E y \in Worker : worker'[y].queue \cap S # {}
    BY <1>3, HandlingEffect DEF Queued
<1>5. ASSUME NEW n \in KnownMarkers, NEW x \in BlockID(n), Noticed(n, x)
      PROVE  Noticed(n, x)'
    <2>1. CASE n # m
        <3>1. ToWeigh(n) => ToWeigh(n)'
            BY <1>1 DEF ToWeigh
        <3> QED BY <1>1, <1>4, <1>5, <2>1, <3>1 DEF Noticed, Queued
    <2>2. CASE n = m /\ IsMarkerConfirmed(m)
        <3>1. x \in accepted
            BY <2>2, OneBlock DEF IsMarkerConfirmed
        <3> QED BY <1>1, <3>1 DEF Noticed
    <2>3. CASE n = m /\ ~IsMarkerConfirmed(m)
        <3>1. x \in worker'[w].queue
            BY <2>3, HandlingEffect
        <3> QED BY <3>1 DEF Noticed, Queued
    <2> QED BY <2>1, <2>2, <2>3
<1>6. ASSUME NEW n \in KnownMarkers, n[2] <= lastConfirmed'[n[1]]
      PROVE  n[2] <= lastConfirmed[n[1]] \/ IsQuorum(MarkerVotes(n))
    <2>1. CASE lastConfirmed'[n[1]] = lastConfirmed[n[1]]
        BY <1>6, <2>1
    <2>2. CASE n[1] = m[1] /\ lastConfirmed'[n[1]] = m[2]
        <3>1. MarkerVotes(m) \in SUBSET MarkerVotes(n) /\ MarkerVotes(n) \in SUBSET Voter
            BY <1>2, <1>6, <2>2, LaterVoters DEF MarkerVotes
        <3> QED BY <1>2, <3>1, QuorumFacts
    <2>3. n[1] \in SequenceIDs
        BY DEF KnownMarkers
    <2> QED BY <2>1, <2>2, <2>3, HandlingEffect
<1> QED
    BY <1>1, <1>5, <1>6, NoticedKept

LEMMA VisitKeepsNoticed ==
    ASSUME QuorumsNoticed, Visits
    PROVE  QuorumsNoticed'
<1>1. /\ UNCHANGED <<markerVars, booked, votes, lastConfirmed, thread, tasks>> /\ accepted \subseteq accepted'
      /\ \A y \in Worker : worker[y].queue \subseteq worker'[y].queue \cup accepted'
    BY DEF Visits
<1>2. ASSUME NEW n, NEW x, Noticed(n, x) PROVE Noticed(n, x)'
    <2>1. ToWeigh(n) => ToWeigh(n)'
        BY <1>1 DEF ToWeigh
    <2>2. Queued({x}) => x \in accepted' \/ \E y \in Worker : worker'[y].queue \cap {x} # {}
        BY <1>1 DEF Queued
    <2> QED BY <1>1, <1>2, <2>1, <2>2 DEF Noticed, Queued
<1> QED
    BY <1>1, <1>2, NoticedKept

-----------------------------------------------------------------------------
(* The first inductive invariant. *)

LEMMA InitAcceptanceInv == InitAcceptance => AcceptanceInv
<1> SUFFICES ASSUME InitAcceptance PROVE AcceptanceInv
    OBVIOUS
<1>1. /\ booked = {} /\ cast = {} /\ accepted = {} /\ tasks = {}
      /\ votes = [s \in SequenceIDs |-> [v \in Voter |-> {}]]
      /\ lastConfirmed = [s \in SequenceIDs |-> 0]
      /\ thread = [b \in Block |-> Idle]
      /\ worker = [w \in Worker |-> Waiting]
      /\ details = [b \in Block |-> NoMarkers]
      /\ sequences = [s \in {0} |-> [lowestIndex |-> 0, highestIndex |-> 0, referenced |-> {}, referencing |-> {}]]
    BY DEF InitAcceptance, InitMarkers
<1>2. 0 \in SequenceIDs /\ Cardinality(booked) = 0
    BY <1>1, BookedCounted, FS_EmptySet DEF SequenceIDs
<1>3. /\ DOMAIN sequences = {0} /\ sequences[0] \in Sequence
      /\ sequences[0].lowestIndex = 0 /\ sequences[0].highestIndex = 0 /\ sequences[0].referenced = {}
    BY <1>1 DEF Sequence
<1>4. MarkersTypeOK
    <2>1. NoMarkers \in StructureDetails
        BY DEF NoMarkers, StructureDetails
    <2> QED BY <1>1, <1>2, <1>3, <2>1 DEF MarkersTypeOK
<1>5. /\ Idle \in Handler /\ Idle.pc = "idle" /\ Idle.markers = {} /\ Idle.pushed = {}
      /\ Waiting \in Walk /\ Waiting.pc = "idle" /\ Waiting.queue = {} /\ Waiting.pushed = {} /\ Waiting.weak = {}
    BY <1>2 DEF Idle, Handler, Waiting, Walk
<1>6. AcceptanceTypeOK
    BY <1>1, <1>4, <1>5 DEF AcceptanceTypeOK
<1>7. MarkersKnown
    <2>1. 0 \in 0 .. Cardinality(booked) /\ DOMAIN sequences = 0 .. 0
        BY <1>2, <1>3
    <2>2. NoMarkers.pastMarkers = {}
        BY DEF NoMarkers
    <2> QED BY <1>1, <1>2, <1>3, <1>5, <2>1, <2>2 DEF MarkersKnown
<1>8. VotesKept
    BY <1>1 DEF VotesKept, Cast, Falling, Dominates
<1>9. WalksSound
    BY <1>1, <1>5 DEF WalksSound
<1>10. WalksComplete
    BY <1>1 DEF WalksComplete
<1> QED
    BY <1>6, <1>7, <1>8, <1>9, <1>10 DEF AcceptanceInv

LEMMA NextAcceptanceInv == AcceptanceInv /\ [NextAcceptance]_acceptanceVars => AcceptanceInv'
<1> SUFFICES ASSUME AcceptanceInv, [NextAcceptance]_acceptanceVars PROVE AcceptanceInv'
    OBVIOUS
<1>1. ASSUME NEW b \in Block, BookBlock(b) PROVE AcceptanceInv'
    BY <1>1, BookingKeepsInv
<1>2. ASSUME NEW b \in Block, UpdateMarkerWeight(b) PROVE AcceptanceInv'
    BY <1>2, WeighingKeepsInv
<1>3. ASSUME NEW b \in Block, NEW m \in thread[b].markers, AddVoteToMarker(b, m) PROVE AcceptanceInv'
    BY <1>3, VotingKeepsInv
<1>4. ASSUME NEW w \in Worker, NEW m \in tasks, HandleMarker(w, m) PROVE AcceptanceInv'
    BY <1>4, HandlingKeepsInv
<1>5. ASSUME NEW w \in Worker, NEW b \in worker[w].queue, VisitStrong(w, b) PROVE AcceptanceInv'
    BY <1>5, StrongVisitKeepsInv
<1>6. ASSUME NEW w \in Worker, VisitWeak(w) PROVE AcceptanceInv'
    BY <1>6, WeakVisitKeepsInv
<1>7. CASE UNCHANGED acceptanceVars
    <2>1. WalksSound' /\ WalksComplete'
        BY <1>7, WalksStay DEF acceptanceVars
    <2>2. UNCHANGED <<markerVars, booked, votes, cast, lastConfirmed, accepted, thread, tasks, worker>>
        BY <1>7 DEF acceptanceVars
    <2>3. AcceptanceTypeOK' /\ MarkersKnown' /\ VotesKept'
        BY <2>2, GadgetStep DEF AcceptanceInv, AcceptanceTypeOK
    <2> QED BY <2>1, <2>3 DEF AcceptanceInv
<1> QED
    BY <1>1, <1>2, <1>3, <1>4, <1>5, <1>6, <1>7 DEF NextAcceptance

-----------------------------------------------------------------------------
(* Quorums. *)

QuorumInv == AcceptanceInv /\ MarkersBelow /\ VisitsApproved /\ QuorumsNoticed

LEMMA WeighingKeepsBelow ==
    ASSUME AcceptanceInv, MarkersBelow, NEW b \in Block, UpdateMarkerWeight(b)
    PROVE  MarkersBelow'
<1> DEFINE old == thread[b]
           th == IF old.from = old.to THEN Continue(old) ELSE [old EXCEPT !.from = old.from + 1]
<1>1. UNCHANGED <<markerVars, booked, votes>>
    BY DEF UpdateMarkerWeight
<1>2. thread \in [Block -> Handler]
    BY DEF AcceptanceInv, AcceptanceTypeOK
<1>3. thread' = [thread EXCEPT ![b] = th]
    <2>1. thread' = [thread EXCEPT ![b] = IF @.from = @.to THEN Continue(thread[b]) ELSE [thread[b] EXCEPT !.from = @ + 1]]
        BY DEF UpdateMarkerWeight
    <2> QED BY <1>2, <2>1
<1>4. th.pushed \subseteq old.pushed
    <2>1. GoesOn(old)
        BY DEF AcceptanceInv, AcceptanceTypeOK, MarkersKnown, GoesOn
    <2> HIDE DEF old
    <2>2. Continue(old).pushed \subseteq old.pushed
        BY <2>1, ContinueGoesOn
    <2>3. [old EXCEPT !.from = old.from + 1].pushed = old.pushed
        BY <2>1 DEF GoesOn, Handler
    <2> QED BY <2>2, <2>3
<1> HIDE DEF th
<1>5. \A x \in Block : thread'[x].pushed \subseteq thread[x].pushed
    BY <1>2, <1>3, <1>4
<1> QED
    BY <1>1, <1>5, BelowKept

LEMMA WorkingKeepsBelow ==
    ASSUME MarkersBelow, UNCHANGED <<markerVars, booked, votes, thread>>
    PROVE  MarkersBelow'
    BY BelowKept

LEMMA InitQuorumInv == InitAcceptance => QuorumInv
<1> SUFFICES ASSUME InitAcceptance PROVE QuorumInv
    OBVIOUS
<1>1. AcceptanceInv
    BY InitAcceptanceInv
<1>2. /\ booked = {} /\ accepted = {} /\ tasks = {}
      /\ votes = [s \in SequenceIDs |-> [v \in Voter |-> {}]]
      /\ thread = [b \in Block |-> Idle]
      /\ worker = [w \in Worker |-> Waiting]
      /\ sequences = [s \in {0} |-> [lowestIndex |-> 0, highestIndex |-> 0, referenced |-> {}, referencing |-> {}]]
    BY DEF InitAcceptance, InitMarkers
<1>3. Idle.pushed = {} /\ Waiting.pushed = {} /\ Waiting.weak = {}
    BY DEF Idle, Waiting
<1>4. \A s \in DOMAIN sequences : sequences[s].referenced = {}
    BY <1>2
<1>5. MarkersBelow
    <2>1. \A b \in Block : thread[b].pushed = {}
        BY <1>2, <1>3
    <2>2. \A s \in SequenceIDs, v \in Voter : votes[s][v] = {}
        BY <1>2
    <2> QED BY <1>2, <1>4, <2>1, <2>2 DEF MarkersBelow
<1>6. VisitsApproved
    BY <1>2, <1>3 DEF VisitsApproved
<1>7. QuorumsNoticed
    BY <1>2 DEF QuorumsNoticed, BlockID
<1> QED
    BY <1>1, <1>5, <1>6, <1>7 DEF QuorumInv

LEMMA NextQuorumInv == QuorumInv /\ [NextAcceptance]_acceptanceVars => QuorumInv'
<1> SUFFICES ASSUME QuorumInv, [NextAcceptance]_acceptanceVars PROVE QuorumInv'
    OBVIOUS
<1> USE DEF QuorumInv
<1>0. AcceptanceInv'
    BY NextAcceptanceInv
<1>1. ASSUME NEW b \in Block, BookBlock(b) PROVE QuorumInv'
    BY <1>0, <1>1, BookingKeepsBelow, BookingKeepsApproved, BookingKeepsNoticed
<1>2. ASSUME NEW b \in Block, UpdateMarkerWeight(b) PROVE QuorumInv'
    BY <1>0, <1>2, WeighingKeepsBelow, WeighingKeepsApproved, WeighingKeepsNoticed
<1>3. ASSUME NEW b \in Block, NEW m \in thread[b].markers, AddVoteToMarker(b, m) PROVE QuorumInv'
    BY <1>0, <1>3, VotingKeepsBelow, VotingKeepsApproved, VotingKeepsNoticed
<1>4. ASSUME NEW w \in Worker, NEW m \in tasks, HandleMarker(w, m) PROVE QuorumInv'
    <2>1. UNCHANGED <<markerVars, booked, votes, thread>>
        BY <1>4 DEF HandleMarker
    <2> QED BY <1>0, <1>4, <2>1, WorkingKeepsBelow, HandlingKeepsApproved, HandlingKeepsNoticed
<1>5. ASSUME NEW w \in Worker, NEW b \in worker[w].queue, VisitStrong(w, b) PROVE QuorumInv'
    <2>1. Visits
        BY <1>5, StrongVisitVisits
    <2>2. UNCHANGED <<markerVars, booked, votes, thread>>
        BY <2>1 DEF Visits
    <2> QED BY <1>0, <1>5, <2>1, <2>2, WorkingKeepsBelow, StrongVisitKeepsApproved, VisitKeepsNoticed
<1>6. ASSUME NEW w \in Worker, VisitWeak(w) PROVE QuorumInv'
    <2>1. Visits
        BY <1>6, WeakVisitVisits
    <2>2. UNCHANGED <<markerVars, booked, votes, thread>>
        BY <2>1 DEF Visits
    <2> QED BY <1>0, <1>6, <2>1, <2>2, WorkingKeepsBelow, WeakVisitKeepsApproved, VisitKeepsNoticed
<1>7. CASE UNCHANGED acceptanceVars
    <2>1. UNCHANGED <<markerVars, booked, votes, lastConfirmed, accepted, thread, tasks, worker>>
        BY <1>7 DEF acceptanceVars
    <2>2. MarkersBelow'
        BY <2>1, WorkingKeepsBelow
    <2>3. VisitsApproved'
        BY <2>1, ApprovedStays DEF VisitsApproved, MarkerVotes
    <2>4. \A n, x : Noticed(n, x) => Noticed(n, x)'
        BY <2>1 DEF Noticed, Queued, ToWeigh
    <2>5. QuorumsNoticed'
        BY <2>1, <2>4, NoticedKept
    <2> QED BY <1>0, <2>2, <2>3, <2>5
<1> QED
    BY <1>1, <1>2, <1>3, <1>4, <1>5, <1>6, <1>7 DEF NextAcceptance

(* When nothing is left to be handled, a quorum has been acted upon. *)
LEMMA QuorumsAreAccepted == QuorumInv => QuorumMarkersAccepted
<1> SUFFICES ASSUME QuorumInv, QuietAcceptance, NEW b \in booked, details[b].isPastMarker,
                    NEW m \in details[b].pastMarkers, IsQuorum(MarkerVotes(m))
             PROVE  b \in accepted
    BY DEF QuorumMarkersAccepted
<1>1. b \in BlockID(m) /\ m \in KnownMarkers
    BY DEF BlockID, QuorumInv, AcceptanceInv, AcceptanceTypeOK, MarkersKnown
<1>2. Noticed(m, b)
    BY <1>1 DEF QuorumInv, QuorumsNoticed
<1>3. ~Queued({b})
    BY DEF QuietAcceptance, Queued, QuorumInv, AcceptanceInv, AcceptanceTypeOK, WalksSound
<1>4. m \notin tasks /\ ~ToWeigh(m)
    BY DEF QuietAcceptance, ToWeigh
<1> QED
    BY <1>2, <1>3, <1>4 DEF Noticed

-----------------------------------------------------------------------------
(* The theorems. *)

(* The inductive invariant: the markers known, the votes kept and the blocks that walks leave out. *)
THEOREM AcceptanceInvariant == SpecAcceptance => []AcceptanceInv
    BY InitAcceptanceInv, NextAcceptanceInv, PTL DEF SpecAcceptance

(* Type correctness: a vote handler is only active for a booked block, only booked blocks are     *)
(* accepted, and weights are only reported for markers that a booked block has in its past.       *)
THEOREM AcceptanceTypeCorrect == SpecAcceptance => []AcceptanceTypeOK
<1>1. AcceptanceInv => AcceptanceTypeOK
    BY DEF AcceptanceInv
<1> QED
    BY <1>1, AcceptanceInvariant, PTL

(* LatestMarkerVotes: whatever the order in which the handlers store the votes of an issuer, the  *)
(* power that Power finds for an index is the highest one of the votes for it or a later index.   *)
THEOREM StoredInAnyOrder == SpecAcceptance => []VotesInAnyOrder
    BY AcceptanceInvariant, VotesOrdered, PTL

(* propagateConfirmationStateToBlockPastCone by several workers: when they are done, no block of  *)
(* the past cone of an accepted one is left out, except below blocks accepted as weak parents,    *)
(* and lastConfirmedMarkers holds markers whose block is accepted.                                *)
THEOREM PastConesAccepted == SpecAcceptance => []PastConeAccepted
    BY AcceptanceInvariant, WalksAreDone, PTL

(* The inductive invariant of quorums: blocks are above the markers their handlers vote for, what *)
(* workers visit is approved, and no quorum of a marker goes unnoticed.                           *)
THEOREM QuorumInvariant == SpecAcceptance => []QuorumInv
    BY InitQuorumInv, NextQuorumInv, PTL DEF SpecAcceptance

(* HandleMarker and propagateConfirmationStateToBlockPastCone accept only blocks that issuers     *)
(* with the threshold of the weight approve, or their weak parents, although a vote counts for    *)
(* all lower indexes and for the markers that are referenced.                                     *)
THEOREM AcceptedHaveQuorums == SpecAcceptance => []AcceptedByQuorum
<1>1. QuorumInv => AcceptedByQuorum
    BY DEF QuorumInv, VisitsApproved, AcceptedByQuorum, ApprovedWeakly
<1> QED
    BY <1>1, QuorumInvariant, PTL

(* updateMarkerWeights looks at the indexes after the previous vote only, or from the first one   *)
(* that is not confirmed, while other handlers and the gadget go on: when all are done, the block *)
(* of every marker whose voters reach the threshold is accepted.                                  *)
THEOREM QuorumsOfMarkersAccepted == SpecAcceptance => []QuorumMarkersAccepted
    BY QuorumInvariant, QuorumsAreAccepted, PTL
=============================================================================
