----------------------------- MODULE MeshProofs -----------------------------
(***************************************************************************)
(* Proofs about two components of the mesh.                                *)
(*                                                                         *)
(* The booker, for any blocks that are booked in parallel and any          *)
(* transactions that are forked meanwhile: markers describe the past cones *)
(* of booked blocks (MarkersInv), no block has a conflict of a transaction *)
(* that it does not approve (ApprovedInv), and a fork that nothing else    *)
(* disturbs reaches every block above its transaction (ForksReach).        *)
(*                                                                         *)
(* The scheduler, for all blocks and issuers, all sizes of the buffer and  *)
(* all mana vectors: the counter of the buffer is right and the buffer     *)
(* bounded, deficits stay within their bound, every queue is in the ring   *)
(* once, blocks are scheduled in causal order and no block that has become *)
(* ready is overlooked.  That ready blocks leave is liveness and           *)
(* model-checked.                                                          *)
(***************************************************************************)
EXTENDS Booker, Scheduler, FiniteSetTheorems, FunctionTheorems, SequenceTheorems, NaturalsInduction,
        WellFoundedInduction, TLAPS

-----------------------------------------------------------------------------
(* The booker: the inductive invariant of the markers. *)

(* Blocks that have their structure details. *)
Placed == {x \in Block : details[x].pastMarkers # {}}

(* The block of a marker. *)
Owner(m) == {x \in Block : details[x].isPastMarker /\ m \in details[x].pastMarkers}

(* The genesis' marker and those of blocks. *)
Made == {m \in Marker : m = <<0, 0>> \/ Owner(m) # {}}

(* The blocks of the markers up to m are in the past cone of b. *)
Above(b, m) == \A i \in 0 .. m[2] : Owner(<<m[1], i>>) \subseteq PastCone[b]

(* The steps of a booking, and the blocks they leave behind. *)
BookingsFollow ==
    /\ booking \in [Block -> [pc : {"idle", "inherit", "register", "conflicts"},
                              inherited : SUBSET Conflict, register : SUBSET Made]]
    /\ booked \subseteq Placed
    /\ \A b \in Block :
        /\ b \in Placed => StrongParents[b] \subseteq booked
        /\ booking[b].pc # "idle" => b \notin booked /\ StrongParents[b] \subseteq booked
        /\ b \in Placed <=> b \in booked \/ booking[b].pc \in {"register", "conflicts"}
        /\ b \notin Placed => details[b] = NoMarkers
        /\ booking[b].pc # "register" => booking[b].register = {}

(* A block adds one sequence at most, and one index; it is above its past markers. *)
MarkersMade ==
    /\ details \in [Block -> StructureDetails]
    /\ \E k \in 0 .. Cardinality(Placed) : DOMAIN sequences = 0 .. k
    /\ \A s \in DOMAIN sequences :
            sequences[s] \in Sequence /\ sequences[s].highestIndex <= Cardinality(Placed)
    /\ \A m \in Made : m[1] \in DOMAIN sequences /\ m[2] <= sequences[m[1]].highestIndex
    /\ \A b \in Block :
        /\ \A m \in details[b].pastMarkers : m \in Made /\ Above(b, m)
        /\ details[b].isPastMarker =>
                \E m \in Marker : details[b].pastMarkers = {m} /\ m[2] > 0 /\ Owner(m) = {b}

(* A marker is above what it references, and later ones reference no less. *)
ReferencesBelow ==
    \A s \in DOMAIN sequences : \A e \in sequences[s].referenced :
        /\ e[2] \in Made
        /\ \E x \in Owner(<<s, e[1]>>) : Above(x, e[2])
        /\ \A f \in sequences[s].referenced : e[2][1] = f[2][1] /\ e[1] <= f[1] => e[2][2] <= f[2][2]

(* A block covers the markers in its past cone. *)
MarkersCovered ==
    \A b \in Placed, x \in Block : details[x].isPastMarker /\ x \in PastCone[b] =>
        \A m \in details[x].pastMarkers : Covers(b, m)

(* The invariant of the markers. *)
MarkersInv == BookingsFollow /\ MarkersMade /\ ReferencesBelow /\ MarkersCovered

-----------------------------------------------------------------------------
(* The inductive invariant of the conflicts. *)

(* Block b is or is above an attachment of c, forked or not. *)
Approves(b, c) == PastCone[b] \cap Attachments[c] # {}

(* The conflicts cs of a marker are approved by its block. *)
Justified(m, cs) == cs = {} \/ \E x \in Owner(m) : cs \subseteq Approved(x)

(* The mapping has markers that exist, with conflicts that their blocks approve. *)
MappingJustified ==
    /\ DOMAIN mapping \subseteq DOMAIN sequences
    /\ \A s \in DOMAIN mapping : \A i \in DOMAIN mapping[s] :
            <<s, i>> \in Made /\ mapping[s][i] \subseteq Conflict /\ Justified(<<s, i>>, mapping[s][i])

(* A registered marker is above the marker that it references. *)
ReferencingAbove ==
    /\ \A s \in DOMAIN sequences : \A e \in sequences[s].referencing :
            <<s, e[1]>> \in Made /\ \E y \in Owner(e[2]) : Above(y, <<s, e[1]>>)
    /\ \A b \in Block : \A n \in booking[b].register : details[b].isPastMarker /\ Above(b, n)

(* What blocks add, and what bookings inherit, is approved. *)
BlocksApproved ==
    /\ added \in [Block -> SUBSET Conflict] /\ subtracted \in [Block -> SUBSET Conflict]
    /\ \A b \in Block : added[b] \subseteq Approved(b) /\ booking[b].inherited \subseteq Approved(b)

(* A PropagateForkedConflict call. *)
ForkState ==
    [pc : {"idle", "walk", "marker", "set", "done"}, queue : SUBSET Block, pushed : SUBSET Block,
     locked : SUBSET Block, markers : SUBSET Made, pushedMarkers : SUBSET Made,
     setting : SUBSET (SequenceIDs \X MarkerIndex \X SUBSET Conflict)]

(* A fork visits only what approves its conflict, and sets what the block of the marker approves. *)
ForkApproved(c) ==
    /\ fork[c].pc = "idle" => fork[c] = NotForking
    /\ fork[c].pc # "set" => fork[c].setting = {}
    /\ fork[c].locked # {} <=> fork[c].pc \in {"marker", "set"}
    /\ fork[c].queue \subseteq fork[c].pushed /\ fork[c].markers \subseteq fork[c].pushedMarkers
    /\ \A b \in fork[c].pushed \cup fork[c].locked : Approves(b, c)
    /\ \A m \in fork[c].pushedMarkers : \E x \in Owner(m) : Approves(x, c)
    /\ \A u \in fork[c].setting : /\ <<u[1], u[2]>> \in fork[c].pushedMarkers /\ u[1] \in DOMAIN mapping
                                  /\ Justified(<<u[1], u[2]>>, u[3])

(* All forks do so. *)
ForksApproved == fork \in [Conflict -> ForkState] /\ \A c \in Conflict : ForkApproved(c)

(* The invariant of the conflicts. *)
ApprovedInv == MappingJustified /\ ReferencingAbove /\ BlocksApproved /\ ForksApproved

(* The inductive invariant of markers and conflicts. *)
BookerInv == MarkersInv /\ ApprovedInv /\ panicked \in BOOLEAN

-----------------------------------------------------------------------------
(* What a fork leaves behind. *)

(* The mapping gives c to the marker. *)
MarkerHas(m, c) == Mapped(m) /\ c \in ConflictIDs(m)

(* The block has c, of its own or by its markers. *)
BlockHas(b, c) ==
    c \notin subtracted[b] /\ (c \in added[b] \/ \E m \in details[b].pastMarkers : MarkerHas(m, c))

(* A block that the fork of c need not come to again: it has c, or its booking will find it. *)
Settled(b, c) ==
    Undisturbed(b, c) =>
        /\ b \in booked => BlockHas(b, c)
        /\ booking[b].pc # "idle" => c \in booking[b].inherited

(* The fork has come to the blocks S, or to one below them when they were not booked.  *)
Reaches(c, S) ==
    /\ \A b \in S : Approves(b, c) /\ Settled(b, c)
    /\ \A b \in S : StrongChildren(b) \subseteq S \cup fork[c].queue \cup fork[c].locked
    /\ fork[c].pushed \subseteq S \cup fork[c].queue \cup fork[c].locked
    /\ fork[c].pc # "idle" => Attachments[c] \subseteq fork[c].pushed
    /\ \A b \in S \cup fork[c].queue : b \in booked \/ booking[b].pc # "idle" \/ b \in Attachments[c]
                                        \/ StrongParents[b] \cap S # {}
    /\ \A b \in Block : c \in added[b] => b \in S

(* The marker of the block that it is at has c, will get it, or is to be visited. *)
MarkerReached(c) ==
    \A b \in fork[c].locked :
        /\ b \in booked /\ details[b].isPastMarker
        /\ Undisturbed(b, c) => \A m \in details[b].pastMarkers :
                m \in fork[c].markers \/ MarkerHas(m, c)
                \/ \E u \in fork[c].setting : <<u[1], u[2]>> = m

(* A fork is at one block, and sets one mapping, that with its conflict. *)
ForkShape(c) ==
    /\ fork[c].pc = "set" => fork[c].setting # {}
    /\ \A x, y \in fork[c].locked : x = y
    /\ \A u, v \in fork[c].setting : u = v
    /\ \A u \in fork[c].setting : c \in u[3]
    /\ fork[c].pc = "done" => fork[c].queue = {}

(* What the fork of c has visited, or will visit, is all that it has to. *)
ForkReaches(c) == MarkerReached(c) /\ \E S \in SUBSET Block : Reaches(c, S)

(* A block subtracts when it is booked, not before. *)
SubtractedLast == \A b \in Block : b \notin booked => subtracted[b] = {}

(* Every fork of a transaction that builds on no other fork reaches what it has to. *)
ForksReach ==
    /\ SubtractedLast
    /\ \A c \in Conflict : ForkShape(c) /\ (ParentConflicts[c] = {} /\ ~panicked => ForkReaches(c))

(* The inductive invariant with the forks. *)
ReachInv == ForksReach /\ BookerInv

-----------------------------------------------------------------------------
(* Least and greatest numbers. *)

(* A set of natural numbers has a least one. *)
LEMMA LeastNumber ==
    ASSUME NEW T \in SUBSET Nat, T # {}
    PROVE  \E m \in T : \A n \in T : m <= n
<1>1. PICK t \in T : \A s \in T : ~(<<s, t>> \in OpToRel(<, Nat))
    BY NatLessThanWellFounded, WFMin
<1>2. ASSUME NEW n \in T PROVE t <= n
    <2>1. ~(n < t)
        BY <1>1 DEF OpToRel
    <2> QED BY <2>1
<1> QED
    BY <1>2

(* Min of a set of natural numbers. *)
LEMMA MinOfNumbers ==
    ASSUME NEW T \in SUBSET Nat, T # {}
    PROVE  Min(T) \in T
<1>1. PICK m \in T : \A n \in T : m <= n
    BY LeastNumber
<1> QED
    BY <1>1 DEF Min

(* Max of a set of natural numbers with a bound. *)
LEMMA MaxOfNumbers ==
    ASSUME NEW n \in Nat, NEW T \in SUBSET (0 .. n), T # {}
    PROVE  Max(T) \in T /\ \A x \in T : x <= Max(T)
<1> DEFINE U == {k \in Nat : \A x \in T : x <= k}
<1>1. U \in SUBSET Nat /\ n \in U
    OBVIOUS
<1>2. PICK k \in U : \A l \in U : k <= l
    <2> HIDE DEF U
    <2> QED BY <1>1, LeastNumber
<1>3. k \in Nat /\ \A x \in T : x <= k
    BY <1>2
<1>4. k \in T
    <2>1. SUFFICES ASSUME k \notin T PROVE FALSE
        OBVIOUS
    <2>2. \A x \in T : x \in Nat /\ x <= k - 1
        BY <1>3, <2>1
    <2>3. k - 1 \in Nat
        <3>1. PICK x \in T : TRUE
            OBVIOUS
        <3>2. x \in Nat /\ x <= k - 1
            BY <2>2
        <3> QED BY <1>3, <3>2
    <2>4. k - 1 \in U
        BY <2>2, <2>3
    <2> HIDE DEF U
    <2> QED BY <1>2, <1>3, <2>4
<1>5. \E x \in T : \A y \in T : x >= y
    BY <1>3, <1>4
<1>6. Max(T) \in T /\ \A y \in T : Max(T) >= y
    BY <1>5 DEF Max
<1> QED
    BY <1>6
-----------------------------------------------------------------------------
(* Past cones. *)

(* The blocks that are in every set that holds b and the strong parents of its elements. *)
Reached(b) ==
    {x \in Block : \A S \in SUBSET Block : (b \in S /\ \A y \in S : StrongParents[y] \subseteq S) => x \in S}

(* Reached satisfies the equation of PastCone. *)
LEMMA ReachedUnfolds ==
    ASSUME NEW b \in Block
    PROVE  Reached(b) = {b} \cup UNION {Reached(p) : p \in StrongParents[b]}
<1> DEFINE T == {b} \cup UNION {Reached(p) : p \in StrongParents[b]}
<1>1. \A y \in Block : StrongParents[y] \subseteq Block
    BY MarkersAssumption
<1>2. ASSUME NEW x \in T PROVE x \in Reached(b)
    <2>1. CASE x = b
        BY <2>1 DEF Reached
    <2>2. CASE x # b
        <3>1. PICK p \in StrongParents[b] : x \in Reached(p)
            BY <2>2
        <3>2. ASSUME NEW S \in SUBSET Block, b \in S, \A y \in S : StrongParents[y] \subseteq S
              PROVE  x \in S
            <4>1. p \in S
                BY <3>2
            <4> QED BY <3>1, <3>2, <4>1 DEF Reached
        <3>3. x \in Block
            BY <3>1 DEF Reached
        <3> HIDE DEF T
        <3> QED BY <3>2, <3>3 DEF Reached
    <2> QED BY <2>1, <2>2
<1>3. ASSUME NEW x \in Reached(b) PROVE x \in T
    <2>1. T \in SUBSET Block
        BY DEF Reached
    <2>2. ASSUME NEW y \in T, NEW z \in StrongParents[y] PROVE z \in T
        <3>1. CASE y = b
            <4>1. z \in Reached(z)
                BY <1>1, <3>1 DEF Reached
            <4>2. z \in StrongParents[b]
                BY <2>2, <3>1
            <4> QED BY <4>1, <4>2
        <3>2. CASE y # b
            <4>1. PICK p \in StrongParents[b] : y \in Reached(p)
                BY <3>2
            <4>2. y \in Block /\ z \in Block
                BY <1>1, <2>1, <2>2
            <4>3. z \in Reached(p)
                BY <2>2, <4>1, <4>2 DEF Reached
            <4> QED BY <4>3
        <3> QED BY <3>1, <3>2
    <2>3. b \in T
        OBVIOUS
    <2> HIDE DEF T
    <2> QED BY <1>3, <2>1, <2>2, <2>3 DEF Reached
<1> QED
    BY <1>2, <1>3

(* The past cone of a block holds the block and the past cones of its strong parents. *)
LEMMA PastConeUnfolds ==
    ASSUME NEW b \in Block
    PROVE  PastCone[b] = {b} \cup UNION {PastCone[p] : p \in StrongParents[b]}
<1> DEFINE R == [x \in Block |-> Reached(x)]
           Cone(f) == f = [x \in Block |-> {x} \cup UNION {f[p] : p \in StrongParents[x]}]
<1>1. ASSUME NEW x \in Block PROVE R[x] = {x} \cup UNION {R[p] : p \in StrongParents[x]}
    <2>1. \A p \in StrongParents[x] : R[p] = Reached(p)
        BY MarkersAssumption
    <2>2. UNION {R[p] : p \in StrongParents[x]} = UNION {Reached(p) : p \in StrongParents[x]}
        <3> HIDE DEF R
        <3> QED BY <2>1
    <2>3. R[x] = Reached(x)
        OBVIOUS
    <2> HIDE DEF R
    <2> QED BY <2>2, <2>3, ReachedUnfolds
<1>2. Cone(R)
    <2> HIDE DEF R
    <2>1. R = [x \in Block |-> R[x]]
        BY DEF R
    <2> QED BY <1>1, <2>1
<1>3. PastCone = CHOOSE f : Cone(f)
    BY DEF PastCone
<1>4. Cone(PastCone)
    <2> HIDE DEF R, Cone
    <2> QED BY <1>2, <1>3
<1> QED
    BY <1>4

(* A past cone holds blocks, and the past cones of what it holds. *)
LEMMA PastConeClosed ==
    ASSUME NEW b \in Block
    PROVE  /\ b \in PastCone[b] /\ PastCone[b] \subseteq Block
           /\ \A x \in PastCone[b] : PastCone[x] \subseteq PastCone[b]
           /\ \A p \in StrongParents[b] : PastCone[p] \subseteq PastCone[b]
<1> DEFINE Closed(y) == PastCone[y] \subseteq Block /\ \A x \in PastCone[y] : PastCone[x] \subseteq PastCone[y]
           C == {y \in Block : ~Closed(y)}
<1>1. \A y \in Block : StrongParents[y] \subseteq Block
    BY MarkersAssumption
<1>2. ASSUME C # {} PROVE FALSE
    <2>1. PICK y \in C : StrongParents[y] \cap C = {}
        <3>1. C \in SUBSET Block
            OBVIOUS
        <3> HIDE DEF C
        <3> QED BY <1>2, <3>1, MarkersAssumption
    <2>2. PastCone[y] = {y} \cup UNION {PastCone[p] : p \in StrongParents[y]}
        BY PastConeUnfolds
    <2>3. \A p \in StrongParents[y] : Closed(p)
        BY <1>1, <2>1
    <2>4. PastCone[y] \subseteq Block
        BY <2>2, <2>3
    <2>5. ASSUME NEW x \in PastCone[y] PROVE PastCone[x] \subseteq PastCone[y]
        <3>1. CASE x = y
            BY <3>1
        <3>2. CASE x # y
            <4>1. PICK p \in StrongParents[y] : x \in PastCone[p]
                BY <2>2, <3>2
            <4>2. PastCone[x] \subseteq PastCone[p] /\ PastCone[p] \subseteq PastCone[y]
                BY <2>2, <2>3, <4>1
            <4> QED BY <4>2
        <3> QED BY <3>1, <3>2
    <2> QED BY <2>1, <2>4, <2>5
<1>3. Closed(b)
    BY <1>2
<1> QED
    BY <1>3, PastConeUnfolds

(* A block is not in the past of another one in its past. *)
LEMMA PastConeAcyclic ==
    ASSUME NEW b \in Block, NEW x \in PastCone[b], b \in PastCone[x]
    PROVE  x = b
<1> DEFINE C == {y \in Block : \E p \in StrongParents[y] : y \in PastCone[p]}
<1>1. \A y \in Block : StrongParents[y] \subseteq Block
    BY MarkersAssumption
<1>2. ASSUME C # {} PROVE FALSE
    <2>1. PICK y \in C : StrongParents[y] \cap C = {}
        <3>1. C \in SUBSET Block
            OBVIOUS
        <3> HIDE DEF C
        <3> QED BY <1>2, <3>1, MarkersAssumption
    <2>2. PICK p \in StrongParents[y] : y \in PastCone[p]
        OBVIOUS
    <2>3. p \in Block
        BY <1>1
    <2>4. CASE y = p
        BY <2>1, <2>2, <2>3, <2>4
    <2>5. CASE y # p
        <3>1. PICK q \in StrongParents[p] : y \in PastCone[q]
            BY <2>2, <2>3, <2>5, PastConeUnfolds
        <3>2. q \in Block /\ p \in PastCone[y]
            BY <1>1, <2>2, <2>3, PastConeClosed
        <3>3. p \in PastCone[q]
            BY <3>1, <3>2, PastConeClosed
        <3>4. p \in C
            BY <2>3, <3>1, <3>3
        <3> QED BY <2>1, <2>2, <3>4
    <2> QED BY <2>4, <2>5
<1>3. SUFFICES ASSUME x # b PROVE FALSE
    OBVIOUS
<1>4. PICK p \in StrongParents[b] : x \in PastCone[p]
    BY <1>3, PastConeUnfolds
<1>5. p \in Block
    BY <1>1
<1>6. b \in PastCone[p]
    BY <1>4, <1>5, PastConeClosed
<1> QED
    BY <1>2, <1>4, <1>6

-----------------------------------------------------------------------------
(* Walks along the referenced markers. *)

(* There are no more markers than blocks and the one of the genesis; they reference each other. *)
WalkFacts ==
    /\ IsFiniteSet(Made) /\ Cardinality(Made) <= Cardinality(Block) + 1
    /\ \A m \in Made : ReferencedMarkers(m) \subseteq Made

(* A walk collects the least set that is closed under ReferencedMarkers. *)
ClosedWalks ==
    \A ms \in SUBSET Made :
        /\ Referenced(ms) \subseteq Made
        /\ \A m \in ms \cup Referenced(ms) : ReferencedMarkers(m) \subseteq Referenced(ms)
        /\ \A S : (\A m \in ms \cup S : ReferencedMarkers(m) \subseteq S) => Referenced(ms) \subseteq S

(* The walk is as long as it has to be: it grows with each step, or has come to its end. *)
LEMMA WalksClose == WalkFacts => ClosedWalks
<1> SUFFICES ASSUME WalkFacts, NEW ms \in SUBSET Made
             PROVE  /\ Referenced(ms) \subseteq Made
                    /\ \A m \in ms \cup Referenced(ms) : ReferencedMarkers(m) \subseteq Referenced(ms)
                    /\ \A S : (\A m \in ms \cup S : ReferencedMarkers(m) \subseteq S) => Referenced(ms) \subseteq S
    BY DEF ClosedWalks
<1> DEFINE C == Cardinality(Block)
           A == UNION {ReferencedMarkers(m) : m \in ms}
           next(S) == S \cup UNION {ReferencedMarkers(m) : m \in S}
           Walks(f, k) == f = [n \in 0 .. k |-> IF n = 0 THEN A ELSE next(f[n - 1])]
<1>1. C \in Nat
    BY MarkersAssumption, FS_CardinalityType
<1> HIDE DEF C
<1>2. ASSUME NEW k \in Nat PROVE \E f : Walks(f, k)
    <2> DEFINE Bad == {i \in Nat : ~\E f : Walks(f, i)}
    <2>1. SUFFICES ASSUME Bad # {} PROVE FALSE
        OBVIOUS
    <2>2. PICK i \in Bad : \A j \in Bad : i <= j
        <3>1. Bad \in SUBSET Nat
            OBVIOUS
        <3> HIDE DEF Bad
        <3> QED BY <2>1, <3>1, LeastNumber
    <2> HIDE DEF A, next
    <2>3. CASE i = 0
        <3> DEFINE f == [n \in 0 .. 0 |-> A]
        <3>1. f = [n \in 0 .. 0 |-> IF n = 0 THEN A ELSE next(f[n - 1])]
            OBVIOUS
        <3>2. Walks(f, 0)
            BY <3>1
        <3> HIDE DEF f, Walks
        <3> QED BY <2>3, <3>2
    <2>4. CASE i # 0
        <3>1. i \in Nat /\ i - 1 \in Nat /\ i - 1 \notin Bad
            BY <2>2, <2>4
        <3>2. PICK f : Walks(f, i - 1)
            BY <3>1
        <3> DEFINE g == [n \in 0 .. i |-> IF n = i THEN next(f[i - 1]) ELSE f[n]]
        <3>3. ASSUME NEW n \in 0 .. i PROVE g[n] = IF n = 0 THEN A ELSE next(g[n - 1])
            <4>1. CASE n = i
                <5>1. g[n - 1] = f[n - 1]
                    BY <3>1, <4>1
                <5> QED BY <2>4, <4>1, <5>1
            <4>2. CASE n # i
                <5>1. n \in 0 .. (i - 1) /\ g[n] = f[n] /\ (n # 0 => g[n - 1] = f[n - 1])
                    BY <3>1, <4>2
                <5>2. f[n] = IF n = 0 THEN A ELSE next(f[n - 1])
                    BY <3>2, <5>1
                <5> QED BY <5>1, <5>2
            <4> QED BY <4>1, <4>2
        <3>4. g = [n \in 0 .. i |-> g[n]]
            OBVIOUS
        <3>5. Walks(g, i)
            <4> HIDE DEF g
            <4> QED BY <3>3, <3>4
        <3> HIDE DEF g, Walks
        <3> QED BY <3>5
    <2> QED BY <2>3, <2>4
<1> DEFINE w == CHOOSE f : Walks(f, C)
<1>3. Walks(w, C)
    <2> HIDE DEF Walks
    <2> QED BY <1>1, <1>2
<1>4. Referenced(ms) = w[C]
    BY DEF Referenced, C
<1> HIDE DEF w
<1>5. w[0] = A /\ \A n \in 1 .. C : w[n] = next(w[n - 1])
    <2> HIDE DEF A, next
    <2>1. \A n \in 0 .. C : w[n] = IF n = 0 THEN A ELSE next(w[n - 1])
        BY <1>3
    <2>2. 0 \in 0 .. C /\ \A n \in 1 .. C : n \in 0 .. C /\ n # 0
        BY <1>1
    <2> QED BY <2>1, <2>2
(* What is closed holds all of the walk. *)
<1>6. ASSUME NEW S, \A m \in ms \cup S : ReferencedMarkers(m) \subseteq S, NEW k \in 0 .. C
      PROVE  w[k] \subseteq S
    <2> DEFINE Bad == {i \in 0 .. C : ~(w[i] \subseteq S)}
    <2>1. SUFFICES ASSUME Bad # {} PROVE FALSE
        OBVIOUS
    <2>2. PICK i \in Bad : \A j \in Bad : i <= j
        <3>1. Bad \in SUBSET Nat
            OBVIOUS
        <3> HIDE DEF Bad
        <3> QED BY <2>1, <3>1, LeastNumber
    <2>3. CASE i = 0
        BY <1>5, <1>6, <2>2, <2>3
    <2>4. CASE i # 0
        <3>1. i \in 1 .. C /\ i - 1 \in 0 .. C /\ i - 1 \notin Bad
            BY <1>1, <2>2, <2>4
        <3>2. w[i - 1] \subseteq S /\ w[i] = next(w[i - 1])
            BY <1>5, <3>1
        <3> QED BY <1>6, <2>2, <3>2
    <2> QED BY <2>3, <2>4
<1>7. \A k \in 0 .. C : w[k] \subseteq Made
    BY <1>6 DEF WalkFacts
<1>8. ASSUME NEW i \in 0 .. C, NEW k \in 0 .. C, i <= k PROVE w[i] \subseteq w[k]
    <2> DEFINE Bad == {j \in 0 .. C : i <= j /\ ~(w[i] \subseteq w[j])}
    <2>1. SUFFICES ASSUME Bad # {} PROVE FALSE
        BY <1>8
    <2>2. PICK j \in Bad : \A l \in Bad : j <= l
        <3>1. Bad \in SUBSET Nat
            OBVIOUS
        <3> HIDE DEF Bad
        <3> QED BY <2>1, <3>1, LeastNumber
    <2>3. j # i /\ j \in 1 .. C /\ j - 1 \in 0 .. C /\ i <= j - 1 /\ j - 1 \notin Bad
        BY <1>1, <2>2
    <2>4. w[i] \subseteq w[j - 1] /\ w[j] = next(w[j - 1])
        BY <1>5, <2>3
    <2> QED BY <2>2, <2>4
<1>9. next(w[C]) = w[C]
    <2>1. SUFFICES ASSUME next(w[C]) # w[C] PROVE FALSE
        OBVIOUS
    (* A step that finds nothing new is the last one that does. *)
    <2>2. ASSUME NEW k \in 0 .. C, \A m \in w[k] : ReferencedMarkers(m) \subseteq w[k],
                 \A m \in ms : ReferencedMarkers(m) \subseteq w[k]
          PROVE  FALSE
        <3>1. w[C] \subseteq w[k]
            BY <1>1, <1>6, <2>2
        <3>2. w[k] \subseteq w[C]
            BY <1>1, <1>8
        <3> QED BY <2>1, <2>2, <3>1, <3>2
    <2>3. \A k \in 0 .. C, m \in ms : ReferencedMarkers(m) \subseteq w[k]
        <3>1. \A k \in 0 .. C : A \subseteq w[k]
            BY <1>1, <1>5, <1>8
        <3> QED BY <3>1
    <2>4. \A k \in 0 .. C : IsFiniteSet(w[k]) /\ Cardinality(w[k]) \in Nat
        BY <1>7, FS_Subset, FS_CardinalityType DEF WalkFacts
    <2> DEFINE Bad == {i \in 0 .. C : ~(Cardinality(w[i]) >= i + 1)}
    <2>5. ASSUME Bad # {} PROVE FALSE
        <3>1. PICK i \in Bad : \A j \in Bad : i <= j
            <4>1. Bad \in SUBSET Nat
                OBVIOUS
            <4> HIDE DEF Bad
            <4> QED BY <2>5, <4>1, LeastNumber
        <3>2. CASE i = 0
            <4>1. Cardinality(w[0]) = 0
                BY <2>4, <3>1, <3>2
            <4>2. w[0] = {}
                BY <2>4, <3>1, <3>2, <4>1, FS_EmptySet
            <4> QED BY <2>2, <2>3, <3>1, <3>2, <4>2
        <3>3. CASE i # 0
            <4>1. i \in 1 .. C /\ i - 1 \in 0 .. C /\ i - 1 \notin Bad
                BY <1>1, <3>1, <3>3
            <4>2. w[i] = next(w[i - 1]) /\ w[i - 1] \subseteq w[i]
                BY <1>5, <4>1
            <4>3. w[i] # w[i - 1]
                BY <2>2, <2>3, <4>1, <4>2
            <4>4. Cardinality(w[i - 1]) <= Cardinality(w[i]) /\ Cardinality(w[i - 1]) # Cardinality(w[i])
                BY <2>4, <3>1, <4>2, <4>3, FS_Subset
            <4>5. Cardinality(w[i - 1]) >= i
                BY <4>1
            <4> HIDE DEF Bad
            <4>6. Cardinality(w[i]) >= i + 1
                BY <2>4, <4>1, <4>4, <4>5
            <4> QED BY <3>1, <4>6 DEF Bad
        <3> QED BY <3>2, <3>3
    <2>6. Cardinality(w[C]) >= C + 1 /\ Cardinality(w[C]) \in Nat
        BY <1>1, <2>4, <2>5
    <2>7. next(w[C]) \subseteq Made /\ w[C] \subseteq next(w[C])
        BY <1>1, <1>7 DEF WalkFacts
    <2>8. IsFiniteSet(next(w[C])) /\ Cardinality(next(w[C])) <= Cardinality(Made)
        BY <2>7, FS_Subset DEF WalkFacts
    <2> HIDE DEF next
    <2>9. Cardinality(w[C]) <= Cardinality(next(w[C])) /\ Cardinality(w[C]) # Cardinality(next(w[C]))
        BY <2>1, <2>7, <2>8, FS_Subset
    <2>10. Cardinality(next(w[C])) \in Nat /\ Cardinality(Made) \in Nat
        BY <2>8, FS_CardinalityType DEF WalkFacts
    <2> QED BY <1>1, <2>6, <2>8, <2>9, <2>10 DEF WalkFacts, C
<1>10. \A m \in w[C] : ReferencedMarkers(m) \subseteq w[C]
    BY <1>9
<1>11. \A m \in ms : ReferencedMarkers(m) \subseteq w[C]
    <2>1. A \subseteq w[C]
        BY <1>1, <1>5, <1>8
    <2> QED BY <2>1
<1>12. C \in 0 .. C
    BY <1>1
<1> DEFINE R == w[C]
<1>13. R \subseteq Made /\ \A S : (\A m \in ms \cup S : ReferencedMarkers(m) \subseteq S) => R \subseteq S
    BY <1>6, <1>7, <1>12
<1>14. \A m \in ms \cup R : ReferencedMarkers(m) \subseteq R
    BY <1>10, <1>11
<1> HIDE DEF R
<1>15. Referenced(ms) = R
    BY <1>4 DEF R
<1> QED
    BY <1>13, <1>14, <1>15

-----------------------------------------------------------------------------
(* Markers and their blocks. *)

(* A block that others in S have in their past, if at all, only because they are the same. *)
LEMMA TopBlock ==
    ASSUME NEW S \in SUBSET Block, S # {}
    PROVE  \E x \in S : \A y \in S : x \in PastCone[y] => y = x
<1> DEFINE extent(x) == Cardinality(PastCone[x])
           sizes == {extent(x) : x \in S}
           C == Cardinality(Block)
<1>1. C \in Nat
    BY MarkersAssumption, FS_CardinalityType
<1>2. \A x \in Block : IsFiniteSet(PastCone[x]) /\ extent(x) \in 0 .. C
    <2> SUFFICES ASSUME NEW x \in Block PROVE IsFiniteSet(PastCone[x]) /\ extent(x) \in 0 .. C
        OBVIOUS
    <2>1. PastCone[x] \in SUBSET Block
        BY PastConeClosed
    <2>2. IsFiniteSet(PastCone[x]) /\ extent(x) <= C
        BY <2>1, MarkersAssumption, FS_Subset
    <2>3. extent(x) \in Nat
        BY <2>2, FS_CardinalityType
    <2> QED BY <1>1, <2>2, <2>3
<1>3. sizes \in SUBSET (0 .. C) /\ sizes # {}
    BY <1>2
<1>4. Max(sizes) \in sizes /\ \A n \in sizes : n <= Max(sizes)
    <2> HIDE DEF sizes, C
    <2> QED BY <1>1, <1>3, MaxOfNumbers
<1>5. PICK x \in S : \A y \in S : extent(y) <= extent(x)
    BY <1>4
<1>6. ASSUME NEW y \in S, x \in PastCone[y], y # x PROVE FALSE
    <2>1. PastCone[x] \subseteq PastCone[y] /\ y \in PastCone[y]
        BY <1>6, PastConeClosed
    <2>2. y \notin PastCone[x]
        BY <1>6, PastConeAcyclic
    <2>3. extent(x) <= extent(y) /\ extent(x) # extent(y)
        BY <1>2, <2>1, <2>2, FS_Subset
    <2>4. extent(y) <= extent(x) /\ extent(x) \in Nat /\ extent(y) \in Nat
        BY <1>2, <1>5
    <2> QED BY <2>3, <2>4
<1> QED
    BY <1>5, <1>6

(* A marker has one block, and a block one marker. *)
LEMMA OwnerOfMarker ==
    ASSUME MarkersMade, NEW m, NEW x \in Owner(m)
    PROVE  /\ x \in Block /\ details[x].isPastMarker /\ details[x].pastMarkers = {m}
           /\ Owner(m) = {x} /\ m \in Made /\ m[2] > 0
<1>1. x \in Block /\ details[x].isPastMarker /\ m \in details[x].pastMarkers
    BY DEF Owner
<1>2. PICK n \in Marker : details[x].pastMarkers = {n} /\ n[2] > 0 /\ Owner(n) = {x}
    BY <1>1 DEF MarkersMade
<1>3. m = n
    BY <1>1, <1>2
<1> QED
    BY <1>1, <1>2, <1>3 DEF Made

(* A marker that was made is a pair of numbers. *)
LEMMA MadeTyped ==
    ASSUME NEW m \in Made
    PROVE  m \in Marker /\ m[1] \in Nat /\ m[2] \in Nat /\ m[2] <= 2 * Cardinality(Block)
           /\ m = <<m[1], m[2]>> /\ (m = <<0, 0>> \/ Owner(m) # {})
<1>1. Cardinality(Block) \in Nat
    BY MarkersAssumption, FS_CardinalityType
<1> QED
    BY <1>1 DEF Made, Marker, SequenceIDs, MarkerIndex

(* A reference is from a marker that was made to one that was made. *)
LEMMA ReferencesTyped ==
    ASSUME MarkersMade, ReferencesBelow, NEW s \in DOMAIN sequences, NEW e \in sequences[s].referenced
    PROVE  /\ e[1] \in Nat /\ e[2] \in Made /\ e = <<e[1], e[2]>> /\ <<s, e[1]>> \in Made /\ e[1] > 0
<1>1. sequences[s] \in Sequence
    BY DEF MarkersMade
<1>2. e \in Nat \X Marker
    BY <1>1 DEF Sequence
<1>3. PICK x \in Owner(<<s, e[1]>>) : TRUE
    BY DEF ReferencesBelow
<1> QED
    BY <1>2, <1>3, OwnerOfMarker DEF ReferencesBelow

(* Walks along references stay among the markers that were made. *)
LEMMA WalkFactsHold == MarkersMade /\ ReferencesBelow => WalkFacts
<1> SUFFICES ASSUME MarkersMade, ReferencesBelow PROVE WalkFacts
    OBVIOUS
<1> DEFINE M == Made \ {<<0, 0>>}
           f == [m \in M |-> CHOOSE x : x \in Owner(m)]
<1>1. IsFiniteSet(Block) /\ Cardinality(Block) \in Nat
    BY MarkersAssumption, FS_CardinalityType
<1>2. \A m \in M : f[m] \in Owner(m)
    BY DEF Made
<1>3. f \in Injection(M, Block)
    <2>1. \A m \in M : f[m] \in Block /\ details[f[m]].pastMarkers = {m}
        BY <1>2, OwnerOfMarker
    <2>2. f \in [M -> Block]
        <3> HIDE DEF M
        <3> QED BY <2>1
    <2>3. \A m, n \in M : f[m] = f[n] => m = n
        <3> HIDE DEF f
        <3> QED BY <2>1
    <2> HIDE DEF f, M
    <2> QED BY <2>2, <2>3 DEF Injection, IsInjective
<1>4. IsFiniteSet(M) /\ Cardinality(M) <= Cardinality(Block)
    <2> HIDE DEF f, M
    <2> QED BY <1>1, <1>3, FS_Injection
<1>5. IsFiniteSet(M \cup {<<0, 0>>}) /\ Cardinality(M \cup {<<0, 0>>}) <= Cardinality(Block) + 1
    <2> HIDE DEF M
    <2>1. Cardinality(M) \in Nat
        BY <1>4, FS_CardinalityType
    <2>2. /\ IsFiniteSet(M \cup {<<0, 0>>})
          /\ Cardinality(M \cup {<<0, 0>>}) = IF <<0, 0>> \in M THEN Cardinality(M) ELSE Cardinality(M) + 1
        BY <1>4, FS_AddElement
    <2> QED BY <1>1, <1>4, <2>1, <2>2
<1>6. Made \subseteq M \cup {<<0, 0>>}
    OBVIOUS
<1>7. IsFiniteSet(Made) /\ Cardinality(Made) <= Cardinality(M \cup {<<0, 0>>})
    <2> HIDE DEF M
    <2> QED BY <1>5, <1>6, FS_Subset
<1>8. Cardinality(Made) \in Nat /\ Cardinality(M \cup {<<0, 0>>}) \in Nat
    <2> HIDE DEF M
    <2> QED BY <1>5, <1>7, FS_CardinalityType
<1>9. Cardinality(Made) <= Cardinality(Block) + 1
    <2> HIDE DEF M
    <2> QED BY <1>1, <1>5, <1>7, <1>8
<1>10. ASSUME NEW m \in Made PROVE ReferencedMarkers(m) \subseteq Made
    <2>1. m[1] \in DOMAIN sequences
        BY DEF MarkersMade
    <2>2. \A e \in sequences[m[1]].referenced : e[2] \in Made
        BY <2>1 DEF ReferencesBelow
    <2>3. \A n \in ReferencedMarkers(m) : \E e \in sequences[m[1]].referenced : n = e[2]
        BY DEF ReferencedMarkers
    <2> QED BY <2>2, <2>3
<1> QED
    BY <1>7, <1>9, <1>10 DEF WalkFacts

(* The walk of Referenced ends at a fixed point. *)
LEMMA WalksClosed == MarkersMade /\ ReferencesBelow => ClosedWalks
    BY WalkFactsHold, WalksClose

(* What a block is above, the blocks above it are above as well. *)
LEMMA AboveInherited ==
    ASSUME NEW b \in Block, NEW x \in PastCone[b], NEW m, Above(x, m)
    PROVE  Above(b, m)
    BY PastConeClosed DEF Above

(* Above a marker is above the earlier ones of its sequence. *)
LEMMA AboveEarlier ==
    ASSUME NEW b \in Block, NEW m, m[2] \in Nat, Above(b, m), NEW n, n[1] = m[1], n[2] \in Nat, n[2] <= m[2]
    PROVE  Above(b, n)
    BY DEF Above

(* Above a marker is above the blocks of it and of the earlier ones. *)
LEMMA AboveOwner ==
    ASSUME NEW b \in Block, NEW m, Above(b, m), NEW i \in Nat, m[2] \in Nat, i <= m[2],
           NEW x \in Owner(<<m[1], i>>)
    PROVE  x \in PastCone[b]
<1>1. i \in 0 .. m[2]
    OBVIOUS
<1> QED
    BY <1>1 DEF Above

(* What a marker references is below the blocks that are above the marker. *)
LEMMA ReferencedAbove ==
    ASSUME MarkersMade, ReferencesBelow, NEW b \in Block, NEW ms \in SUBSET Made, \A m \in ms : Above(b, m)
    PROVE  \A n \in Referenced(ms) : n \in Made /\ Above(b, n)
<1> DEFINE S == {n \in Made : Above(b, n)}
<1>1. ASSUME NEW m \in S, NEW n \in ReferencedMarkers(m) PROVE n \in S
    <2>1. PICK e \in sequences[m[1]].referenced : e[1] <= m[2] /\ n = e[2]
        BY DEF ReferencedMarkers
    <2>2. m[1] \in DOMAIN sequences /\ m[2] \in Nat
        BY MadeTyped DEF MarkersMade
    <2>3. e[1] \in Nat /\ e[2] \in Made
        BY <2>2, ReferencesTyped
    <2>4. PICK x \in Owner(<<m[1], e[1]>>) : Above(x, e[2])
        BY <2>2 DEF ReferencesBelow
    <2>5. x \in PastCone[b]
        BY <2>1, <2>2, <2>3, <2>4, AboveOwner
    <2>6. Above(b, e[2])
        BY <2>4, <2>5, AboveInherited
    <2> QED BY <2>1, <2>3, <2>6
<1>2. ms \subseteq S
    OBVIOUS
<1>3. \A m \in ms \cup S : ReferencedMarkers(m) \subseteq S
    <2> HIDE DEF S
    <2> QED BY <1>1, <1>2
<1>4. Referenced(ms) \subseteq S
    <2> HIDE DEF S
    <2> QED BY <1>3, WalksClosed DEF ClosedWalks
<1> QED
    BY <1>4

-----------------------------------------------------------------------------
(* What a set of markers covers. *)

(* Some marker of W is n or a later one of its sequence. *)
Within(n, W) == \E w \in W : w[1] = n[1] /\ n[2] <= w[2]

(* What a block covers is within its past markers and their references. *)
LEMMA CoversIsWithin ==
    ASSUME NEW b, NEW m
    PROVE  Covers(b, m) <=> Within(m, details[b].pastMarkers \cup Referenced(details[b].pastMarkers))
    BY DEF Covers, Within

(* Within what is within. *)
LEMMA WithinTransitive ==
    ASSUME NEW V \in SUBSET Made, NEW W \in SUBSET Made, \A v \in V : Within(v, W),
           NEW n \in Made, Within(n, V)
    PROVE  Within(n, W)
<1>1. PICK v \in V : v[1] = n[1] /\ n[2] <= v[2]
    BY DEF Within
<1>2. PICK w \in W : w[1] = v[1] /\ v[2] <= w[2]
    BY DEF Within
<1>3. n[2] \in Nat /\ v[2] \in Nat /\ w[2] \in Nat
    BY MadeTyped
<1> QED
    BY <1>1, <1>2, <1>3 DEF Within

(* An entry that counts for m is overtaken only by one that references at least as much. *)
LEMMA ReferencedLatest ==
    ASSUME MarkersMade, ReferencesBelow, NEW m \in Made,
           NEW e \in sequences[m[1]].referenced, e[1] <= m[2]
    PROVE  Within(e[2], ReferencedMarkers(m))
<1> DEFINE upTo == {x \in sequences[m[1]].referenced : x[1] <= m[2]}
           same == {x \in upTo : x[2][1] = e[2][1]}
           idx == {x[1] : x \in same}
<1>1. m[1] \in DOMAIN sequences /\ m[2] \in Nat
    BY MadeTyped DEF MarkersMade
<1>2. ASSUME NEW x \in upTo PROVE x[1] \in 0 .. m[2]
    <2>1. x \in sequences[m[1]].referenced /\ x[1] <= m[2]
        OBVIOUS
    <2>2. x[1] \in Nat
        BY <1>1, <2>1, ReferencesTyped
    <2> QED BY <1>1, <2>1, <2>2
<1>3. idx \in SUBSET (0 .. m[2]) /\ e[1] \in idx
    BY <1>2
<1>4. PICK f \in same : f[1] = Max(idx)
    <2>1. Max(idx) \in idx
        <3> HIDE DEF idx
        <3> QED BY <1>1, <1>3, MaxOfNumbers
    <2> QED BY <2>1
<1>5. \A y \in same : y[1] <= f[1]
    <2>1. \A n \in idx : n <= Max(idx)
        <3> HIDE DEF idx
        <3> QED BY <1>1, <1>3, MaxOfNumbers
    <2>2. \A y \in same : y[1] \in idx
        OBVIOUS
    <2> HIDE DEF idx, same
    <2> QED BY <1>4, <2>1, <2>2
<1>6. f \in {x \in upTo : \A y \in upTo : y[2][1] = x[2][1] => y[1] <= x[1]}
    BY <1>4, <1>5
<1>7. f[2] \in ReferencedMarkers(m)
    BY <1>6 DEF ReferencedMarkers
<1>8. f \in sequences[m[1]].referenced /\ e[2][1] = f[2][1] /\ e[1] <= f[1]
    BY <1>4, <1>5
<1>9. e[2][2] <= f[2][2]
    BY <1>1, <1>8 DEF ReferencesBelow
<1> QED
    BY <1>7, <1>8, <1>9 DEF Within

(* What is closed covers all that is referenced by what it covers. *)
LEMMA WalkWithin ==
    ASSUME MarkersMade, ReferencesBelow, NEW W \in SUBSET Made, \A w \in W : ReferencedMarkers(w) \subseteq W,
           NEW ms \in SUBSET Made, \A m \in ms : Within(m, W)
    PROVE  \A n \in ms \cup Referenced(ms) : n \in Made /\ Within(n, W)
<1> DEFINE S == {n \in Made : Within(n, W)}
<1>1. ASSUME NEW m \in S, NEW n \in ReferencedMarkers(m) PROVE n \in S
    <2>1. PICK w \in W : w[1] = m[1] /\ m[2] <= w[2]
        BY DEF Within
    <2>2. PICK e \in sequences[m[1]].referenced : e[1] <= m[2] /\ n = e[2]
        BY DEF ReferencedMarkers
    <2>3. m[1] \in DOMAIN sequences /\ m[2] \in Nat /\ w[2] \in Nat
        BY MadeTyped DEF MarkersMade
    <2>4. e[1] \in Nat /\ e[2] \in Made
        BY <2>3, ReferencesTyped
    <2>5. e \in sequences[w[1]].referenced /\ e[1] <= w[2]
        BY <2>1, <2>2, <2>3, <2>4
    <2>6. Within(n, ReferencedMarkers(w))
        BY <2>2, <2>5, ReferencedLatest
    <2>7. Within(n, W)
        BY <2>6 DEF Within
    <2> QED BY <2>2, <2>4, <2>7
<1>2. ms \subseteq S
    OBVIOUS
<1>3. \A m \in ms \cup S : ReferencedMarkers(m) \subseteq S
    <2> HIDE DEF S
    <2> QED BY <1>1, <1>2
<1>4. Referenced(ms) \subseteq S
    <2> HIDE DEF S
    <2> QED BY <1>3, WalksClosed DEF ClosedWalks
<1> QED
    BY <1>2, <1>4

(* The markers with all that they reference are closed. *)
LEMMA CoverClosed ==
    ASSUME MarkersMade, ReferencesBelow, NEW ms \in SUBSET Made
    PROVE  /\ ms \cup Referenced(ms) \subseteq Made
           /\ \A m \in ms \cup Referenced(ms) : ReferencedMarkers(m) \subseteq ms \cup Referenced(ms)
           /\ \A m \in ms : Within(m, ms \cup Referenced(ms))
<1>1. \A m \in ms : m[2] <= m[2]
    BY MadeTyped
<1> QED
    BY <1>1, WalksClosed DEF ClosedWalks, Within

(* Merge keeps the highest marker of each sequence. *)
LEMMA MergeKeeps ==
    ASSUME NEW ms \in SUBSET Made, NEW m \in ms
    PROVE  Within(m, Merge(ms))
<1> DEFINE idx == {n[2] : n \in {x \in ms : x[1] = m[1]}}
           C == 2 * Cardinality(Block)
<1>1. C \in Nat
    BY MarkersAssumption, FS_CardinalityType
<1>2. \A n \in ms : n[2] \in 0 .. C
    BY <1>1, MadeTyped
<1>3. idx \in SUBSET (0 .. C) /\ m[2] \in idx
    BY <1>2
<1>4. Max(idx) \in idx /\ \A i \in idx : i <= Max(idx)
    <2> HIDE DEF idx, C
    <2> QED BY <1>1, <1>3, MaxOfNumbers
<1>5. PICK n \in ms : n[1] = m[1] /\ n[2] = Max(idx)
    BY <1>4
<1>6. \A x \in ms : x[1] = m[1] => x[2] <= n[2]
    BY <1>4, <1>5
<1>7. n \in Merge(ms)
    BY <1>5, <1>6 DEF Merge
<1> QED
    BY <1>5, <1>6, <1>7 DEF Within

(***************************************************************************)
(* What normalizeMarkers drops is covered by what it keeps.  Among the     *)
(* markers that were not, take one whose block is in the past of no other: *)
(* it is dropped for what another one references, which is not covered     *)
(* either and is above it.                                                 *)
(***************************************************************************)
LEMMA NormalizeKeeps ==
    ASSUME MarkersMade, ReferencesBelow, NEW ms \in SUBSET Made
    PROVE  \A m \in ms : Within(m, NormalizeMarkers(ms) \cup Referenced(NormalizeMarkers(ms)))
<1> DEFINE N == NormalizeMarkers(ms)
           W == N \cup Referenced(N)
           Bad == {m \in ms : ~Within(m, W)}
           Owners == UNION {Owner(m) : m \in Bad}
<1>1. N \in SUBSET Made
    BY DEF NormalizeMarkers
<1>2. W \in SUBSET Made /\ (\A w \in W : ReferencedMarkers(w) \subseteq W) /\ \A m \in N : Within(m, W)
    <2> HIDE DEF N
    <2> QED BY <1>1, CoverClosed
<1> HIDE DEF W, N
(* A marker that is not covered has been dropped because of another one. *)
<1>3. ASSUME NEW m \in Bad
      PROVE  \E l \in Bad : \E x \in Owner(l) : /\ l # m /\ Owner(l) = {x}
                                                /\ \A y \in Owner(m) : y \in PastCone[x] /\ y # x
    <2>1. m \in ms /\ m \notin N
        BY <1>2
    <2>2. PICK n \in Referenced(ms) : n[1] = m[1] /\ ~(n[2] <= m[2])
        BY <2>1 DEF N, NormalizeMarkers
    <2>3. PICK l \in ms : n \in Referenced({l})
        <3> DEFINE S == UNION {Referenced({l}) : l \in ms}
        <3>1. \A l \in ms : {l} \in SUBSET Made
            OBVIOUS
        <3>2. \A l \in ms : /\ ReferencedMarkers(l) \subseteq Referenced({l})
                            /\ \A k \in Referenced({l}) : ReferencedMarkers(k) \subseteq Referenced({l})
            BY <3>1, WalksClosed DEF ClosedWalks
        <3>3. \A k \in ms \cup S : ReferencedMarkers(k) \subseteq S
            BY <3>2
        <3>4. Referenced(ms) \subseteq S
            <4> HIDE DEF S
            <4> QED BY <3>3, WalksClosed DEF ClosedWalks
        <3> QED BY <2>2, <3>4
    <2>4. l \in Made /\ m \in Made /\ m[2] \in Nat /\ l = <<l[1], l[2]>> /\ m = <<m[1], m[2]>>
          /\ l[2] \in Nat
        BY MadeTyped
    <2>5. n \in Made /\ n[2] \in Nat /\ n[2] > m[2]
        <3>1. Referenced(ms) \subseteq Made
            BY WalksClosed DEF ClosedWalks
        <3>2. n \in Made /\ n[2] \in Nat
            BY <3>1, MadeTyped
        <3> QED BY <2>2, <2>4, <3>2
    <2>6. ASSUME Within(l, W) PROVE FALSE
        <3>1. {l} \in SUBSET Made /\ \A k \in {l} : Within(k, W)
            BY <2>4, <2>6
        <3>2. \A k \in {l} \cup Referenced({l}) : k \in Made /\ Within(k, W)
            <4> HIDE DEF Bad
            <4> QED BY <1>2, <3>1, WalkWithin
        <3>3. Within(n, W)
            BY <2>3, <3>2
        <3>4. PICK w \in W : w[1] = n[1] /\ n[2] <= w[2]
            BY <3>3 DEF Within
        <3>5. w[2] \in Nat
            BY <1>2, MadeTyped
        <3>6. Within(m, W)
            BY <2>2, <2>4, <2>5, <3>4, <3>5 DEF Within
        <3> QED BY <3>6
    <2>7. l \in Bad
        BY <2>6
    <2>8. PICK x \in Owner(l) : TRUE
        <3>1. ASSUME Owner(l) = {} PROVE FALSE
            <4>1. l = <<0, 0>>
                BY <2>4, <3>1, MadeTyped
            <4>2. ReferencedMarkers(l) = {}
                <5>1. ASSUME NEW e \in sequences[l[1]].referenced, e[1] <= l[2] PROVE FALSE
                    <6>1. 0 \in DOMAIN sequences /\ l[1] = 0 /\ l[2] = 0
                        BY <2>4, <4>1 DEF MarkersMade
                    <6>2. e[1] \in Nat /\ e[1] > 0
                        BY <6>1, <5>1, ReferencesTyped
                    <6> QED BY <5>1, <6>1, <6>2
                <5> QED BY <5>1 DEF ReferencedMarkers
            <4>3. Referenced({l}) \subseteq {}
                <5>1. \A k \in {l} \cup {} : ReferencedMarkers(k) \subseteq {}
                    BY <4>2
                <5>2. {l} \in SUBSET Made
                    BY <2>4
                <5> QED BY <5>1, <5>2, WalksClosed DEF ClosedWalks
            <4> QED BY <2>3, <4>3
        <3> QED BY <3>1
    <2>9. x \in Block /\ Owner(l) = {x} /\ details[x].pastMarkers = {l}
        BY <2>8, OwnerOfMarker
    <2>10. Above(x, n)
        <3>1. {l} \in SUBSET Made /\ \A k \in {l} : Above(x, k)
            BY <2>4, <2>9 DEF MarkersMade
        <3> QED BY <2>3, <2>9, <3>1, ReferencedAbove
    <2>11. ASSUME NEW y \in Owner(m) PROVE y \in PastCone[x] /\ y # x
        <3>1. y \in Block /\ details[y].pastMarkers = {m}
            BY OwnerOfMarker
        <3>2. y \in PastCone[x]
            BY <2>2, <2>4, <2>5, <2>9, <2>10, AboveOwner
        <3>3. ASSUME y = x PROVE FALSE
            (* Then the block of n, which is above that of m, is y as well. *)
            <4>1. PICK z \in Owner(n) : TRUE
                <5>1. n # <<0, 0>>
                    BY <2>4, <2>5
                <5> QED BY <2>5, <5>1, MadeTyped
            <4>2. z \in Block /\ details[z].pastMarkers = {n} /\ n = <<n[1], n[2]>>
                BY <2>5, <4>1, OwnerOfMarker, MadeTyped
            <4>3. z \in PastCone[x]
                BY <2>5, <2>9, <2>10, <4>1, <4>2, AboveOwner
            <4>4. Above(z, n)
                BY <4>2 DEF MarkersMade
            <4>5. y \in PastCone[z]
                BY <2>2, <2>4, <2>5, <4>2, <4>4, AboveOwner
            <4>6. z = y
                BY <3>1, <3>3, <4>3, <4>5, PastConeAcyclic
            <4>7. m = n
                BY <3>1, <4>2, <4>6
            <4> QED BY <2>4, <2>5, <4>7
        <3> QED BY <3>2, <3>3
    <2>12. l # m
        BY <2>8, <2>11, PastConeClosed, OwnerOfMarker
    <2> QED BY <2>7, <2>8, <2>9, <2>11, <2>12
<1>4. ASSUME NEW m \in Bad PROVE FALSE
    <2>1. Owners # {} /\ Owners \in SUBSET Block
        <3>1. PICK l \in Bad : \E x \in Owner(l) : TRUE
            BY <1>3
        <3>2. Owners \in SUBSET Block
            BY DEF Owner
        <3> QED BY <3>1, <3>2
    <2>2. PICK y \in Owners : \A x \in Owners : y \in PastCone[x] => x = y
        <3> HIDE DEF Owners
        <3> QED BY <2>1, TopBlock
    <2>3. PICK k \in Bad : y \in Owner(k)
        BY <2>2
    <2>4. PICK l \in Bad : \E x \in Owner(l) : y \in PastCone[x] /\ y # x
        BY <1>3, <2>3
    <2> QED BY <2>2, <2>4
<1> QED
    BY <1>4 DEF W, N

(* Walks end at a fixed point in the next state as well. *)
LEMMA WalksClosedNext == (MarkersMade /\ ReferencesBelow)' => ClosedWalks'
    BY WalksClosed, PTL

-----------------------------------------------------------------------------
(* What a block inherits, and the marker it gets. *)

(* The blocks with structure details are finite in number. *)
LEMMA PlacedCounted ==
    /\ IsFiniteSet(Placed) /\ Cardinality(Placed) \in Nat /\ Cardinality(Block) \in Nat
    /\ Placed \subseteq Block /\ Cardinality(Placed) <= Cardinality(Block)
    /\ Placed # Block => Cardinality(Placed) + 1 <= Cardinality(Block)
<1>1. Placed \in SUBSET Block
    BY DEF Placed
<1>2. /\ IsFiniteSet(Placed) /\ Cardinality(Placed) <= Cardinality(Block)
      /\ Cardinality(Block) = Cardinality(Placed) => Block = Placed
    <2> HIDE DEF Placed
    <2> QED BY <1>1, MarkersAssumption, FS_Subset
<1>3. Cardinality(Placed) \in Nat /\ Cardinality(Block) \in Nat
    BY <1>2, MarkersAssumption, FS_CardinalityType
<1> QED
    BY <1>1, <1>2, <1>3

(* A sequence has no more indexes than there are blocks with structure details. *)
LEMMA MadeBounded ==
    ASSUME MarkersMade
    PROVE  /\ <<0, 0>> \in Made /\ 0 \in DOMAIN sequences
           /\ \A m \in Made : m[2] \in 0 .. Cardinality(Placed)
           /\ \A s \in DOMAIN sequences : s \in SequenceIDs /\ sequences[s].highestIndex \in Nat
<1>1. PICK k \in 0 .. Cardinality(Placed) : DOMAIN sequences = 0 .. k
    BY DEF MarkersMade
<1>2. Cardinality(Placed) \in Nat /\ Cardinality(Block) \in Nat /\ Cardinality(Placed) <= Cardinality(Block)
    BY PlacedCounted
<1>3. \A s \in DOMAIN sequences : s \in SequenceIDs /\ sequences[s].highestIndex \in Nat
                                  /\ sequences[s].highestIndex <= Cardinality(Placed)
    BY <1>1, <1>2 DEF MarkersMade, Sequence, SequenceIDs
<1>4. <<0, 0>> \in Made
    BY <1>2 DEF Made, Marker, SequenceIDs, MarkerIndex
<1>5. ASSUME NEW m \in Made PROVE m[2] \in 0 .. Cardinality(Placed)
    <2>1. m[2] \in Nat /\ m[1] \in DOMAIN sequences /\ m[2] <= sequences[m[1]].highestIndex
        BY MadeTyped DEF MarkersMade
    <2> QED BY <1>2, <1>3, <2>1
<1> QED
    BY <1>1, <1>2, <1>3, <1>4, <1>5

(* The markers that b inherits: one for each sequence, none behind what another one references. *)
Inheritable(b, past) ==
    /\ past \in SUBSET Made /\ past # {}
    /\ \A m \in past : Above(b, m)
    /\ \A m, n \in past : m[1] = n[1] => m = n
    /\ \A m, n \in past : \A e \in sequences[n[1]].referenced :
            e[1] <= n[2] /\ e[2][1] = m[1] => e[2][2] <= m[2]
    /\ \A x \in PastCone[b] : x # b /\ details[x].isPastMarker =>
            \A m \in details[x].pastMarkers : Within(m, past \cup Referenced(past))

(* What a booking merges from its parents describes their past. *)
LEMMA MergedInheritable ==
    ASSUME MarkersInv, NEW b \in Block, booking[b].pc = "inherit"
    PROVE  /\ MergedDetails(b) \in StructureDetails /\ ~MergedDetails(b).isPastMarker
           /\ Inheritable(b, MergedDetails(b).pastMarkers)
<1> DEFINE parents == IF StrongParents[b] = {} THEN {NoMarkers} ELSE {details[p] : p \in StrongParents[b]}
           all == UNION {d.pastMarkers : d \in parents}
           merged == Merge(all)
           N == NormalizeMarkers(merged)
           gaps == {d.pastMarkerGap : d \in parents}
           past == IF N = {} THEN {<<0, 0>>} ELSE N
<1> USE DEF MarkersInv
<1>1. /\ StrongParents[b] \subseteq Block /\ StrongParents[b] \subseteq booked /\ booked \subseteq Placed
      /\ b \notin Placed
    BY MarkersAssumption DEF BookingsFollow
<1>2. NoMarkers \in StructureDetails /\ NoMarkers.pastMarkers = {}
    BY DEF NoMarkers, StructureDetails
<1>3. /\ \A d \in parents : d \in StructureDetails /\ d.pastMarkers \subseteq Made
      /\ parents # {}
    BY <1>1, <1>2 DEF MarkersMade
<1>4. ASSUME NEW m \in all PROVE m \in Made /\ Above(b, m)
    <2>1. PICK d \in parents : m \in d.pastMarkers
        OBVIOUS
    <2>2. PICK p \in StrongParents[b] : d = details[p]
        BY <1>2, <2>1
    <2>3. m \in Made /\ Above(p, m)
        BY <1>1, <2>1, <2>2 DEF MarkersMade
    <2>4. p \in PastCone[b]
        BY <1>1, PastConeClosed
    <2> QED BY <2>3, <2>4, AboveInherited
<1>5. ASSUME NEW p \in StrongParents[b] PROVE details[p].pastMarkers \in SUBSET all /\ details[p].pastMarkers # {}
    BY <1>1 DEF Placed
<1> HIDE DEF parents
<1>6. gaps \in SUBSET Nat /\ gaps # {}
    BY <1>3 DEF StructureDetails
<1>7. Min(gaps) \in Nat
    <2> HIDE DEF gaps
    <2> QED BY <1>6, MinOfNumbers
<1>8. MergedDetails(b) = [pastMarkers |-> past, pastMarkerGap |-> Min(gaps) + 1, isPastMarker |-> FALSE]
    <2>1. MergedDetails(b) = [NoMarkers EXCEPT !.pastMarkers = past, !.pastMarkerGap = Min(gaps) + 1]
        BY DEF MergedDetails, parents
    <2> HIDE DEF past, gaps
    <2> QED BY <2>1 DEF NoMarkers
<1> HIDE DEF gaps, all
<1>9. merged \in SUBSET Made /\ all \in SUBSET Made
    BY <1>4 DEF Merge
<1>10. N \in SUBSET Made /\ \A m \in N : m \in merged
    BY <1>9 DEF NormalizeMarkers
<1>11. \A m \in merged : Within(m, N \cup Referenced(N))
    <2> HIDE DEF merged
    <2> QED BY <1>9, NormalizeKeeps
<1>12. past \in SUBSET Made /\ past # {}
    BY <1>10, MadeBounded
<1>13. \A m \in past : Above(b, m)
    <2>1. Owner(<<0, 0>>) = {}
        BY OwnerOfMarker
    <2>2. Above(b, <<0, 0>>)
        BY <2>1 DEF Above
    <2>3. \A m \in N : Above(b, m)
        BY <1>4, <1>10 DEF Merge
    <2> QED BY <2>2, <2>3
<1>14. ASSUME NEW m \in past, NEW n \in past, m[1] = n[1] PROVE m = n
    <2>1. CASE N = {}
        BY <2>1
    <2>2. CASE N # {}
        <3>1. m \in merged /\ n \in merged
            BY <1>10, <2>2
        <3>2. n[2] <= m[2] /\ m[2] <= n[2]
            BY <1>14, <3>1 DEF Merge
        <3>3. m = <<m[1], m[2]>> /\ n = <<n[1], n[2]>> /\ m[2] \in Nat /\ n[2] \in Nat
            BY <1>12, MadeTyped
        <3>4. m[2] = n[2]
            BY <3>2, <3>3
        <3> QED BY <1>14, <3>3, <3>4
    <2> QED BY <2>1, <2>2
<1>15. ASSUME NEW m \in past, NEW n \in past, NEW e \in sequences[n[1]].referenced,
              e[1] <= n[2], e[2][1] = m[1]
       PROVE  e[2][2] <= m[2]
    <2>1. n \in Made /\ m \in Made /\ n[1] \in DOMAIN sequences
        BY <1>12 DEF MarkersMade
    <2>2. e[1] \in Nat /\ e[1] > 0 /\ e[2] \in Made
        BY <2>1, ReferencesTyped
    <2>3. CASE N = {}
        BY <1>15, <2>2, <2>3
    <2>4. CASE N # {}
        <3>1. m \in N /\ n \in merged
            BY <1>10, <2>4
        <3>2. PICK k \in ReferencedMarkers(n) : k[1] = e[2][1] /\ e[2][2] <= k[2]
            BY <1>15, <2>1, ReferencedLatest DEF Within
        <3>3. k \in Referenced(merged) /\ Referenced(merged) \subseteq Made
            <4> HIDE DEF merged
            <4> QED BY <1>9, <3>1, <3>2, WalksClosed DEF ClosedWalks
        <3>4. k[2] <= m[2]
            BY <1>15, <3>1, <3>2, <3>3 DEF NormalizeMarkers
        <3>5. k[2] \in Nat /\ m[2] \in Nat /\ e[2][2] \in Nat
            BY <2>1, <2>2, <3>3, MadeTyped
        <3> QED BY <3>2, <3>4, <3>5
    <2> QED BY <2>3, <2>4
<1>16. ASSUME NEW x \in PastCone[b], x # b, details[x].isPastMarker, NEW m \in details[x].pastMarkers
       PROVE  Within(m, past \cup Referenced(past))
    <2>1. PICK p \in StrongParents[b] : x \in PastCone[p]
        BY <1>16, PastConeUnfolds
    <2> DEFINE D == details[p].pastMarkers
               W == N \cup Referenced(N)
    <2>2. p \in Placed /\ x \in Block
        BY <1>1, <1>16, PastConeClosed
    <2>3. Within(m, D \cup Referenced(D))
        BY <1>16, <2>1, <2>2, CoversIsWithin DEF MarkersCovered
    <2>4. D \in SUBSET Made /\ D # {} /\ D \in SUBSET all
        BY <1>1, <1>5, <1>9
    <2>5. W \in SUBSET Made /\ \A w \in W : ReferencedMarkers(w) \subseteq W
        <3> HIDE DEF N
        <3> QED BY <1>10, CoverClosed
    <2>6. ASSUME NEW n \in D PROVE Within(n, W)
        <3>1. Within(n, merged)
            BY <1>9, <2>4, MergeKeeps
        <3>2. n \in Made /\ \A k \in merged : Within(k, W)
            BY <1>11, <2>4
        <3> HIDE DEF merged, W, D
        <3> QED BY <1>9, <2>5, <3>1, <3>2, WithinTransitive
    <2>7. \A n \in D \cup Referenced(D) : n \in Made /\ Within(n, W)
        <3> HIDE DEF W, D
        <3> QED BY <2>4, <2>5, <2>6, WalkWithin
    <2>8. m \in Made
        BY <1>16, <2>2 DEF MarkersMade
    <2>9. Within(m, W)
        <3>1. D \cup Referenced(D) \in SUBSET Made
            BY <2>7
        <3> HIDE DEF W, D
        <3> QED BY <2>3, <2>5, <2>7, <2>8, <3>1, WithinTransitive
    <2>10. N # {}
        <3>1. ASSUME N = {} PROVE FALSE
            <4>1. Referenced({}) \subseteq {}
                <5>1. {} \in SUBSET Made /\ \A k \in {} \cup {} : ReferencedMarkers(k) \subseteq {}
                    OBVIOUS
                <5> QED BY <5>1, WalksClosed DEF ClosedWalks
            <4>2. W = {}
                BY <3>1, <4>1
            <4> QED BY <2>9, <4>2 DEF Within
        <3> QED BY <3>1
    <2> QED BY <2>9, <2>10
<1>17. Inheritable(b, past)
    <2> HIDE DEF past
    <2> QED BY <1>12, <1>13, <1>14, <1>15, <1>16 DEF Inheritable
<1>18. past \in SUBSET Marker
    BY <1>12 DEF Made
<1> HIDE DEF past
<1> QED
    BY <1>7, <1>8, <1>17, <1>18 DEF StructureDetails

(* An index of the sequence that comes next, or the first one of a new sequence. *)
NextMarker(m, past) ==
    /\ m \in Marker /\ m = <<m[1], m[2]>> /\ m[2] \in Nat /\ m[2] > 0 /\ m[2] <= Cardinality(Placed) + 1
    /\ \A n \in past : n[2] < m[2]
    /\ IF m[1] \in DOMAIN sequences
       THEN <<m[1], sequences[m[1]].highestIndex>> \in past
       ELSE m[1] <= Cardinality(Placed) + 1 /\ DOMAIN sequences \cup {m[1]} = 0 .. m[1]

(* The marker that is assigned is the next of its sequence, or the first of a new one. *)
LEMMA AssignedIsNext ==
    ASSUME MarkersMade, Placed # Block,
           NEW d \in StructureDetails, d.pastMarkers \in SUBSET Made
    PROVE  AssignedMarker(d) = {} \/ \E m : AssignedMarker(d) = {m} /\ NextMarker(m, d.pastMarkers)
<1> DEFINE P == d.pastMarkers
           new == HighestIndex(P) + 1
           ext == Extendable(P)
           ids == {m[1] : m \in ext}
           heights == {0} \cup {m[2] : m \in P}
           C == Cardinality(Placed)
<1>1. /\ C \in Nat /\ Cardinality(Block) \in Nat /\ C + 1 <= Cardinality(Block)
    BY PlacedCounted
<1>2. \A m \in P : /\ m \in Made /\ m[2] \in 0 .. C /\ m = <<m[1], m[2]>>
                   /\ m[1] \in DOMAIN sequences /\ m[1] \in SequenceIDs
    BY MadeBounded, MadeTyped DEF MarkersMade
<1> HIDE DEF P, C
<1>3. new \in 1 .. C + 1 /\ \A m \in P : m[2] < new
    <2>1. heights \in SUBSET (0 .. C) /\ heights # {} /\ \A m \in P : m[2] \in heights
        BY <1>1, <1>2
    <2>2. Max(heights) \in heights /\ \A n \in heights : n <= Max(heights)
        <3> HIDE DEF heights
        <3> QED BY <1>1, <2>1, MaxOfNumbers
    <2>3. new = Max(heights) + 1
        BY DEF HighestIndex
    <2> HIDE DEF heights, new
    <2>4. Max(heights) \in 0 .. C /\ \A m \in P : m[2] \in 0 .. C /\ m[2] <= Max(heights)
        BY <2>1, <2>2
    <2> QED BY <1>1, <2>3, <2>4
<1> HIDE DEF new
<1>4. new \in MarkerIndex /\ new \in Nat /\ new > 0 /\ new <= C + 1
    BY <1>1, <1>3 DEF MarkerIndex
<1>5. CASE ext # {}
    <2>1. \A m \in ext : /\ m \in P /\ sequences[m[1]].highestIndex = m[2]
        BY DEF Extendable
    <2>2. ids \in SUBSET (0 .. Cardinality(Block)) /\ ids # {}
        BY <1>2, <1>5, <2>1 DEF SequenceIDs
    <2>3. Max(ids) \in ids
        <3> HIDE DEF ids
        <3> QED BY <1>1, <2>2, MaxOfNumbers
    <2>4. PICK m \in ext : m[1] = Max(ids)
        BY <2>3
    <2>5. AssignedMarker(d) = {<<Max(ids), new>>}
        BY <1>5 DEF AssignedMarker, new, P
    <2> HIDE DEF ids, ext
    <2>6. /\ Max(ids) \in DOMAIN sequences /\ Max(ids) \in SequenceIDs
          /\ <<Max(ids), sequences[Max(ids)].highestIndex>> \in P
        BY <1>2, <2>1, <2>4
    <2>7. NextMarker(<<Max(ids), new>>, P)
        BY <1>3, <1>4, <2>6 DEF NextMarker, C, Marker
    <2> QED BY <2>5, <2>7 DEF P
<1>6. CASE ext = {} /\ d.pastMarkerGap >= MaxPastMarkerDistance
    <2>1. PICK k \in 0 .. C : DOMAIN sequences = 0 .. k
        BY DEF MarkersMade, C
    <2>2. Cardinality(DOMAIN sequences) = k + 1
        <3>1. k \in Nat /\ k \in Int /\ 0 \in Int /\ ~(0 > k)
            BY <1>1, <2>1
        <3>2. Cardinality(0 .. k) = k - 0 + 1
            BY ONLY <3>1, FS_Interval
        <3> QED BY ONLY <2>1, <3>1, <3>2
    <2>3. AssignedMarker(d) = {<<k + 1, new>>}
        BY <1>6, <2>2 DEF AssignedMarker, new, P
    <2>4. /\ k + 1 \notin DOMAIN sequences /\ k + 1 \in SequenceIDs /\ k + 1 <= C + 1
          /\ DOMAIN sequences \cup {k + 1} = 0 .. (k + 1)
        BY <1>1, <2>1 DEF SequenceIDs
    <2>5. NextMarker(<<k + 1, new>>, P)
        BY <1>3, <1>4, <2>4 DEF NextMarker, C, Marker
    <2> QED BY <2>3, <2>5 DEF P
<1>7. CASE ext = {} /\ ~(d.pastMarkerGap >= MaxPastMarkerDistance)
    BY <1>7 DEF AssignedMarker, P
<1> QED
    BY <1>5, <1>6, <1>7

(* What a new marker references: the inherited markers of other sequences. *)
NewReferences(m, past) == {<<m[2], n>> : n \in {x \in past : x[1] # m[1]}}

(* The sequences with the new marker. *)
Extended(m, past) ==
    /\ DOMAIN sequences' = DOMAIN sequences \cup {m[1]}
    /\ \A s \in DOMAIN sequences' : sequences'[s] \in Sequence
    /\ \A s \in DOMAIN sequences : s # m[1] => sequences'[s] = sequences[s]
    /\ sequences'[m[1]].highestIndex = m[2]
    /\ m[1] \in DOMAIN sequences =>
            /\ sequences'[m[1]].referenced = sequences[m[1]].referenced \cup NewReferences(m, past)
            /\ sequences'[m[1]].referencing = sequences[m[1]].referencing
    /\ m[1] \notin DOMAIN sequences =>
            /\ sequences'[m[1]].referenced = NewReferences(m, past)
            /\ sequences'[m[1]].referencing = {}

(* The new marker changes its own sequence only. *)
LEMMA SequencesExtended ==
    ASSUME MarkersMade, NEW past \in SUBSET Made, NEW m, NextMarker(m, past),
           sequences' = WithMarker(m, past)
    PROVE  Extended(m, past)
<1> DEFINE others == {<<m[2], n>> : n \in {x \in past : x[1] # m[1]}}
<1>1. others = NewReferences(m, past)
    BY DEF NewReferences
<1>2. others \subseteq Nat \X Marker /\ m[2] \in Nat
    BY DEF NextMarker, Made
<1>3. \A s \in DOMAIN sequences : sequences[s] \in Sequence
    BY DEF MarkersMade
<1>4. CASE m[1] \in DOMAIN sequences
    <2>1. sequences' = [sequences EXCEPT ![m[1]].highestIndex = m[2], ![m[1]].referenced = @ \cup others]
        BY <1>4 DEF WithMarker
    <2> HIDE DEF others
    <2>2. DOMAIN sequences' = DOMAIN sequences
        BY <2>1
    <2>3. \A s \in DOMAIN sequences : s # m[1] => sequences'[s] = sequences[s]
        BY <2>1
    <2> DEFINE old == sequences[m[1]]
               r == [old EXCEPT !.highestIndex = m[2], !.referenced = old.referenced \cup others]
    <2>4. sequences'[m[1]] = r
        BY <1>3, <1>4, <2>1 DEF Sequence
    <2>5. r \in Sequence /\ r.highestIndex = m[2]
          /\ r.referenced = old.referenced \cup others /\ r.referencing = old.referencing
        <3>1. old \in Sequence
            BY <1>3, <1>4
        <3> HIDE DEF old
        <3> QED BY <1>2, <3>1 DEF Sequence
    <2> HIDE DEF r
    <2>6. \A s \in DOMAIN sequences' : sequences'[s] \in Sequence
        BY <1>3, <2>2, <2>3, <2>4, <2>5
    <2>7. DOMAIN sequences' = DOMAIN sequences \cup {m[1]}
        BY <1>4, <2>2
    <2> QED BY <1>1, <1>4, <2>3, <2>4, <2>5, <2>6, <2>7 DEF Extended
<1>5. CASE m[1] \notin DOMAIN sequences
    <2> DEFINE r == [lowestIndex |-> m[2], highestIndex |-> m[2], referenced |-> others, referencing |-> {}]
    <2>1. sequences' = [s \in DOMAIN sequences \cup {m[1]} |-> IF s \in DOMAIN sequences THEN sequences[s] ELSE r]
        BY <1>5 DEF WithMarker
    <2>2. r \in Sequence /\ r.highestIndex = m[2] /\ r.referenced = others /\ r.referencing = {}
        BY <1>2 DEF Sequence
    <2> HIDE DEF r
    <2>3. DOMAIN sequences' = DOMAIN sequences \cup {m[1]}
        BY <2>1
    <2>4. \A s \in DOMAIN sequences : sequences'[s] = sequences[s]
        BY <2>1
    <2>5. sequences'[m[1]] = r
        BY <1>5, <2>1
    <2>6. \A s \in DOMAIN sequences' : sequences'[s] \in Sequence
        BY <1>3, <2>2, <2>3, <2>4, <2>5
    <2> HIDE DEF others
    <2> QED BY <1>1, <1>5, <2>2, <2>3, <2>4, <2>5, <2>6 DEF Extended
<1> QED
    BY <1>4, <1>5

(***************************************************************************)
(* A booking places its block: it gets the inherited markers, or becomes   *)
(* the next one of a sequence.                                             *)
(***************************************************************************)
PlacedWith(b, past) ==
    /\ Inheritable(b, past) /\ b \notin Placed
    /\ details' \in [Block -> StructureDetails]
    /\ \A x \in Block : x # b => details'[x] = details[x]

(* The block keeps the past markers that it merged, *)
Unmarked(b, past) ==
    /\ details'[b].pastMarkers = past /\ ~details'[b].isPastMarker
    /\ sequences' = sequences

(* or becomes the marker m. *)
Marked(b, past, m) ==
    /\ NextMarker(m, past) /\ Extended(m, past)
    /\ details'[b].pastMarkers = {m} /\ details'[b].isPastMarker

(* What InheritStructureDetails does to the markers. *)
Inherits(b) == \E past : PlacedWith(b, past) /\ (Unmarked(b, past) \/ \E m : Marked(b, past, m))

(* It does, when the parents are booked. *)
LEMMA InheritsMarkers ==
    ASSUME MarkersInv, NEW b \in Block, InheritStructureDetails(b)
    PROVE  Inherits(b)
<1> DEFINE merged == MergedDetails(b)
           new == AssignedMarker(merged)
<1>1. booking[b].pc = "inherit"
    BY DEF InheritStructureDetails
<1>2. merged \in StructureDetails /\ ~merged.isPastMarker /\ Inheritable(b, merged.pastMarkers)
    BY <1>1, MergedInheritable
<1>3. b \notin Placed /\ details \in [Block -> StructureDetails] /\ MarkersMade
    BY <1>1 DEF MarkersInv, BookingsFollow, MarkersMade
<1>4. /\ sequences' = IF new = {} THEN sequences
                      ELSE WithMarker(CHOOSE m \in new : TRUE, merged.pastMarkers)
      /\ details' = [details EXCEPT ![b] =
                IF new = {} THEN merged
                ELSE [pastMarkers |-> new, pastMarkerGap |-> 0, isPastMarker |-> TRUE]]
    BY DEF InheritStructureDetails
<1> HIDE DEF merged, new
<1>5. \A x \in Block : x # b => details'[x] = details[x]
    BY <1>3, <1>4
<1>6. CASE new = {}
    <2>1. details' = [details EXCEPT ![b] = merged] /\ sequences' = sequences
        BY <1>4, <1>6
    <2>2. details' \in [Block -> StructureDetails] /\ details'[b] = merged
        BY <1>2, <1>3, <2>1
    <2> QED BY <1>2, <1>3, <1>5, <2>1, <2>2 DEF Inherits, PlacedWith, Unmarked
<1>7. CASE new # {}
    <2>1. Placed # Block /\ merged.pastMarkers \in SUBSET Made
        BY <1>2, <1>3 DEF Inheritable
    <2>2. PICK m : new = {m} /\ NextMarker(m, merged.pastMarkers)
        BY <1>2, <1>3, <1>7, <2>1, AssignedIsNext DEF new
    <2>3. (CHOOSE x \in new : TRUE) = m
        BY <2>2
    <2> DEFINE r == [pastMarkers |-> {m}, pastMarkerGap |-> 0, isPastMarker |-> TRUE]
    <2>4. r \in StructureDetails /\ r.pastMarkers = {m} /\ r.isPastMarker
        BY <2>2 DEF StructureDetails, NextMarker
    <2>5. details' = [details EXCEPT ![b] = r] /\ sequences' = WithMarker(m, merged.pastMarkers)
        BY <1>4, <1>7, <2>2, <2>3
    <2> HIDE DEF r
    <2>6. details' \in [Block -> StructureDetails] /\ details'[b] = r
        BY <1>3, <2>4, <2>5
    <2>7. Extended(m, merged.pastMarkers)
        BY <1>3, <2>1, <2>2, <2>5, SequencesExtended
    <2> QED BY <1>2, <1>3, <1>5, <2>2, <2>4, <2>6, <2>7 DEF Inherits, PlacedWith, Marked
<1> QED
    BY <1>6, <1>7

(* The blocks of the markers there are stay the same. *)
LEMMA OwnersFixed ==
    ASSUME MarkersMade, NEW b \in Block, NEW past, PlacedWith(b, past),
           Unmarked(b, past) \/ \E m : Marked(b, past, m)
    PROVE  /\ Placed' = Placed \cup {b} /\ Cardinality(Placed)' = Cardinality(Placed) + 1
           /\ \A n \in Made : \A i \in 0 .. n[2] : Owner(<<n[1], i>>)' = Owner(<<n[1], i>>)
           /\ \A n \in Made : n \in Made' /\ Owner(n)' = Owner(n) /\ \A x : Above(x, n)' <=> Above(x, n)
<1>1. \A x \in Block : x # b => details'[x] = details[x]
    BY DEF PlacedWith
<1>2. details'[b].pastMarkers # {}
    BY DEF Unmarked, Marked, PlacedWith, Inheritable
<1>3. Placed' = Placed \cup {b} /\ b \notin Placed
    BY <1>1, <1>2 DEF Placed, PlacedWith
<1>4. Cardinality(Placed)' = Cardinality(Placed) + 1
    <2>1. IsFiniteSet(Placed)
        BY PlacedCounted
    <2>2. Cardinality(Placed \cup {b}) = IF b \in Placed THEN Cardinality(Placed) ELSE Cardinality(Placed) + 1
        BY <2>1, FS_AddElement
    <2> QED BY <1>3, <2>2
<1>5. ASSUME NEW n \in Made, NEW i \in 0 .. n[2] PROVE Owner(<<n[1], i>>)' = Owner(<<n[1], i>>)
    <2> DEFINE k == <<n[1], i>>
    <2>1. b \notin Owner(k)
        BY <1>3 DEF Owner, Placed
    <2>2. n[2] \in Nat /\ n[1] \in DOMAIN sequences /\ n[2] <= sequences[n[1]].highestIndex
          /\ sequences[n[1]].highestIndex \in Nat
        BY MadeTyped, MadeBounded DEF MarkersMade
    <2>3. ASSUME b \in Owner(k)' PROVE FALSE
        <3>1. details'[b].isPastMarker /\ k \in details'[b].pastMarkers
            BY <2>3 DEF Owner
        <3>2. PICK m : Marked(b, past, m)
            BY <3>1 DEF Unmarked
        <3>3. m = k
            BY <3>1, <3>2 DEF Marked
        <3>4. /\ m[1] \in DOMAIN sequences => <<m[1], sequences[m[1]].highestIndex>> \in past
              /\ \A x \in past : x[2] < m[2]
            BY <3>2 DEF Marked, NextMarker
        <3>5. m[1] = n[1] /\ m[2] = i
            BY <3>3
        <3>6. sequences[n[1]].highestIndex < i
            BY <2>2, <3>4, <3>5
        <3> QED BY <2>2, <3>6
    <2>4. \A x \in Block : x \in Owner(k)' <=> x \in Owner(k)
        <3> HIDE DEF k
        <3>1. \A x \in Block : x # b => (x \in Owner(k)' <=> x \in Owner(k))
            BY <1>1 DEF Owner
        <3> QED BY <2>1, <2>3, <3>1
    <2> QED BY <2>4 DEF Owner
<1>6. ASSUME NEW n \in Made
      PROVE  n \in Made' /\ Owner(n)' = Owner(n) /\ \A x : Above(x, n)' <=> Above(x, n)
    <2>1. n = <<n[1], n[2]>> /\ n[2] \in Nat /\ n[2] \in 0 .. n[2] /\ n \in Marker
        BY MadeTyped
    <2>2. Owner(n)' = Owner(n)
        BY <1>5, <2>1
    <2>3. \A x : Above(x, n)' <=> Above(x, n)
        BY <1>5 DEF Above
    <2>4. n \in Made'
        BY <2>1, <2>2 DEF Made
    <2> QED BY <2>2, <2>3, <2>4
<1> QED
    BY <1>3, <1>4, <1>5, <1>6

(* A new marker has been nobody's, and its block is above it. *)
LEMMA NewMarkerAbove ==
    ASSUME MarkersMade, NEW b \in Block, NEW past, PlacedWith(b, past), NEW m, Marked(b, past, m)
    PROVE  /\ m \notin Made /\ Made' = Made \cup {m} /\ Owner(m)' = {b}
           /\ \A s, i : Owner(<<s, i>>)' \subseteq Owner(<<s, i>>) \cup (IF <<s, i>> = m THEN {b} ELSE {})
           /\ Above(b, m)'
<1>1. \A x \in Block : x # b => details'[x] = details[x]
    BY DEF PlacedWith
<1>2. /\ m \in Marker /\ m = <<m[1], m[2]>> /\ m[2] \in Nat /\ m[2] > 0
      /\ details'[b].pastMarkers = {m} /\ details'[b].isPastMarker
      /\ \A n \in past : n[2] < m[2]
      /\ m[1] \in DOMAIN sequences => <<m[1], sequences[m[1]].highestIndex>> \in past
    BY DEF Marked, NextMarker
<1>3. ASSUME NEW n \in Made, n[1] = m[1]
      PROVE  n[2] < m[2] /\ n[2] <= sequences[m[1]].highestIndex /\ m[1] \in DOMAIN sequences
    <2>1. n[2] \in Nat /\ n[1] \in DOMAIN sequences /\ n[2] <= sequences[n[1]].highestIndex
          /\ sequences[n[1]].highestIndex \in Nat
        BY MadeTyped, MadeBounded DEF MarkersMade
    <2>2. <<m[1], sequences[m[1]].highestIndex>> \in past
        BY <1>2, <1>3, <2>1
    <2>3. sequences[m[1]].highestIndex < m[2]
        BY <1>2, <2>2
    <2> QED BY <1>2, <1>3, <2>1, <2>3
<1>4. m \notin Made
    BY <1>2, <1>3
<1>5. \A n : \A x \in Block : x # b => (x \in Owner(n)' <=> x \in Owner(n))
    BY <1>1 DEF Owner
<1>6. \A n : b \in Owner(n)' <=> n = m
    BY <1>2 DEF Owner
<1>7. \A n : b \notin Owner(n)
    BY DEF Owner, Placed, PlacedWith
<1>8. Owner(m) = {}
    BY <1>2, <1>4 DEF Made
<1>9. Owner(m)' = {b}
    <2>1. \A x \in Block : x \in Owner(m)' <=> x = b
        BY <1>5, <1>6, <1>8
    <2> QED BY <2>1 DEF Owner
<1>10. Made' = Made \cup {m}
    <2>1. \A n \in Made : n \in Made'
        BY OwnersFixed
    <2>2. m \in Made'
        BY <1>2, <1>9 DEF Made
    <2>3. ASSUME NEW n \in Made', n # m PROVE n \in Made
        <3>1. n \in Marker /\ (n = <<0, 0>> \/ Owner(n)' # {})
            BY <2>3 DEF Made
        <3>2. ASSUME NEW x \in Owner(n)' PROVE x \in Owner(n)
            <4>1. x \in Block
                BY DEF Owner
            <4> QED BY <1>5, <1>6, <2>3, <3>2, <4>1
        <3> QED BY <3>1, <3>2 DEF Made
    <2> QED BY <2>1, <2>2, <2>3
<1>11. ASSUME NEW s, NEW i, NEW x \in Owner(<<s, i>>)'
       PROVE  x \in Owner(<<s, i>>) \/ (<<s, i>> = m /\ x = b)
    <2>1. x \in Block
        BY DEF Owner
    <2> QED BY <1>5, <1>6, <1>11, <2>1
<1>12. ASSUME NEW i \in 0 .. m[2], NEW x \in Owner(<<m[1], i>>)' PROVE x \in PastCone[b]
    <2>1. CASE x = b
        BY <2>1, PastConeClosed
    <2>2. CASE x # b
        <3>1. x \in Owner(<<m[1], i>>)
            BY <1>11, <2>2
        <3>2. <<m[1], i>> \in Made
            BY <3>1, OwnerOfMarker
        <3> DEFINE h == sequences[m[1]].highestIndex
        <3>3. m[1] \in DOMAIN sequences /\ i <= h /\ i \in Nat
            BY <1>2, <1>3, <3>2
        <3>4. Above(b, <<m[1], h>>) /\ h \in Nat
            BY <1>2, <3>3, MadeBounded DEF PlacedWith, Inheritable
        <3> HIDE DEF h
        <3> QED BY <3>1, <3>3, <3>4, AboveOwner
    <2> QED BY <2>1, <2>2
<1>13. Above(b, m)'
    BY <1>12 DEF Above
<1> QED
    BY <1>4, <1>9, <1>10, <1>11, <1>13

-----------------------------------------------------------------------------
(* The invariant of the markers. *)

(* What is placed stands on booked blocks. *)
LEMMA PlacedOnBooked ==
    ASSUME BookingsFollow, NEW b \in Placed
    PROVE  /\ \A x \in PastCone[b] : x = b \/ x \in booked
           /\ PastCone[b] \subseteq Placed
<1> DEFINE C == {y \in Placed : \E x \in PastCone[y] : x # y /\ x \notin booked}
<1>1. /\ booked \subseteq Placed /\ Placed \subseteq Block
      /\ \A y \in Placed : StrongParents[y] \subseteq booked
    BY DEF BookingsFollow, Placed
<1>2. ASSUME C # {} PROVE FALSE
    <2>1. PICK y \in C : StrongParents[y] \cap C = {}
        <3>1. C \in SUBSET Block
            BY <1>1
        <3> HIDE DEF C
        <3> QED BY <1>2, <3>1, MarkersAssumption
    <2>2. PICK x \in PastCone[y] : x # y /\ x \notin booked
        BY <2>1
    <2>3. y \in Placed /\ y \in Block
        BY <1>1, <2>1
    <2>4. PICK p \in StrongParents[y] : x \in PastCone[p]
        BY <2>2, <2>3, PastConeUnfolds
    <2>5. p \in booked /\ p \in Placed /\ p \notin C
        BY <1>1, <2>1, <2>3, <2>4
    <2> QED BY <2>2, <2>4, <2>5
<1>3. b \notin C
    BY <1>2
<1>4. \A x \in PastCone[b] : x = b \/ x \in booked
    BY <1>3
<1> QED
    BY <1>1, <1>4

(* What a walk finds is within every closed set that its first markers are within. *)
LEMMA WithinWalks ==
    MarkersMade /\ ReferencesBelow =>
        \A W \in SUBSET Made, ms \in SUBSET Made :
            (\A w \in W : ReferencedMarkers(w) \subseteq W) /\ (\A m \in ms : Within(m, W)) =>
                \A n \in Made : Within(n, ms \cup Referenced(ms)) => Within(n, W)
<1> SUFFICES ASSUME MarkersMade, ReferencesBelow, NEW W \in SUBSET Made, NEW ms \in SUBSET Made,
                    \A w \in W : ReferencedMarkers(w) \subseteq W, \A m \in ms : Within(m, W),
                    NEW n \in Made, Within(n, ms \cup Referenced(ms))
             PROVE  Within(n, W)
    OBVIOUS
<1>1. \A k \in ms \cup Referenced(ms) : k \in Made /\ Within(k, W)
    BY WalkWithin
<1>2. ms \cup Referenced(ms) \in SUBSET Made
    BY <1>1
<1> QED
    BY <1>1, <1>2, WithinTransitive

(* So it is in the next state. *)
LEMMA WithinWalksNext ==
    (MarkersMade /\ ReferencesBelow)' =>
        (\A W \in SUBSET Made, ms \in SUBSET Made :
            (\A w \in W : ReferencedMarkers(w) \subseteq W) /\ (\A m \in ms : Within(m, W)) =>
                \A n \in Made : Within(n, ms \cup Referenced(ms)) => Within(n, W))'
    BY WithinWalks, PTL

(* Walks go on where they went. *)
LEMMA ReferencedStays ==
    ASSUME ClosedWalks, ClosedWalks', Made \subseteq Made', \A m \in Made : ReferencedMarkers(m)' = ReferencedMarkers(m),
           WalkFacts, NEW ms \in SUBSET Made
    PROVE  Referenced(ms) \subseteq Referenced(ms)'
<1> DEFINE S == Referenced(ms)' \cap Made
<1>1. \A m \in ms \cup S : ReferencedMarkers(m)' \subseteq Referenced(ms)'
    BY DEF ClosedWalks
<1>2. \A m \in ms \cup S : m \in Made /\ ReferencedMarkers(m) \subseteq Made
    BY DEF WalkFacts
<1>3. \A m \in ms \cup S : ReferencedMarkers(m) \subseteq S
    <2> HIDE DEF S
    <2>1. \A m \in ms \cup S : ReferencedMarkers(m) \subseteq Referenced(ms)'
        BY <1>1, <1>2
    <2> QED BY <1>2, <2>1 DEF S
<1>4. Referenced(ms) \subseteq S
    <2> HIDE DEF S
    <2> QED BY <1>3 DEF ClosedWalks
<1> QED
    BY <1>4

(* The markers that are made stay in order, *)
LEMMA InheritsMade ==
    ASSUME MarkersMade, NEW b \in Block, Inherits(b)
    PROVE  MarkersMade'
<1>1. PICK past : PlacedWith(b, past) /\ (Unmarked(b, past) \/ \E m : Marked(b, past, m))
    BY DEF Inherits
<1>2. /\ Placed' = Placed \cup {b} /\ Cardinality(Placed)' = Cardinality(Placed) + 1
      /\ \A n \in Made : n \in Made' /\ Owner(n)' = Owner(n) /\ \A x : Above(x, n)' <=> Above(x, n)
    BY <1>1, OwnersFixed
<1>3. Cardinality(Placed) \in Nat
    BY PlacedCounted
<1>4. /\ details' \in [Block -> StructureDetails]
      /\ \A x \in Block : x # b => details'[x] = details[x]
      /\ past \in SUBSET Made /\ \A n \in past : Above(b, n)
    BY <1>1 DEF PlacedWith, Inheritable
<1>5. PICK k \in 0 .. Cardinality(Placed) : DOMAIN sequences = 0 .. k
    BY DEF MarkersMade
<1>6. \A s \in DOMAIN sequences : sequences[s] \in Sequence /\ sequences[s].highestIndex <= Cardinality(Placed)
                                  /\ sequences[s].highestIndex \in Nat
    BY MadeBounded DEF MarkersMade
<1>7. \A n \in Made : n[1] \in DOMAIN sequences /\ n[2] \in Nat /\ n[2] <= sequences[n[1]].highestIndex
    BY MadeTyped DEF MarkersMade
(* The blocks that were there, and the new one. *)
<1>8. ASSUME NEW x \in Block, x # b
      PROVE  /\ \A n \in details'[x].pastMarkers : n \in Made' /\ Above(x, n)'
             /\ details'[x].isPastMarker =>
                    \E n \in Marker : details'[x].pastMarkers = {n} /\ n[2] > 0 /\ Owner(n)' = {x}
    <2>1. details'[x] = details[x]
        BY <1>4, <1>8
    <2>2. \A n \in details[x].pastMarkers : n \in Made /\ Above(x, n)
        BY DEF MarkersMade
    <2>3. details[x].isPastMarker =>
                \E n \in Marker : details[x].pastMarkers = {n} /\ n[2] > 0 /\ Owner(n) = {x}
        BY DEF MarkersMade
    <2> QED BY <1>2, <2>1, <2>2, <2>3
<1>9. CASE Unmarked(b, past)
    <2>1. sequences' = sequences /\ details'[b].pastMarkers = past /\ ~details'[b].isPastMarker
        BY <1>9 DEF Unmarked
    <2>2. \A n \in Made' : n \in Made
        <3>1. ASSUME NEW n, NEW x \in Owner(n)' PROVE x \in Owner(n)
            BY <1>4, <2>1 DEF Owner
        <3> QED BY <3>1 DEF Made
    <2>3. k \in 0 .. (Cardinality(Placed) + 1)
        BY <1>3
    <2>4. \A s \in DOMAIN sequences : sequences[s].highestIndex <= Cardinality(Placed) + 1
        BY <1>3, <1>6
    <2>5. \A n \in details'[b].pastMarkers : n \in Made' /\ Above(b, n)'
        BY <1>2, <1>4, <2>1
    <2>6. \A x \in Block : /\ \A n \in details'[x].pastMarkers : n \in Made' /\ Above(x, n)'
                           /\ details'[x].isPastMarker =>
                                \E n \in Marker : details'[x].pastMarkers = {n} /\ n[2] > 0 /\ Owner(n)' = {x}
        BY <1>8, <2>1, <2>5
    <2>7. (\E l \in 0 .. Cardinality(Placed) : DOMAIN sequences = 0 .. l)'
        BY <1>2, <1>5, <2>1, <2>3
    <2>8. (\A s \in DOMAIN sequences : sequences[s] \in Sequence /\ sequences[s].highestIndex <= Cardinality(Placed))'
        BY <1>2, <1>6, <2>1, <2>4
    <2>9. (\A m \in Made : m[1] \in DOMAIN sequences /\ m[2] <= sequences[m[1]].highestIndex)'
        BY <1>7, <2>1, <2>2
    <2> QED BY <1>4, <2>6, <2>7, <2>8, <2>9 DEF MarkersMade
<1>10. ASSUME NEW m, Marked(b, past, m) PROVE MarkersMade'
    <2>1. Made' = Made \cup {m} /\ Owner(m)' = {b} /\ Above(b, m)'
        BY <1>1, <1>10, NewMarkerAbove
    <2>2. /\ NextMarker(m, past) /\ Extended(m, past)
          /\ details'[b].pastMarkers = {m} /\ details'[b].isPastMarker
        BY <1>10 DEF Marked
    <2>3. \E l \in 0 .. Cardinality(Placed) + 1 : DOMAIN sequences' = 0 .. l
        <3>1. CASE m[1] \in DOMAIN sequences
            <4>1. DOMAIN sequences' = 0 .. k /\ k \in 0 .. Cardinality(Placed) + 1
                BY <1>3, <1>5, <2>2, <3>1 DEF Extended
            <4> QED BY <4>1
        <3>2. CASE m[1] \notin DOMAIN sequences
            <4>1. DOMAIN sequences' = 0 .. m[1] /\ m[1] <= Cardinality(Placed) + 1 /\ m \in Marker
                BY <2>2, <3>2 DEF Extended, NextMarker
            <4>2. m[1] \in Nat
                BY <4>1 DEF Marker, SequenceIDs
            <4>3. m[1] \in 0 .. Cardinality(Placed) + 1
                BY <1>3, <4>1, <4>2
            <4> QED BY <4>1, <4>3
        <3> QED BY <3>1, <3>2
    <2>4. ASSUME NEW s \in DOMAIN sequences'
          PROVE  sequences'[s] \in Sequence /\ sequences'[s].highestIndex <= Cardinality(Placed) + 1
        <3>1. sequences'[s] \in Sequence
            BY <2>2 DEF Extended
        <3>2. CASE s = m[1]
            BY <2>2, <3>1, <3>2 DEF Extended, NextMarker
        <3>3. CASE s # m[1]
            <4>1. s \in DOMAIN sequences /\ sequences'[s] = sequences[s]
                BY <2>2, <3>3 DEF Extended
            <4> QED BY <1>3, <1>6, <3>1, <4>1
        <3> QED BY <3>2, <3>3
    <2>5. ASSUME NEW n \in Made' PROVE n[1] \in DOMAIN sequences' /\ n[2] <= sequences'[n[1]].highestIndex
        <3>1. sequences'[m[1]].highestIndex = m[2] /\ DOMAIN sequences' = DOMAIN sequences \cup {m[1]} /\ m[2] \in Nat
            BY <2>2 DEF Extended, NextMarker
        <3>2. CASE n = m
            BY <3>1, <3>2
        <3>3. CASE n # m
            <4>1. n \in Made /\ n[1] \in DOMAIN sequences /\ n[2] \in Nat /\ n[2] <= sequences[n[1]].highestIndex
                BY <1>7, <2>1, <3>3
            <4>2. CASE n[1] # m[1]
                BY <2>2, <3>1, <4>1, <4>2 DEF Extended
            <4>3. CASE n[1] = m[1]
                <5>1. sequences[m[1]].highestIndex < m[2] /\ sequences[m[1]].highestIndex \in Nat
                    BY <1>6, <2>2, <4>1, <4>3 DEF NextMarker
                <5> QED BY <3>1, <4>1, <4>3, <5>1
            <4> QED BY <4>2, <4>3
        <3> QED BY <3>2, <3>3
    <2>6. \A n \in details'[b].pastMarkers : n \in Made' /\ Above(b, n)'
        BY <2>1, <2>2
    <2>7. m \in Marker /\ details'[b].pastMarkers = {m} /\ m[2] > 0 /\ Owner(m)' = {b}
        BY <2>1, <2>2 DEF NextMarker
    <2>8. \A x \in Block : /\ \A n \in details'[x].pastMarkers : n \in Made' /\ Above(x, n)'
                           /\ details'[x].isPastMarker =>
                                \E n \in Marker : details'[x].pastMarkers = {n} /\ n[2] > 0 /\ Owner(n)' = {x}
        BY <1>8, <2>6, <2>7
    <2>9. (\E l \in 0 .. Cardinality(Placed) : DOMAIN sequences = 0 .. l)'
        BY <1>2, <2>3
    <2>10. (\A s \in DOMAIN sequences : sequences[s] \in Sequence /\ sequences[s].highestIndex <= Cardinality(Placed))'
        BY <1>2, <2>4
    <2>11. (\A n \in Made : n[1] \in DOMAIN sequences /\ n[2] <= sequences[n[1]].highestIndex)'
        BY <2>5
    <2> QED BY <1>4, <2>8, <2>9, <2>10, <2>11 DEF MarkersMade
<1> QED
    BY <1>1, <1>9, <1>10

(* references stay below their markers, *)
LEMMA InheritsReferences ==
    ASSUME MarkersMade, ReferencesBelow, NEW b \in Block, Inherits(b)
    PROVE  ReferencesBelow'
<1>1. PICK past : PlacedWith(b, past) /\ (Unmarked(b, past) \/ \E m : Marked(b, past, m))
    BY DEF Inherits
<1>2. \A n \in Made : n \in Made' /\ Owner(n)' = Owner(n) /\ \A x : Above(x, n)' <=> Above(x, n)
    BY <1>1, OwnersFixed
(* What was referenced. *)
<1>3. ASSUME NEW s \in DOMAIN sequences, NEW e \in sequences[s].referenced
      PROVE  /\ e[2] \in Made' /\ \E x \in Owner(<<s, e[1]>>)' : Above(x, e[2])'
             /\ <<s, e[1]>> \in Made /\ e[1] \in Nat /\ e[2][2] \in Nat
             /\ \A f \in sequences[s].referenced : e[2][1] = f[2][1] /\ e[1] <= f[1] => e[2][2] <= f[2][2]
    <2>1. e[1] \in Nat /\ e[2] \in Made /\ <<s, e[1]>> \in Made
        BY ReferencesTyped
    <2>2. PICK x \in Owner(<<s, e[1]>>) : Above(x, e[2])
        BY DEF ReferencesBelow
    <2>3. Owner(<<s, e[1]>>)' = Owner(<<s, e[1]>>) /\ (Above(x, e[2])' <=> Above(x, e[2])) /\ e[2] \in Made'
        BY <1>2, <2>1
    <2>4. e[2][2] \in Nat
        BY <2>1, MadeTyped
    <2> QED BY <2>1, <2>2, <2>3, <2>4 DEF ReferencesBelow
<1>4. CASE Unmarked(b, past)
    BY <1>3, <1>4 DEF Unmarked, ReferencesBelow
<1>5. ASSUME NEW m, Marked(b, past, m) PROVE ReferencesBelow'
    <2>1. /\ NextMarker(m, past) /\ Extended(m, past) /\ m = <<m[1], m[2]>> /\ m[2] \in Nat
          /\ Owner(m)' = {b}
        BY <1>1, <1>5, NewMarkerAbove DEF Marked, NextMarker
    <2>2. /\ past \in SUBSET Made /\ \A n \in past : Above(b, n)
          /\ \A n, k \in past : n[1] = k[1] => n = k
          /\ \A n, k \in past : \A e \in sequences[k[1]].referenced :
                e[1] <= k[2] /\ e[2][1] = n[1] => e[2][2] <= n[2]
        BY <1>1 DEF PlacedWith, Inheritable
    <2>3. \A e \in NewReferences(m, past) : e[1] = m[2] /\ e[2] \in past
        BY DEF NewReferences
    <2>4. ASSUME NEW e \in NewReferences(m, past)
          PROVE  e[2] \in Made' /\ b \in Owner(<<m[1], e[1]>>)' /\ Above(b, e[2])'
        <3>1. e[2] \in Made /\ Above(b, e[2]) /\ <<m[1], e[1]>> = m
            BY <2>1, <2>2, <2>3
        <3> QED BY <1>2, <2>1, <3>1
    <2>5. ASSUME m[1] \in DOMAIN sequences, NEW e \in sequences[m[1]].referenced, NEW f \in NewReferences(m, past)
          PROVE  e[1] < f[1] /\ (e[2][1] = f[2][1] => e[2][2] <= f[2][2])
        <3> DEFINE h == sequences[m[1]].highestIndex
        <3>1. <<m[1], h>> \in past /\ h < m[2] /\ h \in Nat
            BY <2>1, <2>5, MadeBounded DEF NextMarker
        <3>2. e[1] \in Nat /\ e[1] <= h
            BY <1>3, <2>5 DEF MarkersMade
        <3>3. f[1] = m[2] /\ f[2] \in past
            BY <2>3
        <3> HIDE DEF h
        <3>4. e[2][1] = f[2][1] => e[2][2] <= f[2][2]
            <4> DEFINE k == <<m[1], h>>
            <4>1. k \in past /\ k[1] = m[1] /\ k[2] = h
                BY <3>1
            <4> HIDE DEF k
            <4> QED BY <2>2, <2>5, <3>2, <3>3, <4>1
        <3> QED BY <2>1, <3>1, <3>2, <3>3, <3>4
    <2>6. ASSUME NEW s \in DOMAIN sequences', NEW e \in sequences'[s].referenced
          PROVE  \/ s \in DOMAIN sequences /\ e \in sequences[s].referenced
                 \/ s = m[1] /\ e \in NewReferences(m, past)
        BY <2>1 DEF Extended
    <2>7. ASSUME NEW s \in DOMAIN sequences', NEW e \in sequences'[s].referenced
          PROVE  e[2] \in Made' /\ \E x \in Owner(<<s, e[1]>>)' : Above(x, e[2])'
        BY <1>3, <2>4, <2>6
    <2>8. ASSUME NEW s \in DOMAIN sequences', NEW e \in sequences'[s].referenced,
                 NEW f \in sequences'[s].referenced, e[2][1] = f[2][1], e[1] <= f[1]
          PROVE  e[2][2] <= f[2][2]
        <3>1. CASE s \in DOMAIN sequences /\ e \in sequences[s].referenced /\ f \in sequences[s].referenced
            BY <1>3, <2>8, <3>1
        <3>2. CASE s = m[1] /\ s \in DOMAIN sequences /\ e \in sequences[s].referenced /\ f \in NewReferences(m, past)
            BY <2>5, <2>8, <3>2
        <3>3. CASE s = m[1] /\ s \in DOMAIN sequences /\ f \in sequences[s].referenced /\ e \in NewReferences(m, past)
            <4>1. f[1] < e[1] /\ e[1] = m[2] /\ f[1] \in Nat
                BY <1>3, <2>3, <2>5, <3>3
            <4> QED BY <2>1, <2>8, <4>1
        <3>4. CASE e \in NewReferences(m, past) /\ f \in NewReferences(m, past)
            <4>1. e[2] = f[2] /\ e[2] \in Made
                BY <2>2, <2>3, <2>8, <3>4
            <4>2. e[2][2] \in Nat
                BY <4>1, MadeTyped
            <4> QED BY <4>1, <4>2
        <3> QED BY <2>6, <3>1, <3>2, <3>3, <3>4
    <2> QED BY <2>7, <2>8 DEF ReferencesBelow
<1> QED
    BY <1>1, <1>4, <1>5

(* A marker references after the step what it referenced before. *)
LEMMA InheritsKeepsReferenced ==
    ASSUME MarkersMade, ReferencesBelow, NEW b \in Block, Inherits(b), NEW n \in Made
    PROVE  ReferencedMarkers(n)' = ReferencedMarkers(n)
<1>1. PICK past : PlacedWith(b, past) /\ (Unmarked(b, past) \/ \E m : Marked(b, past, m))
    BY DEF Inherits
<1>2. n[1] \in DOMAIN sequences /\ n[2] \in Nat /\ n[2] <= sequences[n[1]].highestIndex
      /\ sequences[n[1]].highestIndex \in Nat
    BY MadeTyped, MadeBounded DEF MarkersMade
<1>3. CASE Unmarked(b, past)
    BY <1>3 DEF Unmarked, ReferencedMarkers
<1>4. ASSUME NEW m, Marked(b, past, m) PROVE ReferencedMarkers(n)' = ReferencedMarkers(n)
    <2>1. NextMarker(m, past) /\ Extended(m, past) /\ m[2] \in Nat
        BY <1>4 DEF Marked, NextMarker
    <2> DEFINE upTo == {e \in sequences[n[1]].referenced : e[1] <= n[2]}
    <2>2. upTo' = upTo
        <3>1. CASE n[1] # m[1]
            <4>1. sequences'[n[1]] = sequences[n[1]]
                BY <1>2, <2>1, <3>1 DEF Extended
            <4> QED BY <4>1
        <3>2. CASE n[1] = m[1]
            <4>1. sequences'[n[1]].referenced = sequences[n[1]].referenced \cup NewReferences(m, past)
                BY <1>2, <2>1, <3>2 DEF Extended
            <4>2. sequences[n[1]].highestIndex < m[2]
                BY <1>2, <2>1, <3>2 DEF NextMarker
            <4>3. \A e \in NewReferences(m, past) : ~(e[1] <= n[2])
                BY <1>2, <2>1, <4>2 DEF NewReferences
            <4> QED BY <4>1, <4>3
        <3> QED BY <3>1, <3>2
    <2>3. ReferencedMarkers(n) = {e[2] : e \in {x \in upTo : \A y \in upTo : y[2][1] = x[2][1] => y[1] <= x[1]}}
        BY DEF ReferencedMarkers
    <2>4. ReferencedMarkers(n)' = {e[2] : e \in {x \in upTo' : \A y \in upTo' : y[2][1] = x[2][1] => y[1] <= x[1]}}
        BY DEF ReferencedMarkers
    <2> HIDE DEF upTo
    <2> QED BY <2>2, <2>3, <2>4
<1> QED
    BY <1>1, <1>3, <1>4

(* and blocks cover the markers of their past cones. *)
LEMMA InheritsCovers ==
    ASSUME MarkersInv, NEW b \in Block, Inherits(b), MarkersMade', ReferencesBelow'
    PROVE  MarkersCovered'
<1> USE DEF MarkersInv
<1>1. PICK past : PlacedWith(b, past) /\ (Unmarked(b, past) \/ \E m : Marked(b, past, m))
    BY DEF Inherits
<1>2. /\ Placed' = Placed \cup {b} /\ Made \subseteq Made' /\ b \notin Placed
      /\ \A x \in Block : x # b => details'[x] = details[x]
      /\ past \in SUBSET Made
      /\ \A x \in PastCone[b] : x # b /\ details[x].isPastMarker =>
            \A m \in details[x].pastMarkers : Within(m, past \cup Referenced(past))
    BY <1>1, OwnersFixed DEF PlacedWith, Inheritable
<1>3. ClosedWalks /\ ClosedWalks' /\ WalkFacts
    BY WalksClosed, WalksClosedNext, WalkFactsHold
<1>4. \A ms \in SUBSET Made : Referenced(ms) \subseteq Referenced(ms)'
    BY <1>2, <1>3, InheritsKeepsReferenced, ReferencedStays
<1>5. SUFFICES ASSUME NEW y \in Placed', NEW x \in Block, details'[x].isPastMarker, x \in PastCone[y],
                      NEW m \in details'[x].pastMarkers
               PROVE  Covers(y, m)'
    BY DEF MarkersCovered
<1>6. m \in Made' /\ m[2] \in Nat
    BY <1>5, MadeTyped DEF MarkersMade, Made, Marker, MarkerIndex
<1>7. (Covers(y, m) <=> Within(m, details[y].pastMarkers \cup Referenced(details[y].pastMarkers)))'
    BY DEF Covers, Within
<1>8. CASE y # b
    <2>1. y \in Placed /\ y \in Block
        BY <1>2, <1>8 DEF Placed
    <2>2. x # b
        BY <1>2, <1>5, <2>1, PlacedOnBooked
    <2>3. details'[x] = details[x] /\ details'[y] = details[y]
        BY <1>2, <1>8, <2>1, <2>2
    <2>4. Within(m, details[y].pastMarkers \cup Referenced(details[y].pastMarkers))
        BY <1>5, <2>1, <2>3, CoversIsWithin DEF MarkersCovered
    <2>5. details[y].pastMarkers \in SUBSET Made
        BY <2>1 DEF MarkersMade
    <2>6. Referenced(details[y].pastMarkers) \subseteq Referenced(details[y].pastMarkers)'
        <3> DEFINE D == details[y].pastMarkers
        <3>1. D' = D
            BY <2>3
        <3> HIDE DEF D
        <3> QED BY <1>4, <2>5, <3>1 DEF D
    <2> QED BY <1>7, <2>3, <2>4, <2>6 DEF Within
<1>9. CASE y = b /\ x = b
    <2>1. m \in details'[y].pastMarkers /\ m[2] <= m[2]
        BY <1>5, <1>6, <1>9
    <2> QED BY <1>7, <2>1 DEF Within
<1>10. CASE y = b /\ x # b
    <2>1. Within(m, past \cup Referenced(past))
        BY <1>2, <1>5, <1>10
    <2>2. Within(m, past \cup Referenced(past)')
        BY <1>2, <1>4, <2>1 DEF Within
    <2>3. CASE Unmarked(b, past)
        <3>1. details'[b].pastMarkers = past
            BY <2>3 DEF Unmarked
        <3> QED BY <1>7, <1>10, <2>2, <3>1
    <2>4. ASSUME NEW k, Marked(b, past, k) PROVE Covers(y, m)'
        <3>1. /\ NextMarker(k, past) /\ Extended(k, past) /\ k[2] \in Nat
              /\ details'[b].pastMarkers = {k} /\ k \in Made'
            BY <1>1, <2>4, NewMarkerAbove DEF Marked, NextMarker
        <3> DEFINE W == {k} \cup Referenced({k})'
        <3>2. /\ W \in SUBSET Made' /\ {k} \in SUBSET Made'
              /\ \A w \in W : ReferencedMarkers(w)' \subseteq W
              /\ ReferencedMarkers(k)' \subseteq W
            <4>1. {k} \in SUBSET Made'
                BY <3>1
            <4>2. /\ Referenced({k})' \subseteq Made'
                  /\ \A w \in W : ReferencedMarkers(w)' \subseteq Referenced({k})'
                BY <1>3, <4>1 DEF ClosedWalks
            <4> QED BY <4>1, <4>2
        <3>3. ASSUME NEW n \in past PROVE Within(n, W)
            <4>1. n[2] < k[2] /\ n \in Made /\ n[2] \in Nat
                BY <1>2, <3>1, MadeTyped DEF NextMarker
            <4>2. CASE n[1] = k[1]
                BY <3>1, <4>1, <4>2 DEF Within
            <4>3. CASE n[1] # k[1]
                <5> DEFINE e == <<k[2], n>>
                           upTo == {f \in sequences'[k[1]].referenced : f[1] <= k[2]}
                <5>1. e \in NewReferences(k, past)
                    BY <4>3 DEF NewReferences
                <5>2. e \in sequences'[k[1]].referenced
                    BY <3>1, <5>1 DEF Extended
                <5>3. e \in {f \in upTo : \A g \in upTo : g[2][1] = f[2][1] => g[1] <= f[1]}
                    BY <3>1, <5>2
                <5>4. ReferencedMarkers(k)' = {f[2] : f \in {g \in upTo : \A h \in upTo : h[2][1] = g[2][1] => h[1] <= g[1]}}
                    BY DEF ReferencedMarkers
                <5>5. n \in ReferencedMarkers(k)'
                    <6> HIDE DEF upTo
                    <6> QED BY <5>3, <5>4
                <5>6. n \in W
                    <6> HIDE DEF W
                    <6> QED BY <3>2, <5>5
                <5>7. n[2] <= n[2]
                    BY <4>1
                <5> HIDE DEF W
                <5> QED BY <5>6, <5>7 DEF Within
            <4> QED BY <4>2, <4>3
        <3>4. past \in SUBSET Made'
            BY <1>2
        <3>5. Within(m, W)
            <4> HIDE DEF W
            <4> QED BY <1>6, <2>2, <3>2, <3>3, <3>4, WithinWalksNext
        <3> QED BY <1>7, <1>10, <3>1, <3>5
    <2> QED BY <1>1, <2>3, <2>4
<1> QED
    BY <1>8, <1>9, <1>10

(* The other steps of bookings and forks leave the markers alone, *)
LEMMA MarkersKept ==
    ASSUME UNCHANGED markerVars
    PROVE  /\ Placed' = Placed /\ Made' = Made /\ (\A m : Owner(m)' = Owner(m))
           /\ \A b, m : Above(b, m)' <=> Above(b, m)
           /\ MarkersMade => MarkersMade'
           /\ ReferencesBelow => ReferencesBelow'
           /\ MarkersMade /\ ReferencesBelow /\ MarkersCovered => MarkersCovered'
<1>1. details' = details /\ sequences' = sequences
    BY DEF markerVars
<1>2. Placed' = Placed /\ (\A m : Owner(m)' = Owner(m))
    BY <1>1 DEF Placed, Owner
<1>3. Made' = Made /\ \A b, m : Above(b, m)' <=> Above(b, m)
    BY <1>2 DEF Made, Above
<1>4. MarkersMade => MarkersMade'
    BY <1>1, <1>2, <1>3 DEF MarkersMade
<1>5. ReferencesBelow => ReferencesBelow'
    BY <1>1, <1>2, <1>3 DEF ReferencesBelow
<1>6. ASSUME MarkersMade, ReferencesBelow, MarkersCovered PROVE MarkersCovered'
    <2>1. ClosedWalks /\ ClosedWalks' /\ WalkFacts
        BY <1>4, <1>5, <1>6, WalksClosed, WalksClosedNext, WalkFactsHold
    <2>2. \A m \in Made : ReferencedMarkers(m)' = ReferencedMarkers(m)
        BY <1>1 DEF ReferencedMarkers
    <2>3. \A ms \in SUBSET Made : Referenced(ms) \subseteq Referenced(ms)'
        BY <1>3, <2>1, <2>2, ReferencedStays
    <2>4. ASSUME NEW b \in Block, NEW m, Covers(b, m) PROVE Covers(b, m)'
        <3> DEFINE D == details[b].pastMarkers
        <3>1. D' = D /\ D \in SUBSET Made
            BY <1>1, <1>6 DEF MarkersMade
        <3>2. Referenced(D) \subseteq Referenced(D)'
            <4> HIDE DEF D
            <4> QED BY <2>3, <3>1
        <3> QED BY <2>4, <3>1, <3>2 DEF Covers
    <2> QED BY <1>1, <1>2, <1>6, <2>4 DEF MarkersCovered, Placed
<1> QED
    BY <1>2, <1>3, <1>4, <1>5, <1>6

(* or only change who references what. *)
LEMMA RegisteredKeeps ==
    ASSUME MarkersMade, ReferencesBelow, MarkersCovered,
           NEW n \in Made, NEW m \in Made, sequences' = Registered(n, m), details' = details
    PROVE  /\ Placed' = Placed /\ Made' = Made /\ (\A k : Owner(k)' = Owner(k))
           /\ \A b, k : Above(b, k)' <=> Above(b, k)
           /\ DOMAIN sequences' = DOMAIN sequences
           /\ \A s \in DOMAIN sequences : \A e \in sequences'[s].referencing :
                    e \in sequences[s].referencing \/ (s = n[1] /\ e = <<n[2], m>>)
           /\ MarkersMade' /\ ReferencesBelow' /\ MarkersCovered'
<1> DEFINE old == sequences[n[1]]
           R == {e \in old.referencing : ~(e[1] = n[2] /\ e[2][1] = m[1])} \cup {<<n[2], m>>}
           r == [old EXCEPT !.referencing = R]
<1>1. /\ n[1] \in DOMAIN sequences /\ n[2] \in Nat /\ m \in Marker
      /\ \A s \in DOMAIN sequences : sequences[s] \in Sequence
    BY MadeTyped DEF MarkersMade
<1>2. old \in Sequence
    BY <1>1
<1>3. R \in SUBSET (Nat \X Marker)
    <2> HIDE DEF old
    <2>1. old.referencing \in SUBSET (Nat \X Marker)
        BY <1>2 DEF Sequence
    <2> QED BY <1>1, <2>1
<1>4. sequences' = [sequences EXCEPT ![n[1]] = r]
    BY DEF Registered
<1>5. r \in Sequence /\ r.highestIndex = old.highestIndex /\ r.referenced = old.referenced /\ r.referencing = R
    <2> HIDE DEF old, R
    <2> QED BY <1>2, <1>3 DEF Sequence
<1>6. \A e \in R : e \in old.referencing \/ e = <<n[2], m>>
    OBVIOUS
<1> HIDE DEF r, R
<1>7. /\ DOMAIN sequences' = DOMAIN sequences
      /\ \A s \in DOMAIN sequences : s # n[1] => sequences'[s] = sequences[s]
      /\ sequences'[n[1]] = r
    BY <1>1, <1>4
<1>8. \A s \in DOMAIN sequences : /\ sequences'[s] \in Sequence
                                  /\ sequences'[s].highestIndex = sequences[s].highestIndex
                                  /\ sequences'[s].referenced = sequences[s].referenced
    BY <1>1, <1>5, <1>7
<1>9. \A s \in DOMAIN sequences : \A e \in sequences'[s].referencing :
            e \in sequences[s].referencing \/ (s = n[1] /\ e = <<n[2], m>>)
    BY <1>5, <1>6, <1>7
<1>10. Placed' = Placed /\ (\A k : Owner(k)' = Owner(k))
    BY DEF Placed, Owner
<1>11. Made' = Made /\ \A b, k : Above(b, k)' <=> Above(b, k)
    BY <1>10 DEF Made, Above
<1>12. MarkersMade'
    BY <1>7, <1>8, <1>10, <1>11 DEF MarkersMade
<1>13. ReferencesBelow'
    BY <1>7, <1>8, <1>10, <1>11 DEF ReferencesBelow
<1>14. \A k \in Made : ReferencedMarkers(k)' = ReferencedMarkers(k)
    BY <1>8 DEF ReferencedMarkers, MarkersMade
<1>15. ASSUME NEW b \in Block, NEW k, Covers(b, k) PROVE Covers(b, k)'
    <2>1. ClosedWalks /\ ClosedWalks' /\ WalkFacts
        BY <1>12, <1>13, WalksClosed, WalksClosedNext, WalkFactsHold
    <2>2. details[b].pastMarkers \in SUBSET Made
        BY DEF MarkersMade
    <2>3. Referenced(details[b].pastMarkers) \subseteq Referenced(details[b].pastMarkers)'
        <3> DEFINE D == details[b].pastMarkers
        <3>1. \A ms \in SUBSET Made : Referenced(ms) \subseteq Referenced(ms)'
            BY <1>11, <1>14, <2>1, ReferencedStays
        <3>2. D' = D
            OBVIOUS
        <3> HIDE DEF D
        <3> QED BY <2>2, <3>1, <3>2 DEF D
    <2> QED BY <1>15, <2>3 DEF Covers
<1>16. MarkersCovered'
    BY <1>10, <1>15 DEF MarkersCovered, Placed
<1> QED
    BY <1>7, <1>9, <1>10, <1>11, <1>12, <1>13, <1>16

-----------------------------------------------------------------------------
(* The conflicts that blocks approve. *)

(* What a block approves, the blocks above it approve. *)
LEMMA ApprovedBelow ==
    ASSUME NEW b \in Block, NEW x \in PastCone[b]
    PROVE  Approved(x) \subseteq Approved(b)
    BY PastConeClosed DEF Approved

(* A fork that has started does not go back. *)
ForksGoOn == \A c \in Conflict : fork[c].pc # "idle" => fork'[c].pc # "idle"

(* Nothing that is approved is taken back. *)
LEMMA ApprovedGrows ==
    ASSUME ForksGoOn
    PROVE  /\ \A b : Approved(b) \subseteq Approved(b)'
           /\ \A b : PayloadConflictIDs(b) \subseteq PayloadConflictIDs(b)'
    BY DEF Approved, PayloadConflictIDs, ForksGoOn

(* Markers and approved conflicts stay. *)
Grows ==
    /\ DOMAIN sequences \subseteq DOMAIN sequences' /\ DOMAIN mapping \subseteq DOMAIN mapping'
    /\ \A m \in Made : m \in Made' /\ Owner(m)' = Owner(m) /\ \A b : Above(b, m)' <=> Above(b, m)
    /\ ForksGoOn

(* What is justified stays so. *)
LEMMA JustifiedGrows ==
    ASSUME Grows, NEW m \in Made, NEW cs, Justified(m, cs)
    PROVE  Justified(m, cs)'
    BY ApprovedGrows DEF Justified, Grows

(* What a marker maps to is approved by every block that is above it. *)
LEMMA JustifiedAbove ==
    ASSUME NEW b \in Block, NEW m \in Made, Above(b, m), NEW cs, Justified(m, cs)
    PROVE  cs \subseteq Approved(b)
<1>1. CASE cs = {}
    BY <1>1
<1>2. ASSUME NEW x \in Owner(m), cs \subseteq Approved(x) PROVE cs \subseteq Approved(b)
    <2>1. m = <<m[1], m[2]>> /\ m[2] \in Nat
        BY MadeTyped
    <2>2. x \in PastCone[b]
        BY <1>2, <2>1, AboveOwner
    <2> QED BY <1>2, <2>2, ApprovedBelow
<1> QED
    BY <1>1, <1>2 DEF Justified

(* The mapping that counts for a marker is the one of the highest index up to it. *)
LEMMA MappingFloor ==
    ASSUME MappingJustified, NEW m, m[2] \in Nat, Mapped(m)
    PROVE  \E i \in DOMAIN mapping[m[1]] :
                /\ i \in Nat /\ i <= m[2] /\ ConflictIDs(m) = mapping[m[1]][i]
                /\ \A j \in DOMAIN mapping[m[1]] : j <= m[2] => j <= i
<1> DEFINE T == {i \in DOMAIN mapping[m[1]] : i <= m[2]}
<1>1. m[1] \in DOMAIN mapping /\ T # {}
    BY DEF Mapped
<1>2. \A i \in DOMAIN mapping[m[1]] : i \in Nat
    <2> SUFFICES ASSUME NEW i \in DOMAIN mapping[m[1]] PROVE i \in Nat
        OBVIOUS
    <2>1. <<m[1], i>> \in Made
        BY <1>1 DEF MappingJustified
    <2> QED BY <2>1, MadeTyped
<1>3. T \in SUBSET (0 .. m[2])
    BY <1>2
<1>4. Max(T) \in T /\ \A i \in T : i <= Max(T)
    <2> HIDE DEF T
    <2> QED BY <1>1, <1>3, MaxOfNumbers
<1>5. ConflictIDs(m) = mapping[m[1]][Max(T)]
    BY DEF ConflictIDs
<1>6. \A j \in DOMAIN mapping[m[1]] : j <= m[2] => j \in T
    OBVIOUS
<1>7. Max(T) \in DOMAIN mapping[m[1]] /\ Max(T) \in Nat /\ Max(T) <= m[2]
    BY <1>2, <1>4
<1> HIDE DEF T
<1> QED
    BY <1>4, <1>5, <1>6, <1>7

(* A block approves the conflicts of the markers that it is above, *)
LEMMA ConflictIDsApproved ==
    ASSUME MappingJustified, NEW b \in Block, NEW m \in Made, Above(b, m), Mapped(m)
    PROVE  ConflictIDs(m) \subseteq Approved(b)
<1>1. m[2] \in Nat
    BY MadeTyped
<1>2. PICK i \in DOMAIN mapping[m[1]] : i \in Nat /\ i <= m[2] /\ ConflictIDs(m) = mapping[m[1]][i]
    BY <1>1, MappingFloor
<1>3. m[1] \in DOMAIN mapping
    BY DEF Mapped
<1>4. <<m[1], i>> \in Made /\ Justified(<<m[1], i>>, mapping[m[1]][i])
    BY <1>2, <1>3 DEF MappingJustified
<1>5. Above(b, <<m[1], i>>)
    BY <1>1, <1>2, AboveEarlier
<1> QED
    BY <1>2, <1>4, <1>5, JustifiedAbove

(* and so its own. *)
LEMMA BlockConflictsApproved ==
    ASSUME MarkersMade, MappingJustified, BlocksApproved, NEW b \in Block, Known(details[b])
    PROVE  BlockConflictIDs(b) \subseteq Approved(b)
<1>1. \A m \in details[b].pastMarkers : ConflictIDs(m) \subseteq Approved(b)
    <2> SUFFICES ASSUME NEW m \in details[b].pastMarkers PROVE ConflictIDs(m) \subseteq Approved(b)
        OBVIOUS
    <2>1. m \in Made /\ Above(b, m) /\ Mapped(m)
        BY DEF MarkersMade, Known
    <2> QED BY <2>1, ConflictIDsApproved
<1>2. added[b] \subseteq Approved(b)
    BY DEF BlocksApproved
<1>3. PastMarkersConflictIDs(details[b]) \subseteq Approved(b)
    BY <1>1 DEF PastMarkersConflictIDs
<1> QED
    BY <1>2, <1>3 DEF BlockConflictIDs

-----------------------------------------------------------------------------
(* Bookings. *)

(* A BookBlock call that still registers some of the given markers. *)
BookingRecord(register) ==
    [pc : {"idle", "inherit", "register", "conflicts"}, inherited : SUBSET Conflict, register : SUBSET register]

(* Only the booking of b goes on. *)
LEMMA BookingGoesOn ==
    ASSUME BookingsFollow, Made \subseteq Made', NEW b \in Block, NEW th \in BookingRecord(Made'),
           booking' = [booking EXCEPT ![b] = th]
    PROVE  /\ booking' \in [Block -> BookingRecord(Made')] /\ booking'[b] = th
           /\ \A x \in Block : x # b => booking'[x] = booking[x]
<1>1. booking \in [Block -> BookingRecord(Made)]
    BY DEF BookingsFollow, BookingRecord
<1>2. BookingRecord(Made) \subseteq BookingRecord(Made')
    BY DEF BookingRecord
<1>3. booking \in [Block -> BookingRecord(Made')]
    BY <1>1, <1>2
<1> QED
    BY <1>3

(* The first step of a booking leaves the markers alone. *)
LEMMA DetermineFollows ==
    ASSUME MarkersInv, ApprovedInv, NEW b \in Block, DetermineBookingDetails(b)
    PROVE  /\ BookingsFollow' /\ Grows
           /\ booking'[b].inherited \subseteq Approved(b) /\ booking'[b].pc = "inherit" /\ booking'[b].register = {}
           /\ \A x \in Block : x # b => booking'[x] = booking[x]
<1> USE DEF MarkersInv, ApprovedInv
<1> DEFINE inherited == IF panicked' THEN {} ELSE
                PayloadConflictIDs(b) \cup UNION {BlockConflictIDs(p) : p \in StrongParents[b]}
           th == [NotBooking EXCEPT !.pc = "inherit", !.inherited = inherited]
<1>1. /\ UNCHANGED <<markerVars, mapping, added, subtracted, booked, fork>>
      /\ booking[b].pc = "idle" /\ b \notin booked /\ StrongParents[b] \subseteq booked
      /\ panicked' = ~\A p \in StrongParents[b] : Known(details[p])
    BY DEF DetermineBookingDetails
<1>2. booking' = [booking EXCEPT ![b] = th]
    BY DEF DetermineBookingDetails
<1>3. /\ Placed' = Placed /\ Made' = Made /\ (\A m : Owner(m)' = Owner(m))
      /\ \A x, m : Above(x, m)' <=> Above(x, m)
    BY <1>1, MarkersKept
<1>4. Grows
    BY <1>1, <1>3 DEF Grows, ForksGoOn, markerVars
<1>5. inherited \subseteq Approved(b)
    <2>1. CASE panicked'
        BY <2>1
    <2>2. CASE ~panicked'
        <3>1. PayloadConflictIDs(b) \subseteq Approved(b)
            BY PastConeClosed DEF PayloadConflictIDs, Approved
        <3>2. ASSUME NEW p \in StrongParents[b] PROVE BlockConflictIDs(p) \subseteq Approved(b)
            <4>1. p \in Block /\ Known(details[p]) /\ p \in PastCone[b]
                BY <1>1, <2>2, MarkersAssumption, PastConeClosed
            <4> QED BY <4>1, BlockConflictsApproved, ApprovedBelow
        <3> QED BY <3>1, <3>2
    <2> QED BY <2>1, <2>2
<1> HIDE DEF inherited
<1>6. th \in BookingRecord(Made') /\ th.pc = "inherit" /\ th.inherited = inherited /\ th.register = {}
    <2>1. inherited \in SUBSET Conflict
        BY <1>5 DEF Approved
    <2> QED BY <2>1 DEF BookingRecord, NotBooking
<1> HIDE DEF th
<1>7. /\ booking' \in [Block -> BookingRecord(Made')]
      /\ booking'[b].pc = "inherit" /\ booking'[b].inherited = inherited /\ booking'[b].register = {}
      /\ \A x \in Block : x # b => booking'[x] = booking[x]
    BY <1>2, <1>3, <1>6, BookingGoesOn
<1>8. details' = details /\ booked' = booked
    BY <1>1 DEF markerVars
<1>9. ASSUME NEW x \in Block
      PROVE  /\ x \in Placed => StrongParents[x] \subseteq booked
             /\ booking'[x].pc # "idle" => x \notin booked /\ StrongParents[x] \subseteq booked
             /\ x \in Placed <=> x \in booked \/ booking'[x].pc \in {"register", "conflicts"}
             /\ x \notin Placed => details[x] = NoMarkers
             /\ booking'[x].pc # "register" => booking'[x].register = {}
    <2>1. CASE x = b
        BY <1>1, <1>7, <2>1 DEF BookingsFollow
    <2>2. CASE x # b
        BY <1>7, <2>2 DEF BookingsFollow
    <2> QED BY <2>1, <2>2
<1>10. BookingsFollow'
    BY <1>3, <1>7, <1>8, <1>9 DEF BookingsFollow, BookingRecord
<1> QED
    BY <1>4, <1>5, <1>7, <1>10

(* The second one places the block. *)
LEMMA InheritFollows ==
    ASSUME MarkersInv, NEW b \in Block, InheritStructureDetails(b)
    PROVE  /\ BookingsFollow' /\ Grows
           /\ booking'[b].inherited = booking[b].inherited /\ booking'[b].pc = "register"
           /\ \A n \in booking'[b].register : details'[b].isPastMarker /\ Above(b, n)'
           /\ \A x \in Block : x # b => booking'[x] = booking[x]
           /\ b \notin booked /\ StrongParents[b] \subseteq booked /\ Placed' = Placed \cup {b} /\ b \notin Placed
<1> USE DEF MarkersInv
<1> DEFINE merged == MergedDetails(b)
           new == AssignedMarker(merged)
           register == {n \in merged.pastMarkers : new # {} /\ \A m \in new : m[1] # n[1]}
           th == [booking[b] EXCEPT !.pc = "register", !.register = register]
<1>1. /\ UNCHANGED <<mapping, added, subtracted, booked, fork, panicked>>
      /\ booking[b].pc = "inherit"
      /\ details' = [details EXCEPT ![b] =
                IF new = {} THEN merged
                ELSE [pastMarkers |-> new, pastMarkerGap |-> 0, isPastMarker |-> TRUE]]
      /\ booking' = [booking EXCEPT ![b].pc = "register", ![b].register = register]
    BY DEF InheritStructureDetails
<1>2. booking[b] \in BookingRecord(Made)
    BY DEF BookingsFollow, BookingRecord
<1>3. booking' = [booking EXCEPT ![b] = th]
    <2> HIDE DEF register
    <2> QED BY <1>1 DEF BookingsFollow
<1>4. Inheritable(b, merged.pastMarkers)
    BY <1>1, MergedInheritable
<1>5. PICK past : PlacedWith(b, past) /\ (Unmarked(b, past) \/ \E m : Marked(b, past, m))
    BY InheritsMarkers DEF Inherits
<1>6. /\ Placed' = Placed \cup {b} /\ b \notin Placed
      /\ \A n \in Made : n \in Made' /\ Owner(n)' = Owner(n) /\ \A x : Above(x, n)' <=> Above(x, n)
    BY <1>5, OwnersFixed DEF PlacedWith
<1>7. DOMAIN sequences \subseteq DOMAIN sequences'
    BY <1>5 DEF Unmarked, Marked, Extended
<1>8. Grows
    BY <1>1, <1>6, <1>7 DEF Grows, ForksGoOn
<1>9. register \subseteq Made /\ \A n \in register : Above(b, n)
    BY <1>4 DEF Inheritable
<1>10. register # {} => details'[b].isPastMarker
    <2>1. ASSUME register # {} PROVE new # {}
        BY <2>1
    <2>2. details \in [Block -> StructureDetails]
        BY DEF MarkersMade
    <2> HIDE DEF new, merged, register
    <2> QED BY <1>1, <2>1, <2>2
<1> HIDE DEF register
<1>11. th \in BookingRecord(Made') /\ th.pc = "register" /\ th.inherited = booking[b].inherited /\ th.register = register
    <2> DEFINE r == booking[b]
    <2>1. r \in BookingRecord(Made)
        BY <1>2
    <2> HIDE DEF r
    <2>2. LET t == [r EXCEPT !.pc = "register", !.register = register] IN
          t \in BookingRecord(Made') /\ t.pc = "register" /\ t.inherited = r.inherited /\ t.register = register
        BY <2>1, <1>6, <1>9 DEF BookingRecord
    <2> QED BY <2>2 DEF r
<1> HIDE DEF th
<1>12. /\ booking' \in [Block -> BookingRecord(Made')]
       /\ booking'[b].pc = "register" /\ booking'[b].inherited = booking[b].inherited /\ booking'[b].register = register
       /\ \A x \in Block : x # b => booking'[x] = booking[x]
    BY <1>3, <1>6, <1>11, BookingGoesOn
<1>13. \A x \in Block : x # b => details'[x] = details[x]
    BY <1>5 DEF PlacedWith
<1>15. b \notin booked /\ StrongParents[b] \subseteq booked
    BY <1>1 DEF BookingsFollow
<1>14. ASSUME NEW x \in Block
      PROVE  /\ x \in Placed' => StrongParents[x] \subseteq booked
             /\ booking'[x].pc # "idle" => x \notin booked /\ StrongParents[x] \subseteq booked
             /\ x \in Placed' <=> x \in booked \/ booking'[x].pc \in {"register", "conflicts"}
             /\ x \notin Placed' => details'[x] = NoMarkers
             /\ booking'[x].pc # "register" => booking'[x].register = {}
    <2>1. CASE x = b
        BY <1>6, <1>12, <1>15, <2>1
    <2>2. CASE x # b
        <3>1. x \in Placed' <=> x \in Placed
            BY <1>6, <2>2
        <3> QED BY <1>12, <1>13, <2>2, <3>1 DEF BookingsFollow
    <2> QED BY <2>1, <2>2
<1>16. booked \subseteq Placed' /\ booked' = booked
    BY <1>1, <1>6 DEF BookingsFollow
<1>17. BookingsFollow'
    BY <1>12, <1>14, <1>16 DEF BookingsFollow, BookingRecord
<1> QED
    BY <1>6, <1>8, <1>9, <1>10, <1>12, <1>15, <1>17

(* The registrations change referencing markers only. *)
LEMMA RegisterFollows ==
    ASSUME MarkersInv, ApprovedInv, NEW b \in Block, RegisterReferencingMarker(b)
    PROVE  /\ BookingsFollow' /\ MarkersMade' /\ ReferencesBelow' /\ MarkersCovered' /\ Grows
           /\ Placed' = Placed /\ details' = details
           /\ booking'[b].inherited = booking[b].inherited
           /\ booking[b].pc = "register" /\ booking'[b].pc \in {"register", "conflicts"}
           /\ booking'[b].register \subseteq booking[b].register
           /\ \A x \in Block : x # b => booking'[x] = booking[x]
           /\ \A s \in DOMAIN sequences' : \A e \in sequences'[s].referencing :
                \/ s \in DOMAIN sequences /\ e \in sequences[s].referencing
                \/ <<s, e[1]>> \in Made /\ b \in Owner(e[2]) /\ Above(b, <<s, e[1]>>)
<1> USE DEF MarkersInv, ApprovedInv
<1>1. /\ UNCHANGED <<details, mapping, added, subtracted, booked, fork, panicked>>
      /\ booking[b].pc = "register"
    BY DEF RegisterReferencingMarker
<1>2. booking[b] \in BookingRecord(Made) /\ booking \in [Block -> BookingRecord(Made)]
    BY DEF BookingsFollow, BookingRecord
<1>3. ASSUME Placed' = Placed, Made' = Made, NEW th \in BookingRecord(Made), booking' = [booking EXCEPT ![b] = th],
             th.pc \in {"register", "conflicts"}, th.pc # "register" => th.register = {}
      PROVE  /\ BookingsFollow' /\ booking'[b] = th
             /\ \A x \in Block : x # b => booking'[x] = booking[x]
    <2>1. /\ booking' \in [Block -> BookingRecord(Made')] /\ booking'[b] = th
          /\ \A x \in Block : x # b => booking'[x] = booking[x]
        BY <1>3, BookingGoesOn
    <2>2. ASSUME NEW x \in Block
          PROVE  /\ x \in Placed => StrongParents[x] \subseteq booked
                 /\ booking'[x].pc # "idle" => x \notin booked /\ StrongParents[x] \subseteq booked
                 /\ x \in Placed <=> x \in booked \/ booking'[x].pc \in {"register", "conflicts"}
                 /\ x \notin Placed => details[x] = NoMarkers
                 /\ booking'[x].pc # "register" => booking'[x].register = {}
        <3>1. CASE x = b
            BY <1>1, <1>3, <2>1, <3>1 DEF BookingsFollow
        <3>2. CASE x # b
            BY <2>1, <3>2 DEF BookingsFollow
        <3> QED BY <3>1, <3>2
    <2>3. booked \subseteq Placed
        BY DEF BookingsFollow
    <2>4. BookingsFollow'
        BY <1>1, <1>3, <2>1, <2>2, <2>3 DEF BookingsFollow, BookingRecord
    <2> QED BY <2>1, <2>4
<1>4. CASE booking[b].register = {}
    <2> DEFINE th == [booking[b] EXCEPT !.pc = "conflicts"]
    <2>1. booking' = [booking EXCEPT ![b] = th] /\ UNCHANGED markerVars
        BY <1>1, <1>4 DEF RegisterReferencingMarker, markerVars
    <2>2. th \in BookingRecord(Made) /\ th.pc = "conflicts" /\ th.register = booking[b].register
          /\ th.inherited = booking[b].inherited
        BY <1>2 DEF BookingRecord
    <2>3. /\ Placed' = Placed /\ Made' = Made /\ (\A m : Owner(m)' = Owner(m))
          /\ (\A x, m : Above(x, m)' <=> Above(x, m))
          /\ MarkersMade' /\ ReferencesBelow' /\ MarkersCovered'
        BY <2>1, MarkersKept
    <2> HIDE DEF th
    <2>4. BookingsFollow' /\ booking'[b] = th /\ \A x \in Block : x # b => booking'[x] = booking[x]
        BY <1>3, <1>4, <2>1, <2>2, <2>3
    <2>5. sequences' = sequences
        BY <2>1 DEF markerVars
    <2>6. Grows
        BY <1>1, <2>3, <2>5 DEF Grows, ForksGoOn
    <2> QED BY <1>1, <2>2, <2>3, <2>4, <2>5, <2>6
<1>5. CASE booking[b].register # {}
    <2>1. PICK n \in booking[b].register, m \in details[b].pastMarkers :
                /\ sequences' = Registered(n, m)
                /\ booking' = [booking EXCEPT ![b].register = @ \ {n}]
        BY <1>5 DEF RegisterReferencingMarker
    <2> DEFINE th == [booking[b] EXCEPT !.register = booking[b].register \ {n}]
    <2>2. booking' = [booking EXCEPT ![b] = th]
        BY <2>1
    <2>3. th \in BookingRecord(Made) /\ th.pc = "register" /\ th.register \subseteq booking[b].register
          /\ th.inherited = booking[b].inherited
        BY <1>1, <1>2 DEF BookingRecord
    <2>4. n \in Made /\ m \in Made /\ details[b].isPastMarker /\ Above(b, n)
        BY <1>2 DEF ReferencingAbove, BookingRecord, MarkersMade
    <2>5. /\ Placed' = Placed /\ Made' = Made /\ (\A k : Owner(k)' = Owner(k))
          /\ (\A x, k : Above(x, k)' <=> Above(x, k))
          /\ DOMAIN sequences' = DOMAIN sequences
          /\ \A s \in DOMAIN sequences : \A e \in sequences'[s].referencing :
                    e \in sequences[s].referencing \/ (s = n[1] /\ e = <<n[2], m>>)
          /\ MarkersMade' /\ ReferencesBelow' /\ MarkersCovered'
        BY <1>1, <2>1, <2>4, RegisteredKeeps
    <2> HIDE DEF th
    <2>6. BookingsFollow' /\ booking'[b] = th /\ \A x \in Block : x # b => booking'[x] = booking[x]
        BY <1>3, <2>2, <2>3, <2>5
    <2>7. Grows
        BY <1>1, <2>5 DEF Grows, ForksGoOn
    <2>8. ASSUME NEW s \in DOMAIN sequences', NEW e \in sequences'[s].referencing
          PROVE  \/ s \in DOMAIN sequences /\ e \in sequences[s].referencing
                 \/ <<s, e[1]>> \in Made /\ b \in Owner(e[2]) /\ Above(b, <<s, e[1]>>)
        <3>1. CASE s = n[1] /\ e = <<n[2], m>>
            <4>1. <<s, e[1]>> = n /\ e[2] = m
                BY <2>4, <3>1, MadeTyped
            <4> QED BY <2>4, <4>1 DEF Owner
        <3> QED BY <2>5, <3>1
    <2> QED BY <1>1, <2>3, <2>5, <2>6, <2>7, <2>8
<1> QED
    BY <1>4, <1>5

(* setConflictIDMapping changes the mapping of the marker only. *)
LEMMA MappingSet ==
    ASSUME NEW m, NEW cs
    PROVE  LET new == WithMapping(m, cs) IN
           /\ DOMAIN new = DOMAIN mapping \cup {m[1]}
           /\ \A s \in DOMAIN mapping : s # m[1] => new[s] = mapping[s]
           /\ m[2] \in DOMAIN new[m[1]] /\ new[m[1]][m[2]] = cs
           /\ \A i \in DOMAIN new[m[1]] : i # m[2] =>
                m[1] \in DOMAIN mapping /\ i \in DOMAIN mapping[m[1]] /\ new[m[1]][i] = mapping[m[1]][i]
           /\ m[1] \in DOMAIN mapping => \A i \in DOMAIN mapping[m[1]] : i \in DOMAIN new[m[1]]
<1> DEFINE new == WithMapping(m, cs)
           s == m[1]
           indexes == {m[2]} \cup IF s \in DOMAIN mapping THEN DOMAIN mapping[s] ELSE {}
           f == [i \in indexes |-> IF i = m[2] THEN cs ELSE mapping[s][i]]
<1>1. new = [t \in DOMAIN mapping \cup {s} |-> IF t = s THEN f ELSE mapping[t]]
    BY DEF WithMapping
<1>2. DOMAIN f = indexes /\ f[m[2]] = cs /\ \A i \in indexes : i # m[2] => f[i] = mapping[s][i]
    OBVIOUS
<1>3. /\ m[2] \in indexes /\ \A i \in indexes : i # m[2] => s \in DOMAIN mapping /\ i \in DOMAIN mapping[s]
      /\ s \in DOMAIN mapping => \A i \in DOMAIN mapping[s] : i \in indexes
    OBVIOUS
<1> HIDE DEF f, indexes, new
<1>4. DOMAIN new = DOMAIN mapping \cup {s} /\ new[s] = f /\ \A t \in DOMAIN mapping : t # s => new[t] = mapping[t]
    BY <1>1
<1> QED
    BY <1>2, <1>3, <1>4 DEF new

(* The last step of a booking leaves the markers alone. *)
LEMMA InheritConflictsFollow ==
    ASSUME MarkersInv, NEW b \in Block, InheritConflictIDs(b)
    PROVE  /\ MarkersInv' /\ Grows /\ UNCHANGED <<markerVars, fork>> /\ b \in Placed
           /\ booking[b].pc = "conflicts" /\ booking'[b] = NotBooking /\ booked' = booked \cup {b}
           /\ \A x \in Block : x # b => booking'[x] = booking[x]
<1> USE DEF MarkersInv
<1>1. /\ UNCHANGED <<markerVars, fork>>
      /\ booking[b].pc = "conflicts" /\ booked' = booked \cup {b}
      /\ booking' = [booking EXCEPT ![b] = NotBooking]
    BY DEF InheritConflictIDs
<1>2. /\ Placed' = Placed /\ Made' = Made /\ (\A m : Owner(m)' = Owner(m))
      /\ (\A x, m : Above(x, m)' <=> Above(x, m))
      /\ MarkersMade' /\ ReferencesBelow' /\ MarkersCovered'
    BY <1>1, MarkersKept
<1>9. DOMAIN mapping \subseteq DOMAIN mapping'
    <2> DEFINE d == details[b]
               inherited == booking[b].inherited
               m == CHOOSE n \in d.pastMarkers : TRUE
    <2>1. mapping' = mapping \/ mapping' = WithMapping(m, inherited)
        BY DEF InheritConflictIDs, SetConflictIDs
    <2> HIDE DEF m, inherited
    <2>2. CASE mapping' = WithMapping(m, inherited)
        <3>1. DOMAIN WithMapping(m, inherited) = DOMAIN mapping \cup {m[1]}
            BY MappingSet
        <3> QED BY <2>2, <3>1
    <2> QED BY <2>1, <2>2
<1>3. Grows
    BY <1>1, <1>2, <1>9 DEF Grows, ForksGoOn, markerVars
<1>4. NotBooking \in BookingRecord(Made')
    BY DEF NotBooking, BookingRecord
<1>5. /\ booking' \in [Block -> BookingRecord(Made')] /\ booking'[b] = NotBooking
      /\ \A x \in Block : x # b => booking'[x] = booking[x]
    BY <1>1, <1>2, <1>4, BookingGoesOn
<1>6. b \in Placed /\ details' = details
    BY <1>1 DEF BookingsFollow, markerVars
<1>7. ASSUME NEW x \in Block
      PROVE  /\ x \in Placed => StrongParents[x] \subseteq booked'
             /\ booking'[x].pc # "idle" => x \notin booked' /\ StrongParents[x] \subseteq booked'
             /\ x \in Placed <=> x \in booked' \/ booking'[x].pc \in {"register", "conflicts"}
             /\ x \notin Placed => details[x] = NoMarkers
             /\ booking'[x].pc # "register" => booking'[x].register = {}
    <2>1. CASE x = b
        BY <1>1, <1>5, <1>6, <2>1 DEF BookingsFollow, NotBooking
    <2>2. CASE x # b
        BY <1>1, <1>5, <2>2 DEF BookingsFollow
    <2> QED BY <2>1, <2>2
<1>8. BookingsFollow'
    BY <1>1, <1>2, <1>5, <1>6, <1>7 DEF BookingsFollow, BookingRecord
<1> QED
    BY <1>1, <1>2, <1>3, <1>5, <1>6, <1>8

-----------------------------------------------------------------------------
(* The mapping of conflicts. *)

(* A mapping that stays is justified as before. *)
LEMMA MappingKept ==
    ASSUME MappingJustified, Grows, mapping' = mapping
    PROVE  MappingJustified'
<1>1. ASSUME NEW s \in DOMAIN mapping, NEW i \in DOMAIN mapping[s]
      PROVE  <<s, i>> \in Made' /\ mapping[s][i] \subseteq Conflict /\ Justified(<<s, i>>, mapping[s][i])'
    <2>1. <<s, i>> \in Made /\ mapping[s][i] \subseteq Conflict /\ Justified(<<s, i>>, mapping[s][i])
        BY DEF MappingJustified
    <2> DEFINE cs == mapping[s][i]
               m == <<s, i>>
    <2>2. cs' = cs /\ m' = m
        OBVIOUS
    <2>3. m \in Made' /\ Justified(m, cs)'
        <3> HIDE DEF cs, m
        <3> QED BY <2>1, <2>2, JustifiedGrows DEF Grows, m, cs
    <2> QED BY <2>1, <2>3
<1> QED
    BY <1>1 DEF MappingJustified, Grows

(* A mapping that is set has to be justified, *)
LEMMA MappingAssigned ==
    ASSUME MappingJustified, Grows, NEW m, m \in Made', m[1] \in DOMAIN sequences', NEW cs, cs \subseteq Conflict,
           Justified(m, cs)', mapping' = WithMapping(m, cs)
    PROVE  MappingJustified'
<1> DEFINE new == WithMapping(m, cs)
<1>1. /\ DOMAIN new = DOMAIN mapping \cup {m[1]}
      /\ \A s \in DOMAIN mapping : s # m[1] => new[s] = mapping[s]
      /\ new[m[1]][m[2]] = cs
      /\ \A i \in DOMAIN new[m[1]] : i # m[2] =>
            m[1] \in DOMAIN mapping /\ i \in DOMAIN mapping[m[1]] /\ new[m[1]][i] = mapping[m[1]][i]
    BY MappingSet
<1>2. mapping' = new
    OBVIOUS
<1> HIDE DEF new
<1>3. ASSUME NEW s \in DOMAIN mapping', NEW i \in DOMAIN mapping'[s]
      PROVE  <<s, i>> \in Made' /\ mapping'[s][i] \subseteq Conflict /\ Justified(<<s, i>>, mapping[s][i])'
    <2>1. CASE s = m[1] /\ i = m[2]
        <3>1. <<s, i>> = m /\ mapping'[s][i] = cs
            <4>1. m = <<m[1], m[2]>>
                BY DEF Made, Marker
            <4> QED BY <1>1, <1>2, <2>1, <4>1
        <3> QED BY <3>1 DEF Justified
    <2>2. CASE ~(s = m[1] /\ i = m[2])
        <3> DEFINE n == <<s, i>>
                   old == mapping[s][i]
        <3>1. s \in DOMAIN mapping /\ i \in DOMAIN mapping[s] /\ mapping'[s][i] = old
            BY <1>1, <1>2, <1>3, <2>2
        <3>2. n \in Made /\ old \subseteq Conflict /\ Justified(n, old)
            BY <3>1 DEF MappingJustified
        <3>3. n \in Made' /\ (old = {} \/ \E x \in Owner(n)' : old \subseteq Approved(x)')
            <4> HIDE DEF n, old
            <4> QED BY <3>2, ApprovedGrows DEF Grows, Justified
        <3> QED BY <3>1, <3>2, <3>3 DEF Justified
    <2> QED BY <2>1, <2>2
<1>4. DOMAIN mapping' \subseteq DOMAIN sequences'
    BY <1>1, <1>2 DEF MappingJustified, Grows
<1> QED
    BY <1>3, <1>4 DEF MappingJustified

(* and one that is deleted needs not. *)
LEMMA MappingDeleted ==
    ASSUME MappingJustified, Grows, NEW m, m[1] \in DOMAIN mapping,
           mapping' = [mapping EXCEPT ![m[1]] = [i \in DOMAIN @ \ {m[2]} |-> @[i]]]
    PROVE  MappingJustified'
<1> DEFINE f == [i \in DOMAIN mapping[m[1]] \ {m[2]} |-> mapping[m[1]][i]]
<1>1. mapping' = [mapping EXCEPT ![m[1]] = f]
    OBVIOUS
<1>2. \A i \in DOMAIN f : i \in DOMAIN mapping[m[1]] /\ f[i] = mapping[m[1]][i]
    OBVIOUS
<1> HIDE DEF f
<1>3. DOMAIN mapping' = DOMAIN mapping
      /\ \A s \in DOMAIN mapping : \A i \in DOMAIN mapping'[s] : i \in DOMAIN mapping[s] /\ mapping'[s][i] = mapping[s][i]
    BY <1>1, <1>2
<1>4. ASSUME NEW s \in DOMAIN mapping', NEW i \in DOMAIN mapping'[s]
      PROVE  <<s, i>> \in Made' /\ mapping'[s][i] \subseteq Conflict /\ Justified(<<s, i>>, mapping[s][i])'
    <2> DEFINE n == <<s, i>>
               old == mapping[s][i]
    <2>1. s \in DOMAIN mapping /\ i \in DOMAIN mapping[s] /\ mapping'[s][i] = old
        BY <1>3, <1>4
    <2>2. n \in Made /\ old \subseteq Conflict /\ Justified(n, old)
        BY <2>1 DEF MappingJustified
    <2>3. n \in Made' /\ (old = {} \/ \E x \in Owner(n)' : old \subseteq Approved(x)')
        <3> HIDE DEF n, old
        <3> QED BY <2>2, ApprovedGrows DEF Grows, Justified
    <2> QED BY <2>1, <2>2, <2>3 DEF Justified
<1> QED
    BY <1>3, <1>4 DEF MappingJustified, Grows

-----------------------------------------------------------------------------
(* Forks. *)

(* A fork that waits stays among what it may visit. *)
LEMMA ForkKept ==
    ASSUME Grows, NEW c \in Conflict, ForkApproved(c), fork[c] \in ForkState, fork'[c] = fork[c]
    PROVE  ForkApproved(c)' /\ fork[c] \in ForkState'
<1>1. fork[c].pushedMarkers \subseteq Made /\ fork[c].markers \subseteq Made
    BY DEF ForkState
<1>2. \A m \in fork[c].pushedMarkers : m \in Made' /\ Owner(m)' = Owner(m)
    BY <1>1 DEF Grows
<1>3. ASSUME NEW u \in fork[c].setting PROVE Justified(<<u[1], u[2]>>, u[3])'
    <2> DEFINE n == <<u[1], u[2]>>
               old == u[3]
    <2>1. n \in Made /\ Justified(n, old)
        BY <1>1 DEF ForkApproved
    <2>2. old = {} \/ \E x \in Owner(n)' : old \subseteq Approved(x)'
        <3> HIDE DEF n, old
        <3> QED BY <2>1, ApprovedGrows DEF Grows, Justified
    <2> QED BY <2>2 DEF Justified
<1>4. Made \subseteq Made'
    BY DEF Grows
<1>5. fork[c] \in ForkState'
    BY <1>4 DEF ForkState
<1>6. ForkApproved(c)'
    BY <1>2, <1>3 DEF ForkApproved, Approves, Grows
<1> QED
    BY <1>5, <1>6

(* Bookings leave the forks alone. *)
LEMMA ForksKept ==
    ASSUME Grows, ForksApproved, fork' = fork
    PROVE  ForksApproved'
<1>1. \A c \in Conflict : ForkApproved(c)' /\ fork[c] \in ForkState'
    BY ForkKept DEF ForksApproved
<1>2. fork' \in [Conflict -> ForkState']
    BY <1>1 DEF ForksApproved
<1> QED
    BY <1>1, <1>2 DEF ForksApproved

(* A fork leaves the others, the markers and the bookings alone. *)
LEMMA ForkStep ==
    ASSUME MarkersInv, ApprovedInv, UNCHANGED <<markerVars, booked, booking>>, DOMAIN mapping \subseteq DOMAIN mapping',
           NEW c \in Conflict, NEW th \in ForkState, fork' = [fork EXCEPT ![c] = th], th.pc # "idle",
           th.queue \subseteq th.pushed, th.markers \subseteq th.pushedMarkers, th.pc # "set" => th.setting = {},
           th.locked # {} <=> th.pc \in {"marker", "set"},
           \A b \in th.pushed \cup th.locked : Approves(b, c),
           \A m \in th.pushedMarkers : \E x \in Owner(m) : Approves(x, c),
           \A u \in th.setting : /\ <<u[1], u[2]>> \in th.pushedMarkers /\ u[1] \in DOMAIN mapping
                                 /\ Justified(<<u[1], u[2]>>, u[3])
    PROVE  MarkersInv' /\ Grows /\ ForksApproved' /\ ReferencingAbove'
<1> USE DEF MarkersInv, ApprovedInv
<1>1. /\ Placed' = Placed /\ Made' = Made /\ (\A m : Owner(m)' = Owner(m))
      /\ (\A x, m : Above(x, m)' <=> Above(x, m))
      /\ MarkersMade' /\ ReferencesBelow' /\ MarkersCovered'
    BY MarkersKept
<1>2. details' = details /\ sequences' = sequences
    BY DEF markerVars
<1>3. BookingsFollow'
    BY <1>1, <1>2 DEF BookingsFollow
<1>4. fork'[c] = th /\ \A d \in Conflict : d # c => fork'[d] = fork[d]
    BY DEF ForksApproved
<1>5. Grows
    BY <1>1, <1>2, <1>4 DEF Grows, ForksGoOn
<1>6. ReferencingAbove'
    BY <1>1, <1>2 DEF ReferencingAbove
<1>7. fork' \in [Conflict -> ForkState]
    BY DEF ForksApproved
<1>8. \A u \in th.setting : Justified(<<u[1], u[2]>>, u[3])'
    <2> SUFFICES ASSUME NEW u \in th.setting PROVE Justified(<<u[1], u[2]>>, u[3])'
        OBVIOUS
    <2> DEFINE n == <<u[1], u[2]>>
               old == u[3]
    <2>1. Justified(n, old)
        OBVIOUS
    <2>2. old = {} \/ \E x \in Owner(n)' : old \subseteq Approved(x)'
        <3> HIDE DEF n, old
        <3> QED BY <1>1, <1>5, <2>1, ApprovedGrows DEF Grows, Justified
    <2> QED BY <2>2 DEF Justified
<1>9. ForkApproved(c)'
    BY <1>1, <1>4, <1>8 DEF ForkApproved, Approves
<1>10. ASSUME NEW d \in Conflict, d # c PROVE ForkApproved(d)'
    BY <1>4, <1>5, <1>10, ForkKept DEF ForksApproved
<1>11. fork' \in [Conflict -> ForkState']
    BY <1>1, <1>7 DEF ForkState
<1>12. ForksApproved'
    BY <1>9, <1>10, <1>11 DEF ForksApproved
<1> QED
    BY <1>1, <1>3, <1>5, <1>6, <1>12

-----------------------------------------------------------------------------
(* No step breaks the invariant of the conflicts. *)

(* DetermineBookingDetails *)
LEMMA DetermineApproved ==
    ASSUME MarkersInv, ApprovedInv, NEW b \in Block, DetermineBookingDetails(b)
    PROVE  MarkersInv' /\ ApprovedInv'
<1> USE DEF MarkersInv, ApprovedInv
<1>1. /\ BookingsFollow' /\ Grows
      /\ booking'[b].inherited \subseteq Approved(b) /\ booking'[b].pc = "inherit" /\ booking'[b].register = {}
      /\ \A x \in Block : x # b => booking'[x] = booking[x]
    BY DetermineFollows
<1>2. UNCHANGED <<markerVars, mapping, added, subtracted, booked, fork>>
    BY DEF DetermineBookingDetails
<1>3. /\ Made' = Made /\ (\A m : Owner(m)' = Owner(m)) /\ (\A x, m : Above(x, m)' <=> Above(x, m))
      /\ MarkersMade' /\ ReferencesBelow' /\ MarkersCovered'
    BY <1>2, MarkersKept
<1>4. MappingJustified'
    BY <1>1, <1>2, MappingKept
<1>5. ForksApproved'
    BY <1>1, <1>2, ForksKept
<1>6. ReferencingAbove'
    BY <1>1, <1>2, <1>3 DEF ReferencingAbove, markerVars
<1>7. \A x : Approved(x)' = Approved(x)
    BY <1>2 DEF Approved
<1>8. BlocksApproved'
    BY <1>1, <1>2, <1>7 DEF BlocksApproved
<1> QED
    BY <1>1, <1>3, <1>4, <1>5, <1>6, <1>8

(* InheritStructureDetails *)
LEMMA InheritDetailsApproved ==
    ASSUME MarkersInv, ApprovedInv, NEW b \in Block, InheritStructureDetails(b), MarkersMade', ReferencesBelow', MarkersCovered'
    PROVE  MarkersInv' /\ ApprovedInv'
<1> USE DEF MarkersInv, ApprovedInv
<1>1. /\ BookingsFollow' /\ Grows
      /\ booking'[b].inherited = booking[b].inherited /\ booking'[b].pc = "register"
      /\ \A n \in booking'[b].register : details'[b].isPastMarker /\ Above(b, n)'
      /\ \A x \in Block : x # b => booking'[x] = booking[x]
      /\ b \notin booked /\ b \notin Placed
    BY InheritFollows
<1>2. UNCHANGED <<mapping, added, subtracted, booked, fork, panicked>>
    BY DEF InheritStructureDetails
<1>3. MappingJustified'
    BY <1>1, <1>2, MappingKept
<1>4. ForksApproved'
    BY <1>1, <1>2, ForksKept
<1>5. BlocksApproved'
    <2>1. \A x : Approved(x)' = Approved(x)
        BY <1>2 DEF Approved
    <2>2. \A x \in Block : booking'[x].inherited = booking[x].inherited
        BY <1>1
    <2> QED BY <1>2, <2>1, <2>2 DEF BlocksApproved
<1>6. PICK past : PlacedWith(b, past) /\ (Unmarked(b, past) \/ \E m : Marked(b, past, m))
    BY InheritsMarkers DEF Inherits
<1>7. \A x \in Block : x # b => details'[x] = details[x]
    BY <1>6 DEF PlacedWith
<1>8. \A s \in DOMAIN sequences' : \A e \in sequences'[s].referencing :
            s \in DOMAIN sequences /\ e \in sequences[s].referencing
    BY <1>6 DEF Unmarked, Marked, Extended
<1>9. ASSUME NEW s \in DOMAIN sequences', NEW e \in sequences'[s].referencing
      PROVE  <<s, e[1]>> \in Made' /\ \E y \in Owner(e[2])' : Above(y, <<s, e[1]>>)'
    <2> DEFINE n == <<s, e[1]>>
               m == e[2]
    <2>1. n \in Made /\ \E y \in Owner(m) : Above(y, n)
        BY <1>8, <1>9 DEF ReferencingAbove
    <2>2. m \in Made
        <3>1. sequences[s] \in Sequence /\ e \in sequences[s].referencing
            BY <1>8, <1>9 DEF MarkersMade
        <3>2. m \in Marker
            BY <3>1 DEF Sequence
        <3> QED BY <2>1, <3>2 DEF Made
    <2>3. n \in Made' /\ \E y \in Owner(m)' : Above(y, n)'
        <3> HIDE DEF n, m
        <3> QED BY <1>1, <2>1, <2>2 DEF Grows
    <2> QED BY <2>3
<1>10. ASSUME NEW x \in Block, NEW n \in booking'[x].register PROVE details'[x].isPastMarker /\ Above(x, n)'
    <2>1. CASE x = b
        BY <1>1, <1>10, <2>1
    <2>2. CASE x # b
        <3>1. n \in booking[x].register /\ n \in Made
            BY <1>1, <1>10, <2>2 DEF BookingsFollow
        <3> QED BY <1>1, <1>7, <2>2, <3>1 DEF ReferencingAbove, Grows
    <2> QED BY <2>1, <2>2
<1>11. ReferencingAbove'
    BY <1>9, <1>10 DEF ReferencingAbove
<1> QED
    BY <1>1, <1>3, <1>4, <1>5, <1>11

(* RegisterReferencingMarker *)
LEMMA RegisterApproved ==
    ASSUME MarkersInv, ApprovedInv, NEW b \in Block, RegisterReferencingMarker(b)
    PROVE  MarkersInv' /\ ApprovedInv'
<1> USE DEF MarkersInv, ApprovedInv
<1>1. /\ BookingsFollow' /\ MarkersMade' /\ ReferencesBelow' /\ MarkersCovered' /\ Grows
      /\ details' = details
      /\ booking'[b].inherited = booking[b].inherited
      /\ booking'[b].register \subseteq booking[b].register
      /\ \A x \in Block : x # b => booking'[x] = booking[x]
      /\ \A s \in DOMAIN sequences' : \A e \in sequences'[s].referencing :
            \/ s \in DOMAIN sequences /\ e \in sequences[s].referencing
            \/ <<s, e[1]>> \in Made /\ b \in Owner(e[2]) /\ Above(b, <<s, e[1]>>)
    BY RegisterFollows
<1>2. UNCHANGED <<details, mapping, added, subtracted, booked, fork, panicked>>
    BY DEF RegisterReferencingMarker
<1>3. MappingJustified'
    BY <1>1, <1>2, MappingKept
<1>4. ForksApproved'
    BY <1>1, <1>2, ForksKept
<1>5. BlocksApproved'
    <2>1. \A x : Approved(x)' = Approved(x)
        BY <1>2 DEF Approved
    <2>2. \A x \in Block : booking'[x].inherited = booking[x].inherited
        BY <1>1
    <2> QED BY <1>2, <2>1, <2>2 DEF BlocksApproved
<1>6. /\ Made' = Made /\ (\A m : Owner(m)' = Owner(m)) /\ \A x, m : Above(x, m)' <=> Above(x, m)
    <2>1. \A m : Owner(m)' = Owner(m)
        BY <1>2 DEF Owner
    <2> QED BY <2>1 DEF Made, Above
<1>7. \A x \in Block : booking'[x].register \subseteq booking[x].register
    BY <1>1
<1>8. ReferencingAbove'
    <2>1. \A s \in DOMAIN sequences' : \A e \in sequences'[s].referencing :
            <<s, e[1]>> \in Made /\ \E y \in Owner(e[2]) : Above(y, <<s, e[1]>>)
        BY <1>1 DEF ReferencingAbove
    <2> QED BY <1>2, <1>6, <1>7, <2>1 DEF ReferencingAbove
<1> QED
    BY <1>1, <1>3, <1>4, <1>5, <1>8

(* InheritConflictIDs *)
LEMMA InheritConflictsApproved ==
    ASSUME MarkersInv, ApprovedInv, NEW b \in Block, InheritConflictIDs(b)
    PROVE  MarkersInv' /\ ApprovedInv'
<1> USE DEF MarkersInv, ApprovedInv
<1> DEFINE d == details[b]
           inherited == booking[b].inherited
           created == d.isPastMarker /\ \A m \in d.pastMarkers : m[1] \notin DOMAIN mapping
           past == IF Known(d) THEN PastMarkersConflictIDs(d) ELSE {}
           m == CHOOSE n \in d.pastMarkers : TRUE
<1>1. /\ MarkersInv' /\ Grows /\ UNCHANGED <<markerVars, fork>> /\ b \in Placed
      /\ booking[b].pc = "conflicts" /\ booking'[b] = NotBooking /\ booked' = booked \cup {b}
      /\ \A x \in Block : x # b => booking'[x] = booking[x]
    BY InheritConflictsFollow
<1>2. /\ mapping' = IF d.isPastMarker /\ (created \/ past # inherited) THEN SetConflictIDs(m, inherited) ELSE mapping
      /\ added' = [added EXCEPT ![b] = IF d.isPastMarker THEN @ ELSE inherited \ past]
      /\ subtracted' = [subtracted EXCEPT ![b] = IF d.isPastMarker THEN @ ELSE past \ inherited]
    BY DEF InheritConflictIDs
<1>3. /\ Made' = Made /\ (\A n : Owner(n)' = Owner(n)) /\ \A x, n : Above(x, n)' <=> Above(x, n)
    BY <1>1, MarkersKept
<1>4. \A x : Approved(x)' = Approved(x)
    BY <1>1 DEF Approved
<1>5. inherited \subseteq Approved(b) /\ Approved(b) \subseteq Conflict
    BY DEF BlocksApproved, Approved
<1>6. past \subseteq Conflict
    <2>1. ASSUME Known(d), NEW n \in d.pastMarkers PROVE ConflictIDs(n) \subseteq Approved(b)
        <3>1. n \in Made /\ Above(b, n) /\ Mapped(n)
            BY <2>1 DEF MarkersMade, Known
        <3> QED BY <3>1, ConflictIDsApproved
    <2> QED BY <1>5, <2>1 DEF PastMarkersConflictIDs
<1> HIDE DEF past
<1>7. MappingJustified'
    <2>1. CASE mapping' = mapping
        BY <1>1, <2>1, MappingKept
    <2>2. CASE mapping' # mapping
        <3>1. d.isPastMarker /\ mapping' = WithMapping(m, inherited)
            BY <1>2, <2>2 DEF SetConflictIDs
        <3>2. m \in d.pastMarkers
            BY <1>1 DEF Placed
        <3> HIDE DEF m
        <3>3. m \in Made /\ b \in Owner(m) /\ m[1] \in DOMAIN sequences
            BY <3>1, <3>2 DEF MarkersMade, Owner
        <3>4. m \in Made' /\ m[1] \in DOMAIN sequences'
            BY <1>1, <1>3, <3>3 DEF Grows
        <3>5. inherited \subseteq Conflict
            BY <1>5
        <3>8. ASSUME NEW k, NEW es, k = m, es = inherited PROVE MappingJustified'
            <4>1. \E x \in Owner(k)' : es \subseteq Approved(x)'
                <5>1. Owner(k)' = Owner(k) /\ Owner(k) = Owner(m)
                    BY <1>3, <3>8
                <5> QED BY <1>4, <1>5, <3>3, <3>8, <5>1
            <4>2. Justified(k, es)'
                BY <4>1 DEF Justified
            <4>3. k \in Made' /\ k[1] \in DOMAIN sequences' /\ es \subseteq Conflict /\ mapping' = WithMapping(k, es)
                BY <3>1, <3>4, <3>5, <3>8
            <4> QED BY <1>1, <4>2, <4>3, MappingAssigned
        <3> QED BY <3>8
    <2> QED BY <2>1, <2>2
<1>8. ForksApproved'
    BY <1>1, ForksKept
<1>9. ReferencingAbove'
    <2>1. \A x \in Block : booking'[x].register \subseteq booking[x].register
        BY <1>1 DEF NotBooking
    <2> QED BY <1>1, <1>3, <2>1 DEF ReferencingAbove, markerVars
<1>10. BlocksApproved'
    <2>1. added' \in [Block -> SUBSET Conflict] /\ subtracted' \in [Block -> SUBSET Conflict]
        BY <1>2, <1>5, <1>6 DEF BlocksApproved
    <2>2. ASSUME NEW x \in Block PROVE added'[x] \subseteq Approved(x) /\ booking'[x].inherited \subseteq Approved(x)
        <3>1. CASE x = b
            BY <1>1, <1>2, <1>5, <3>1 DEF BlocksApproved, NotBooking
        <3>2. CASE x # b
            BY <1>1, <1>2, <3>2 DEF BlocksApproved
        <3> QED BY <3>1, <3>2
    <2> QED BY <1>4, <2>1, <2>2 DEF BlocksApproved
<1> QED
    BY <1>1, <1>7, <1>8, <1>9, <1>10

(* The children of a block approve what it approves. *)
LEMMA ChildrenApprove ==
    ASSUME NEW b \in Block, NEW c, Approves(b, c), NEW x \in StrongChildren(b)
    PROVE  Approves(x, c)
<1>1. x \in Block /\ b \in StrongParents[x]
    BY DEF StrongChildren
<1>2. PastCone[b] \subseteq PastCone[x]
    BY <1>1, PastConeClosed
<1> QED
    BY <1>2 DEF Approves

(* A marker that is below others of its owner. *)
LEMMA OwnersBelow ==
    ASSUME MarkersMade, NEW m \in Made, NEW y, NEW k \in Nat, m[2] <= k, Above(y, <<m[1], k>>),
           NEW c, \E x \in Owner(m) : Approves(x, c), y \in Block
    PROVE  Approves(y, c)
<1>1. PICK x \in Owner(m) : Approves(x, c)
    OBVIOUS
<1>2. m = <<m[1], m[2]>> /\ m[2] \in 0 .. k
    BY MadeTyped
<1>3. x \in PastCone[y]
    BY <1>1, <1>2 DEF Above
<1>4. PastCone[x] \subseteq PastCone[y]
    BY <1>3, PastConeClosed
<1> QED
    BY <1>1, <1>4 DEF Approves

(* The steps of a fork that change no conflicts keep the approved ones. *)
LEMMA ApprovedKept ==
    ASSUME MappingJustified, BlocksApproved, Grows, ForksApproved', ReferencingAbove',
           UNCHANGED <<mapping, added, subtracted, booking>>
    PROVE  ApprovedInv'
<1>1. MappingJustified'
    BY MappingKept
<1>2. BlocksApproved'
    <2>1. \A b : Approved(b) \subseteq Approved(b)'
        BY ApprovedGrows DEF Grows
    <2> QED BY <2>1 DEF BlocksApproved
<1> QED
    BY <1>1, <1>2 DEF ApprovedInv

(* StartFork *)
LEMMA StartApproved ==
    ASSUME MarkersInv, ApprovedInv, NEW c \in Conflict, StartFork(c)
    PROVE  MarkersInv' /\ ApprovedInv'
<1> DEFINE th == [NotForking EXCEPT !.pc = "walk", !.queue = Attachments[c], !.pushed = Attachments[c]]
<1>1. /\ fork' = [fork EXCEPT ![c] = th]
      /\ UNCHANGED <<markerVars, mapping, added, subtracted, booked, booking, panicked>>
    BY DEF StartFork
<1>2. /\ th.pc = "walk" /\ th.queue = Attachments[c] /\ th.pushed = Attachments[c] /\ th.locked = {}
      /\ th.markers = {} /\ th.pushedMarkers = {} /\ th.setting = {}
    BY DEF NotForking
<1>3. Attachments[c] \in SUBSET Block
    BY BookerAssumption
<1>4. th \in ForkState
    BY <1>3 DEF NotForking, ForkState
<1>5. \A b \in Attachments[c] : Approves(b, c)
    BY <1>3, PastConeClosed DEF Approves
<1> HIDE DEF th
<1>6. MarkersInv' /\ Grows /\ ForksApproved' /\ ReferencingAbove'
    BY <1>1, <1>2, <1>4, <1>5, ForkStep
<1> QED
    BY <1>1, <1>6, ApprovedKept DEF ApprovedInv

(* PropagateForkedConflict *)
LEMMA PropagateApproved ==
    ASSUME MarkersInv, ApprovedInv, NEW c \in Conflict, NEW b \in Block, PropagateForkedConflict(c, b)
    PROVE  MarkersInv' /\ ApprovedInv'
<1> USE DEF ApprovedInv, ForksApproved
<1> DEFINE r == fork[c]
<1>1. /\ r.pc = "walk" /\ b \in r.queue
      /\ UNCHANGED <<markerVars, mapping, subtracted, booked, booking, panicked>>
    BY DEF PropagateForkedConflict
<1>2. /\ r \in ForkState /\ r.queue \subseteq r.pushed /\ r.markers \subseteq r.pushedMarkers
      /\ (r.locked # {} <=> r.pc \in {"marker", "set"}) /\ \A x \in r.pushed \cup r.locked : Approves(x, c)
      /\ \A m \in r.pushedMarkers : \E x \in Owner(m) : Approves(x, c)
      /\ \A u \in r.setting : /\ <<u[1], u[2]>> \in r.pushedMarkers /\ u[1] \in DOMAIN mapping
                              /\ Justified(<<u[1], u[2]>>, u[3])
      /\ r.pc # "set" => r.setting = {}
    BY DEF ForkApproved
<1>3. Approves(b, c) /\ c \in Approved(b)
    BY <1>1, <1>2 DEF Approves, Approved
<1>4. ASSUME NEW S \in SUBSET StrongChildren(b), fork' = [fork EXCEPT ![c] = Push(@, b, S)]
      PROVE  MarkersInv' /\ Grows /\ ForksApproved' /\ ReferencingAbove'
    <2> DEFINE th == Push(r, b, S)
    <2>1. fork' = [fork EXCEPT ![c] = th]
        BY <1>4
    <2>2. S \in SUBSET Block /\ \A x \in S : Approves(x, c)
        BY <1>3, ChildrenApprove DEF StrongChildren
    <2> HIDE DEF r
    <2>3. /\ th.queue = (r.queue \ {b}) \cup (S \ r.pushed) /\ th.pushed = r.pushed \cup S
          /\ th.pc = r.pc /\ th.locked = r.locked /\ th.markers = r.markers
          /\ th.pushedMarkers = r.pushedMarkers /\ th.setting = r.setting
        BY <1>2 DEF Push, ForkState
    <2>4. th \in ForkState
        BY <1>2, <2>2 DEF Push, ForkState
    <2> HIDE DEF th
    <2>5. th.pc # "idle" /\ th.queue \subseteq th.pushed /\ \A x \in th.pushed \cup th.locked : Approves(x, c)
        BY <1>1, <1>2, <2>2, <2>3
    <2> QED BY <1>1, <1>2, <2>1, <2>3, <2>4, <2>5, ForkStep
<1>5. CASE b \notin booked /\ fork' = [fork EXCEPT ![c] = Push(@, b, {})] /\ UNCHANGED added
    <2>1. {} \in SUBSET StrongChildren(b)
        OBVIOUS
    <2>2. MarkersInv' /\ Grows /\ ForksApproved' /\ ReferencingAbove'
        BY <1>4, <1>5, <2>1
    <2> QED BY <1>1, <1>5, <2>2, ApprovedKept
<1>6. CASE /\ b \in booked /\ details[b].isPastMarker
           /\ fork' = [fork EXCEPT ![c].pc = "marker", ![c].locked = {b},
                                  ![c].markers = details[b].pastMarkers,
                                  ![c].pushedMarkers = details[b].pastMarkers]
           /\ UNCHANGED added
    <2> DEFINE ms == details[b].pastMarkers
               th == [r EXCEPT !.pc = "marker", !.locked = {b}, !.markers = ms, !.pushedMarkers = ms]
    <2>1. fork' = [fork EXCEPT ![c] = th]
        BY <1>6
    <2>2. ms \in SUBSET Made /\ \A m \in ms : b \in Owner(m)
        BY <1>6 DEF MarkersInv, MarkersMade, Owner
    <2>3. r.setting = {}
        BY <1>1, <1>2
    <2> HIDE DEF r, ms
    <2>4. /\ th.pc = "marker" /\ th.locked = {b} /\ th.markers = ms /\ th.pushedMarkers = ms /\ th.queue = r.queue
          /\ th.pushed = r.pushed /\ th.setting = r.setting
        BY <1>2 DEF ForkState
    <2>5. th \in ForkState
        BY <1>2, <2>2 DEF ForkState
    <2> HIDE DEF th
    <2>6. MarkersInv' /\ Grows /\ ForksApproved' /\ ReferencingAbove'
        BY <1>1, <1>2, <1>3, <2>1, <2>2, <2>3, <2>4, <2>5, ForkStep
    <2> QED BY <1>1, <1>6, <2>6, ApprovedKept
<1>7. CASE b \in booked /\ ~details[b].isPastMarker /\ UpdateBlockConflicts(c, b)
    <2> DEFINE updated == ParentConflicts[c] \subseteq BlockConflictIDs(b) /\ c \notin added[b]
               S == IF updated THEN StrongChildren(b) ELSE {}
    <2>1. /\ added' = [added EXCEPT ![b] = IF updated THEN @ \cup {c} ELSE @]
          /\ fork' = [fork EXCEPT ![c] = Push(@, b, S)]
        BY <1>7 DEF UpdateBlockConflicts
    <2>2. S \in SUBSET StrongChildren(b)
        OBVIOUS
    <2> HIDE DEF updated, S
    <2>3. MarkersInv' /\ Grows /\ ForksApproved' /\ ReferencingAbove'
        BY <1>4, <2>1, <2>2
    <2>4. MappingJustified'
        BY <1>1, <2>3, MappingKept
    <2>5. \A x : Approved(x) \subseteq Approved(x)'
        BY <2>3, ApprovedGrows DEF Grows
    <2>6. BlocksApproved'
        BY <1>1, <1>3, <2>1, <2>5 DEF BlocksApproved
    <2> QED BY <2>3, <2>4, <2>6
<1> QED
    BY <1>5, <1>6, <1>7 DEF PropagateForkedConflict

(* The conflicts that a fork reads at a marker are approved by the block of the marker, and so is its own. *)
LEMMA SingleApproved ==
    ASSUME MarkersInv, ApprovedInv, NEW c \in Conflict, NEW m, ForkSingleMarker(c, m)
    PROVE  MarkersInv' /\ ApprovedInv'
<1> USE DEF ApprovedInv, ForksApproved
<1> DEFINE r == fork[c]
           cs == ConflictIDs(m) \cup {c}
<1>1. /\ r.pc = "marker" /\ m \in r.markers
      /\ UNCHANGED <<markerVars, added, subtracted, booked, booking>>
    BY DEF ForkSingleMarker
<1>2. /\ r \in ForkState /\ r.queue \subseteq r.pushed /\ r.markers \subseteq r.pushedMarkers
      /\ (r.locked # {} <=> r.pc \in {"marker", "set"}) /\ \A x \in r.pushed \cup r.locked : Approves(x, c)
      /\ \A k \in r.pushedMarkers : \E x \in Owner(k) : Approves(x, c)
      /\ r.setting = {}
    BY <1>1 DEF ForkApproved
<1>3. m \in Made /\ m \in r.pushedMarkers /\ m = <<m[1], m[2]>> /\ m[1] \in SequenceIDs /\ m[2] \in MarkerIndex
    <2>1. m \in Made /\ m \in r.pushedMarkers
        BY <1>1, <1>2 DEF ForkState
    <2>2. m \in SequenceIDs \X MarkerIndex
        BY <2>1 DEF Made, Marker
    <2> QED BY <2>1, <2>2
<1>4. CASE Mapped(m) /\ ParentConflicts[c] \subseteq ConflictIDs(m) /\ c \notin ConflictIDs(m)
    <2> DEFINE u == <<m[1], m[2], cs>>
               th == [r EXCEPT !.pc = "set", !.markers = r.markers \ {m}, !.setting = {u}]
    <2>1. /\ fork' = [fork EXCEPT ![c] = th]
          /\ mapping' = [mapping EXCEPT ![m[1]] = [i \in DOMAIN @ \ {m[2]} |-> @[i]]]
        BY <1>4 DEF ForkSingleMarker
    <2>2. m[1] \in DOMAIN mapping
        BY <1>4 DEF Mapped
    <2>3. PICK x \in Owner(m) : Approves(x, c)
        BY <1>2, <1>3
    <2>4. x \in Block /\ Above(x, m)
        BY <2>3 DEF Owner, MarkersInv, MarkersMade
    <2>5. ConflictIDs(m) \subseteq Approved(x)
        BY <1>3, <1>4, <2>4, ConflictIDsApproved
    <2>6. cs \subseteq Approved(x) /\ cs \in SUBSET Conflict
        BY <1>1, <2>3, <2>5 DEF Approved, Approves
    <2>7. Justified(<<u[1], u[2]>>, u[3])
        <3> HIDE DEF cs
        <3> QED BY <1>3, <2>3, <2>6 DEF Justified
    <2>8. <<u[1], u[2]>> \in r.pushedMarkers /\ u[1] \in DOMAIN mapping
        BY <1>3, <2>2
    <2>9. u \in SequenceIDs \X MarkerIndex \X SUBSET Conflict
        BY <1>3, <2>6
    <2> HIDE DEF u, r
    <2>10. /\ th.pc = "set" /\ th.markers = r.markers \ {m} /\ th.setting = {u} /\ th.queue = r.queue
           /\ th.pushed = r.pushed /\ th.locked = r.locked /\ th.pushedMarkers = r.pushedMarkers
        BY <1>2 DEF ForkState
    <2>11. th \in ForkState
        BY <1>2, <2>9 DEF ForkState
    <2> HIDE DEF th
    <2>12. DOMAIN mapping' = DOMAIN mapping
        BY <2>1
    <2>13. /\ th.queue \subseteq th.pushed /\ th.markers \subseteq th.pushedMarkers
           /\ \A y \in th.pushed \cup th.locked : Approves(y, c)
           /\ \A k \in th.pushedMarkers : \E y \in Owner(k) : Approves(y, c)
           /\ \A v \in th.setting : /\ <<v[1], v[2]>> \in th.pushedMarkers /\ v[1] \in DOMAIN mapping
                                    /\ Justified(<<v[1], v[2]>>, v[3])
        BY <1>2, <2>7, <2>8, <2>10
    <2>17. /\ th.locked # {} <=> th.pc \in {"marker", "set"}
           /\ th.pc # "idle" /\ (th.pc # "set" => th.setting = {})
        BY <1>1, <1>2, <2>10
    <2>14. MarkersInv' /\ Grows /\ ForksApproved' /\ ReferencingAbove'
        BY <1>1, <2>1, <2>11, <2>12, <2>13, <2>17, ForkStep
    <2>15. MappingJustified'
        BY <2>1, <2>2, <2>14, MappingDeleted
    <2>16. BlocksApproved'
        <3>1. \A b : Approved(b) \subseteq Approved(b)'
            BY <2>14, ApprovedGrows DEF Grows
        <3> QED BY <1>1, <3>1 DEF BlocksApproved
    <2> QED BY <2>14, <2>15, <2>16
<1>5. CASE ~(Mapped(m) /\ ParentConflicts[c] \subseteq ConflictIDs(m) /\ c \notin ConflictIDs(m))
    <2> DEFINE th == [r EXCEPT !.markers = r.markers \ {m}]
    <2>1. /\ fork' = [fork EXCEPT ![c] = th] /\ UNCHANGED mapping
        BY <1>5 DEF ForkSingleMarker
    <2> HIDE DEF r
    <2>2. /\ th.pc = r.pc /\ th.markers = r.markers \ {m} /\ th.setting = r.setting /\ th.queue = r.queue
          /\ th.pushed = r.pushed /\ th.locked = r.locked /\ th.pushedMarkers = r.pushedMarkers
        BY <1>2 DEF ForkState
    <2>3. th \in ForkState
        BY <1>2 DEF ForkState
    <2> HIDE DEF th
    <2>4. MarkersInv' /\ Grows /\ ForksApproved' /\ ReferencingAbove'
        BY <1>1, <1>2, <2>1, <2>2, <2>3, ForkStep
    <2> QED BY <1>1, <2>1, <2>4, ApprovedKept
<1> QED
    BY <1>4, <1>5

(* The fork goes to later markers and to referencing ones, which are above the marker that it sets. *)
LEMMA SetApproved ==
    ASSUME MarkersInv, ApprovedInv, NEW c \in Conflict, SetForkedMarker(c)
    PROVE  MarkersInv' /\ ApprovedInv'
<1> USE DEF ApprovedInv, ForksApproved
<1> DEFINE r == fork[c]
<1>1. /\ r.pc = "set"
      /\ UNCHANGED <<markerVars, added, subtracted, booked, booking, panicked>>
    BY DEF SetForkedMarker
<1>2. /\ r \in ForkState /\ r.queue \subseteq r.pushed /\ r.markers \subseteq r.pushedMarkers
      /\ (r.locked # {} <=> r.pc \in {"marker", "set"}) /\ \A x \in r.pushed \cup r.locked : Approves(x, c)
      /\ \A k \in r.pushedMarkers : \E x \in Owner(k) : Approves(x, c)
      /\ \A u \in r.setting : /\ <<u[1], u[2]>> \in r.pushedMarkers /\ u[1] \in DOMAIN mapping
                              /\ Justified(<<u[1], u[2]>>, u[3])
    BY DEF ForkApproved
<1>3. PICK u \in r.setting :
        LET m     == <<u[1], u[2]>>
            later == {<<m[1], i>> : i \in {j \in DOMAIN mapping[m[1]] : j > m[2]}}
            next  == later \cup {n \in ReferencingMarkers(m) : n[1] # m[1]}
        IN  /\ mapping' = WithMapping(m, u[3])
            /\ fork' = [fork EXCEPT ![c].pc = "marker", ![c].setting = {},
                                    ![c].markers = @ \cup (next \ fork[c].pushedMarkers),
                                    ![c].pushedMarkers = @ \cup next]
    BY DEF SetForkedMarker
<1> DEFINE m     == <<u[1], u[2]>>
           later == {<<m[1], i>> : i \in {j \in DOMAIN mapping[m[1]] : j > m[2]}}
           next  == later \cup {n \in ReferencingMarkers(m) : n[1] # m[1]}
           th    == [r EXCEPT !.pc = "marker", !.setting = {},
                              !.markers = r.markers \cup (next \ r.pushedMarkers),
                              !.pushedMarkers = r.pushedMarkers \cup next]
<1>4. mapping' = WithMapping(m, u[3]) /\ fork' = [fork EXCEPT ![c] = th]
    BY <1>3
<1>5. /\ m \in r.pushedMarkers /\ m \in Made /\ m[1] \in DOMAIN mapping /\ m[1] \in DOMAIN sequences
      /\ Justified(m, u[3]) /\ u[3] \subseteq Conflict /\ (\E x \in Owner(m) : Approves(x, c)) /\ m[2] \in Nat
    <2>1. m \in r.pushedMarkers /\ m[1] \in DOMAIN mapping /\ Justified(m, u[3])
        BY <1>2
    <2>2. m \in Made /\ u[3] \subseteq Conflict
        BY <1>2, <2>1 DEF ForkState
    <2> HIDE DEF m
    <2>3. m[1] \in DOMAIN sequences /\ m[2] \in Nat
        BY <2>2, MadeTyped DEF MarkersInv, MarkersMade
    <2>4. \E x \in Owner(m) : Approves(x, c)
        BY <1>2, <2>1
    <2> QED BY <2>1, <2>2, <2>3, <2>4
<1> HIDE DEF m
<1>6. ASSUME NEW n \in next PROVE n \in Made /\ \E y \in Owner(n) : Approves(y, c)
    <2>1. CASE n \in later
        <3>1. PICK i \in DOMAIN mapping[m[1]] : i > m[2] /\ n = <<m[1], i>>
            BY <2>1
        <3>2. n \in Made
            BY <1>5, <3>1 DEF MappingJustified
        <3>3. n[1] = m[1] /\ n[2] = i /\ i \in Nat
            BY <3>1, <3>2, MadeTyped
        <3>4. n # <<0, 0>>
            BY <1>5, <3>1, <3>3
        <3>5. PICK y \in Owner(n) : TRUE
            BY <3>2, <3>4 DEF Made
        <3>6. y \in Block /\ Above(y, <<m[1], i>>)
            BY <3>1, <3>5 DEF Owner, MarkersInv, MarkersMade
        <3>7. Approves(y, c)
            BY <1>5, <3>1, <3>3, <3>6, OwnersBelow DEF MarkersInv
        <3> QED BY <3>2, <3>5, <3>7
    <2>2. CASE n \in ReferencingMarkers(m)
        <3>1. PICK e \in sequences[m[1]].referencing : e[1] >= m[2] /\ n = e[2]
            BY <2>2 DEF ReferencingMarkers
        <3>2. e \in Nat \X Marker
            BY <1>5 DEF MarkersInv, MarkersMade, Sequence
        <3>3. PICK y \in Owner(n) : Above(y, <<m[1], e[1]>>)
            BY <1>5, <3>1 DEF ReferencingAbove
        <3>4. n \in Made /\ y \in Block
            BY <3>1, <3>2, <3>3 DEF Made, Owner
        <3>5. Approves(y, c)
            BY <1>5, <3>1, <3>2, <3>3, <3>4, OwnersBelow DEF MarkersInv
        <3> QED BY <3>3, <3>4, <3>5
    <2> QED BY <2>1, <2>2
<1> HIDE DEF next
<1>7. next \in SUBSET Made
    BY <1>6
<1> HIDE DEF r
<1>8. /\ th.pc = "marker" /\ th.markers = r.markers \cup (next \ r.pushedMarkers) /\ th.setting = {}
      /\ th.queue = r.queue /\ th.pushed = r.pushed /\ th.locked = r.locked
      /\ th.pushedMarkers = r.pushedMarkers \cup next
    BY <1>2 DEF ForkState
<1>9. th \in ForkState
    BY <1>2, <1>7 DEF ForkState
<1> HIDE DEF th
<1>10. /\ th.queue \subseteq th.pushed /\ th.markers \subseteq th.pushedMarkers
       /\ \A y \in th.pushed \cup th.locked : Approves(y, c)
       /\ \A k \in th.pushedMarkers : \E y \in Owner(k) : Approves(y, c)
       /\ \A v \in th.setting : /\ <<v[1], v[2]>> \in th.pushedMarkers /\ v[1] \in DOMAIN mapping
                                /\ Justified(<<v[1], v[2]>>, v[3])
    BY <1>2, <1>6, <1>8
<1>11. DOMAIN mapping' = DOMAIN mapping \cup {m[1]}
    BY <1>4, MappingSet
<1>16. /\ th.locked # {} <=> th.pc \in {"marker", "set"}
       /\ th.pc # "idle" /\ (th.pc # "set" => th.setting = {})
    BY <1>1, <1>2, <1>8
<1>12. MarkersInv' /\ Grows /\ ForksApproved' /\ ReferencingAbove'
    BY <1>1, <1>4, <1>9, <1>10, <1>11, <1>16, ForkStep
<1>13. \A b : Approved(b) \subseteq Approved(b)'
    BY <1>12, ApprovedGrows DEF Grows
<1>14. MappingJustified'
    <2>1. ASSUME NEW k, NEW es, k = m, es = u[3] PROVE MappingJustified'
        <3>1. Justified(k, es) /\ k \in Made
            BY <1>5, <2>1
        <3>2. Justified(k, es)' /\ k \in Made' /\ k[1] \in DOMAIN sequences'
            BY <1>5, <1>12, <2>1, <3>1, JustifiedGrows DEF Grows
        <3> QED BY <1>4, <1>5, <1>12, <2>1, <3>2, MappingAssigned
    <2> QED BY <2>1
<1>15. BlocksApproved'
    BY <1>1, <1>13 DEF BlocksApproved
<1> QED
    BY <1>12, <1>14, <1>15

(* LeaveMarker and EndFork *)
LEMMA LeaveApproved ==
    ASSUME MarkersInv, ApprovedInv, NEW c \in Conflict, LeaveMarker(c) \/ EndFork(c)
    PROVE  MarkersInv' /\ ApprovedInv'
<1> USE DEF ApprovedInv, ForksApproved
<1> DEFINE r == fork[c]
<1>1. UNCHANGED <<markerVars, mapping, added, subtracted, booked, booking, panicked>>
    BY DEF LeaveMarker, EndFork
<1>2. /\ r \in ForkState /\ r.queue \subseteq r.pushed /\ r.markers \subseteq r.pushedMarkers
      /\ (r.locked # {} <=> r.pc \in {"marker", "set"}) /\ \A x \in r.pushed \cup r.locked : Approves(x, c)
      /\ \A k \in r.pushedMarkers : \E x \in Owner(k) : Approves(x, c)
      /\ r.pc \in {"marker", "walk"} => r.setting = {}
    BY DEF ForkApproved
<1>3. CASE LeaveMarker(c)
    <2>1. r.pc = "marker"
        BY <1>3 DEF LeaveMarker
    <2>2. PICK b \in r.locked : fork' = [fork EXCEPT ![c] =
                                    [Push(@, b, StrongChildren(b)) EXCEPT !.pc = "walk", !.locked = {}]]
        BY <1>3 DEF LeaveMarker
    <2> DEFINE S == StrongChildren(b)
               p == Push(r, b, S)
               th == [p EXCEPT !.pc = "walk", !.locked = {}]
    <2>3. fork' = [fork EXCEPT ![c] = th]
        BY <2>2
    <2>4. S \in SUBSET Block /\ \A x \in S : Approves(x, c)
        <3>1. b \in Block /\ Approves(b, c)
            BY <1>2 DEF ForkState
        <3> QED BY <3>1, ChildrenApprove DEF StrongChildren
    <2> HIDE DEF r, S
    <2>5. /\ p.queue = (r.queue \ {b}) \cup (S \ r.pushed) /\ p.pushed = r.pushed \cup S
          /\ p.markers = r.markers /\ p.pushedMarkers = r.pushedMarkers /\ p.setting = r.setting
          /\ p \in ForkState
        BY <1>2, <2>4 DEF Push, ForkState
    <2> HIDE DEF p
    <2>6. /\ th.pc = "walk" /\ th.locked = {} /\ th.queue = p.queue /\ th.pushed = p.pushed
          /\ th.markers = p.markers /\ th.pushedMarkers = p.pushedMarkers /\ th.setting = p.setting
          /\ th \in ForkState
        BY <2>5 DEF ForkState
    <2> HIDE DEF th
    <2>7. MarkersInv' /\ Grows /\ ForksApproved' /\ ReferencingAbove'
        BY <1>1, <1>2, <2>1, <2>3, <2>4, <2>5, <2>6, ForkStep
    <2> QED BY <1>1, <2>7, ApprovedKept
<1>4. CASE EndFork(c)
    <2> DEFINE th == [r EXCEPT !.pc = "done"]
    <2>1. fork' = [fork EXCEPT ![c] = th] /\ r.pc = "walk"
        BY <1>4 DEF EndFork
    <2> HIDE DEF r
    <2>2. /\ th.pc = "done" /\ th.markers = r.markers /\ th.setting = r.setting /\ th.queue = r.queue
          /\ th.pushed = r.pushed /\ th.locked = r.locked /\ th.pushedMarkers = r.pushedMarkers
          /\ th \in ForkState
        BY <1>2 DEF ForkState
    <2> HIDE DEF th
    <2>3. MarkersInv' /\ Grows /\ ForksApproved' /\ ReferencingAbove'
        BY <1>1, <1>2, <2>1, <2>2, ForkStep
    <2> QED BY <1>1, <2>3, ApprovedKept
<1> QED
    BY <1>3, <1>4

-----------------------------------------------------------------------------
(* The invariant of the specification. *)

(* The markers at the start. *)
LEMMA InitMarkersInv == InitBooker => MarkersInv
<1> SUFFICES ASSUME InitBooker PROVE MarkersInv
    OBVIOUS
<1> USE DEF InitBooker, InitMarkers
<1> DEFINE first == [lowestIndex |-> 0, highestIndex |-> 0, referenced |-> {}, referencing |-> {}]
<1>1. first \in Sequence /\ first.highestIndex = 0 /\ first.referenced = {} /\ first.referencing = {}
    BY DEF Sequence
<1>2. DOMAIN sequences = {0} /\ sequences[0] = first
    <2> HIDE DEF first
    <2> QED BY DEF first
<1> HIDE DEF first
<1>3. \A b \in Block : details[b] = NoMarkers
    OBVIOUS
<1>4. Placed = {} /\ \A m : Owner(m) = {}
    BY <1>3 DEF Placed, Owner, NoMarkers
<1>5. Cardinality(Block) \in Nat
    BY MarkersAssumption, FS_CardinalityType
<1>6. Made = {<<0, 0>>}
    BY <1>4, <1>5 DEF Made, Marker, SequenceIDs, MarkerIndex
<1>7. \A b \in Block : booking[b] = NotBooking
    OBVIOUS
<1>8. BookingsFollow
    BY <1>3, <1>4, <1>7 DEF BookingsFollow, NotBooking
<1>9. MarkersMade
    <2>1. Cardinality(Placed) = 0
        BY <1>4, FS_EmptySet
    <2>2. DOMAIN sequences = 0 .. 0
        BY <1>2
    <2>3. \A s \in DOMAIN sequences :
            sequences[s] \in Sequence /\ sequences[s].highestIndex <= Cardinality(Placed)
        BY <1>1, <1>2, <2>1
    <2>4. \A m \in Made : m[1] \in DOMAIN sequences /\ m[2] <= sequences[m[1]].highestIndex
        BY <1>1, <1>2, <1>6
    <2>5. NoMarkers \in StructureDetails /\ NoMarkers.pastMarkers = {} /\ ~NoMarkers.isPastMarker
        BY DEF NoMarkers, StructureDetails
    <2>6. details \in [Block -> StructureDetails]
        BY <2>5
    <2>7. \E k \in 0 .. Cardinality(Placed) : DOMAIN sequences = 0 .. k
        BY <2>1, <2>2
    <2>8. \A b \in Block : details[b].pastMarkers = {} /\ ~details[b].isPastMarker
        BY <1>3, <2>5
    <2> QED BY <2>3, <2>4, <2>6, <2>7, <2>8 DEF MarkersMade
<1>10. ReferencesBelow
    BY <1>1, <1>2 DEF ReferencesBelow
<1>11. MarkersCovered
    BY <1>4 DEF MarkersCovered
<1> QED
    BY <1>8, <1>9, <1>10, <1>11 DEF MarkersInv

(* The conflicts at the start. *)
LEMMA InitApproved == InitBooker => ApprovedInv
<1> SUFFICES ASSUME InitBooker PROVE ApprovedInv
    OBVIOUS
<1> USE DEF InitBooker, InitMarkers
<1>1. DOMAIN sequences = {0} /\ \A s \in DOMAIN sequences : sequences[s].referencing = {}
    OBVIOUS
<1>2. <<0, 0>> \in Made
    <2>1. Cardinality(Block) \in Nat
        BY MarkersAssumption, FS_CardinalityType
    <2> QED BY <2>1 DEF Made, Marker, SequenceIDs, MarkerIndex
<1>3. DOMAIN mapping = {0} /\ DOMAIN mapping[0] = {0} /\ mapping[0][0] = {}
    OBVIOUS
<1>4. MappingJustified
    BY <1>1, <1>2, <1>3 DEF MappingJustified, Justified
<1>5. \A b \in Block : booking[b].register = {} /\ booking[b].inherited = {}
    BY DEF NotBooking
<1>6. ReferencingAbove
    BY <1>1, <1>5 DEF ReferencingAbove
<1>7. BlocksApproved
    BY <1>5 DEF BlocksApproved
<1>8. NotForking \in ForkState
    BY DEF NotForking, ForkState
<1>9. ForksApproved
    BY <1>8 DEF ForksApproved, ForkApproved, NotForking
<1> QED
    BY <1>4, <1>6, <1>7, <1>9 DEF ApprovedInv

(* No step of the booker breaks the invariant. *)
LEMMA NextKeeps == BookerInv /\ NextBooker => BookerInv'
<1> SUFFICES ASSUME BookerInv, NextBooker PROVE BookerInv'
    OBVIOUS
<1> USE DEF BookerInv
<1>1. ASSUME NEW b \in Block, DetermineBookingDetails(b) PROVE BookerInv'
    BY <1>1, DetermineApproved DEF DetermineBookingDetails
<1>2. ASSUME NEW b \in Block, InheritStructureDetails(b) PROVE BookerInv'
    <2>1. Inherits(b)
        BY <1>2, InheritsMarkers
    <2>2. MarkersMade' /\ ReferencesBelow'
        BY <2>1, InheritsMade, InheritsReferences DEF MarkersInv
    <2>3. MarkersCovered'
        BY <2>1, <2>2, InheritsCovers
    <2> QED BY <1>2, <2>2, <2>3, InheritDetailsApproved DEF InheritStructureDetails
<1>3. ASSUME NEW b \in Block, RegisterReferencingMarker(b) PROVE BookerInv'
    BY <1>3, RegisterApproved DEF RegisterReferencingMarker
<1>4. ASSUME NEW b \in Block, InheritConflictIDs(b) PROVE BookerInv'
    <2>1. panicked' \in BOOLEAN
        BY <1>4 DEF InheritConflictIDs
    <2> QED BY <1>4, <2>1, InheritConflictsApproved
<1>5. ASSUME NEW c \in Conflict, StartFork(c) PROVE BookerInv'
    BY <1>5, StartApproved DEF StartFork
<1>6. ASSUME NEW c \in Conflict, NEW b \in Block, PropagateForkedConflict(c, b) PROVE BookerInv'
    <2>1. panicked' = panicked
        BY <1>6 DEF PropagateForkedConflict
    <2> QED BY <1>6, <2>1, PropagateApproved
<1>7. ASSUME NEW c \in Conflict, NEW m, ForkSingleMarker(c, m) PROVE BookerInv'
    <2>1. panicked' \in BOOLEAN
        BY <1>7 DEF ForkSingleMarker
    <2> QED BY <1>7, <2>1, SingleApproved
<1>8. ASSUME NEW c \in Conflict, SetForkedMarker(c) PROVE BookerInv'
    <2>1. panicked' = panicked
        BY <1>8 DEF SetForkedMarker
    <2> QED BY <1>8, <2>1, SetApproved
<1>9. ASSUME NEW c \in Conflict, LeaveMarker(c) \/ EndFork(c) PROVE BookerInv'
    <2>1. panicked' = panicked
        BY <1>9 DEF LeaveMarker, EndFork
    <2> QED BY <1>9, <2>1, LeaveApproved
<1> QED
    BY <1>1, <1>2, <1>3, <1>4, <1>5, <1>6, <1>7, <1>8, <1>9 DEF NextBooker

(* Nor does a step of anything else. *)
LEMMA StutterKeeps == BookerInv /\ UNCHANGED bookerVars => BookerInv'
<1> SUFFICES ASSUME BookerInv, UNCHANGED bookerVars PROVE BookerInv'
    OBVIOUS
<1>1. /\ UNCHANGED markerVars /\ mapping' = mapping /\ added' = added /\ subtracted' = subtracted
      /\ booked' = booked /\ booking' = booking /\ fork' = fork /\ panicked' = panicked
    BY DEF bookerVars
<1>2. details' = details /\ sequences' = sequences
    BY <1>1 DEF markerVars
<1>3. /\ Placed' = Placed /\ Made' = Made /\ (\A m : Owner(m)' = Owner(m))
      /\ (\A b, m : Above(b, m)' <=> Above(b, m))
      /\ MarkersMade' /\ ReferencesBelow' /\ MarkersCovered'
    BY <1>1, MarkersKept DEF BookerInv, MarkersInv
<1>4. BookingsFollow'
    BY <1>1, <1>2, <1>3 DEF BookerInv, MarkersInv, BookingsFollow
<1>5. Grows
    BY <1>1, <1>2, <1>3 DEF Grows, ForksGoOn
<1>6. ForksApproved'
    BY <1>1, <1>5, ForksKept DEF BookerInv, ApprovedInv
<1>7. ReferencingAbove'
    BY <1>1, <1>2, <1>3 DEF ReferencingAbove, BookerInv, ApprovedInv
<1>8. ApprovedInv'
    BY <1>1, <1>5, <1>6, <1>7, ApprovedKept DEF BookerInv, ApprovedInv
<1> QED
    BY <1>1, <1>3, <1>4, <1>8 DEF BookerInv, MarkersInv

(***************************************************************************)
(* Bookings of any blocks that race for the next index of a sequence, and  *)
(* forks that walk over their markers meanwhile, keep BookerInv.           *)
(***************************************************************************)
THEOREM BookerInvariant == SpecBooker => []BookerInv
<1>1. InitBooker => BookerInv
    BY InitMarkersInv, InitApproved DEF BookerInv, InitBooker
<1>2. BookerInv /\ [NextBooker]_bookerVars => BookerInv'
    BY NextKeeps, StutterKeeps
<1> QED
    BY <1>1, <1>2, PTL DEF SpecBooker

(***************************************************************************)
(* A sequence has no more indexes than there are blocks, mappings are of   *)
(* markers that exist, bookings and forks hold the locks of their step.    *)
(***************************************************************************)
THEOREM BookerTypes == SpecBooker => []BookerTypeOK
<1>1. BookerInv => BookerTypeOK
    <2> SUFFICES ASSUME BookerInv PROVE BookerTypeOK
        OBVIOUS
    <2> USE DEF BookerInv, MarkersInv, ApprovedInv
    <2>1. MarkersTypeOK
        <3>1. PICK k \in 0 .. Cardinality(Placed) : DOMAIN sequences = 0 .. k
            BY DEF MarkersMade
        <3>2. Cardinality(Placed) \in Nat /\ Cardinality(Block) \in Nat /\ Cardinality(Placed) <= Cardinality(Block)
            <4>1. Placed \subseteq Block
                BY DEF Placed
            <4> QED BY <4>1, MarkersAssumption, FS_Subset, FS_CardinalityType
        <3>3. DOMAIN sequences \subseteq SequenceIDs
            BY <3>1, <3>2 DEF SequenceIDs
        <3> QED BY <3>3 DEF MarkersTypeOK, MarkersMade
    <2>2. /\ DOMAIN mapping \subseteq DOMAIN sequences
          /\ \A s \in DOMAIN mapping : \A i \in DOMAIN mapping[s] :
                <<s, i>> \in Marker /\ mapping[s][i] \subseteq Conflict
        BY DEF MappingJustified, Made
    <2>3. \A b \in booked : StrongParents[b] \subseteq booked /\ details[b].pastMarkers # {}
        BY DEF BookingsFollow, Placed
    <2>4. \A b \in Block : /\ booking[b].pc \in {"idle", "inherit", "register", "conflicts"}
                           /\ booking[b].inherited \subseteq Conflict
                           /\ booking[b].register # {} => booking[b].pc = "register"
        BY DEF BookingsFollow
    <2>5. ASSUME NEW c \in Conflict
          PROVE  /\ fork[c].pc \in {"idle", "walk", "marker", "set", "done"}
                 /\ fork[c].queue \subseteq fork[c].pushed /\ fork[c].pushed \subseteq Block
                 /\ fork[c].markers \subseteq fork[c].pushedMarkers /\ fork[c].pushedMarkers \subseteq Marker
                 /\ fork[c].locked # {} <=> fork[c].pc \in {"marker", "set"}
        <3>1. fork[c] \in ForkState /\ ForkApproved(c)
            BY DEF ForksApproved
        <3> DEFINE r == fork[c]
        <3>2. r.pc \in {"idle", "walk", "marker", "set", "done"} /\ r.pushed \subseteq Block /\ r.pushedMarkers \subseteq Made
            <4>1. r \in ForkState
                BY <3>1
            <4> HIDE DEF r
            <4> QED BY <4>1 DEF ForkState
        <3>3. Made \subseteq Marker
            BY DEF Made
        <3> QED BY <3>1, <3>2, <3>3 DEF ForkApproved
    <2> QED BY <2>1, <2>2, <2>3, <2>4, <2>5 DEF BookerTypeOK, BlocksApproved
<1> QED
    BY <1>1, BookerInvariant, PTL

(***************************************************************************)
(* Markers never lie: the markers that a walk from a booked block covers   *)
(* are those of its past cone.                                             *)
(***************************************************************************)
THEOREM MarkersAreSound == SpecBooker => []MarkersFollowPastCone
<1>1. BookerInv => MarkersFollowPastCone
    <2> SUFFICES ASSUME BookerInv, NEW b \in booked, NEW x \in booked, details[x].isPastMarker,
                        NEW m \in details[x].pastMarkers
                 PROVE  Covers(b, m) <=> x \in PastCone[b]
        BY DEF MarkersFollowPastCone
    <2> USE DEF BookerInv, MarkersInv
    <2>1. b \in Placed /\ x \in Block /\ b \in Block
        BY DEF BookingsFollow, Placed
    <2>2. m \in Made /\ x \in Owner(m) /\ m = <<m[1], m[2]>> /\ m[2] \in Nat
        <3>1. m \in Made /\ x \in Owner(m)
            BY <2>1 DEF MarkersMade, Owner
        <3> QED BY <3>1, MadeTyped
    <2>3. ASSUME Covers(b, m) PROVE x \in PastCone[b]
        <3> DEFINE D == details[b].pastMarkers
        <3>1. D \in SUBSET Made /\ \A n \in D : Above(b, n)
            BY <2>1 DEF MarkersMade
        <3>2. PICK n \in D \cup Referenced(D) : n[1] = m[1] /\ m[2] <= n[2]
            BY <2>3 DEF Covers
        <3> HIDE DEF D
        <3>3. n \in Made /\ Above(b, n)
            BY <2>1, <3>1, <3>2, ReferencedAbove
        <3>4. n[2] \in Nat
            BY <3>3, MadeTyped
        <3> QED BY <2>1, <2>2, <3>2, <3>3, <3>4, AboveOwner
    <2>4. ASSUME x \in PastCone[b] PROVE Covers(b, m)
        BY <2>1, <2>4 DEF MarkersCovered
    <2> QED BY <2>3, <2>4
<1> QED
    BY <1>1, BookerInvariant, PTL

(* No booked block has the conflict of a transaction that it does not approve. *)
THEOREM ConflictsAreApproved == SpecBooker => []OnlyApprovedConflicts
<1>1. BookerInv => OnlyApprovedConflicts
    <2> SUFFICES ASSUME BookerInv, NEW b \in booked, Known(details[b])
                 PROVE  BlockConflictIDs(b) \subseteq Approved(b)
        BY DEF OnlyApprovedConflicts
    <2>1. b \in Block
        BY DEF BookerInv, MarkersInv, BookingsFollow, Placed
    <2> QED BY <2>1, BlockConflictsApproved DEF BookerInv, MarkersInv, ApprovedInv
<1> QED
    BY <1>1, BookerInvariant, PTL

-----------------------------------------------------------------------------
(* What a change of the mapping leaves to other markers. *)

(* The indexes of the mapping up to n. *)
UpTo(n) == {i \in DOMAIN mapping[n[1]] : i <= n[2]}

(* They are numbers. *)
LEMMA UpToNumbers ==
    ASSUME MappingJustified, NEW n, n[2] \in Nat, n[1] \in DOMAIN mapping
    PROVE  UpTo(n) \in SUBSET (0 .. n[2]) /\ \A i \in DOMAIN mapping[n[1]] : i \in Nat
<1>1. \A i \in DOMAIN mapping[n[1]] : i \in Nat
    <2> SUFFICES ASSUME NEW i \in DOMAIN mapping[n[1]] PROVE i \in Nat
        OBVIOUS
    <2>1. <<n[1], i>> \in Made
        BY DEF MappingJustified
    <2> QED BY <2>1, MadeTyped
<1> QED
    BY <1>1 DEF UpTo

(* A marker has the conflicts of the greatest one, *)
LEMMA HasUpTo ==
    ASSUME NEW n, NEW c
    PROVE  MarkerHas(n, c) <=> n[1] \in DOMAIN mapping /\ UpTo(n) # {} /\ c \in mapping[n[1]][Max(UpTo(n))]
    BY DEF MarkerHas, Mapped, ConflictIDs, UpTo

(* also in the next state. *)
LEMMA HasUpToNext ==
    ASSUME NEW n, NEW c
    PROVE  MarkerHas(n, c)' <=> /\ n[1] \in DOMAIN mapping' /\ UpTo(n)' # {}
                                /\ c \in mapping'[n[1]][Max(UpTo(n)')]
    BY DEF MarkerHas, Mapped, ConflictIDs, UpTo

(* The greatest of two sets of numbers is the same when the smaller set has it. *)
LEMMA SameMax ==
    ASSUME NEW k \in Nat, NEW T \in SUBSET (0 .. k), NEW U \in SUBSET T, NEW j \in U, \A i \in T : i <= j
    PROVE  Max(U) = j /\ Max(T) = j
<1>1. U \in SUBSET (0 .. k) /\ U # {} /\ T # {} /\ j \in T
    OBVIOUS
<1>2. Max(U) \in U /\ \A i \in U : i <= Max(U)
    BY <1>1, MaxOfNumbers
<1>3. Max(T) \in T /\ \A i \in T : i <= Max(T)
    BY <1>1, MaxOfNumbers
<1>6. \A i \in T : i \in Nat
    OBVIOUS
<1>4. j \in Nat /\ Max(U) \in Nat /\ Max(T) \in Nat
    BY <1>1, <1>2, <1>3, <1>6
<1>5. j <= Max(U) /\ Max(U) <= j /\ j <= Max(T) /\ Max(T) <= j
    BY <1>1, <1>2, <1>3
<1> QED
    BY <1>4, <1>5

(* A mapping that is set at m is otherwise the old one. *)
LEMMA MappingSetNext ==
    ASSUME NEW m, NEW cs, mapping' = WithMapping(m, cs)
    PROVE  /\ DOMAIN mapping' = DOMAIN mapping \cup {m[1]}
           /\ \A s \in DOMAIN mapping : s # m[1] => mapping'[s] = mapping[s]
           /\ m[2] \in DOMAIN mapping'[m[1]] /\ mapping'[m[1]][m[2]] = cs
           /\ \A i \in DOMAIN mapping'[m[1]] : i # m[2] =>
                m[1] \in DOMAIN mapping /\ i \in DOMAIN mapping[m[1]] /\ mapping'[m[1]][i] = mapping[m[1]][i]
           /\ m[1] \in DOMAIN mapping => \A i \in DOMAIN mapping[m[1]] : i \in DOMAIN mapping'[m[1]]
<1> DEFINE new == WithMapping(m, cs)
<1>1. /\ DOMAIN new = DOMAIN mapping \cup {m[1]}
      /\ \A s \in DOMAIN mapping : s # m[1] => new[s] = mapping[s]
      /\ m[2] \in DOMAIN new[m[1]] /\ new[m[1]][m[2]] = cs
      /\ \A i \in DOMAIN new[m[1]] : i # m[2] =>
            m[1] \in DOMAIN mapping /\ i \in DOMAIN mapping[m[1]] /\ new[m[1]][i] = mapping[m[1]][i]
      /\ m[1] \in DOMAIN mapping => \A i \in DOMAIN mapping[m[1]] : i \in DOMAIN new[m[1]]
    BY MappingSet
<1>2. mapping' = new
    OBVIOUS
<1> HIDE DEF new
<1> QED
    BY <1>1, <1>2

(* A mapping that is set at m leaves the earlier markers and the other sequences alone, *)
LEMMA SetBehind ==
    ASSUME MappingJustified, NEW m \in Made, NEW cs, mapping' = WithMapping(m, cs),
           NEW n, n[2] \in Nat, n[1] # m[1] \/ n[2] < m[2], NEW c, MarkerHas(n, c)
    PROVE  MarkerHas(n, c)'
<1>1. n[1] \in DOMAIN mapping /\ UpTo(n) # {} /\ c \in mapping[n[1]][Max(UpTo(n))]
    BY HasUpTo
<1>2. /\ DOMAIN mapping' = DOMAIN mapping \cup {m[1]}
      /\ \A s \in DOMAIN mapping : s # m[1] => mapping'[s] = mapping[s]
      /\ \A i \in DOMAIN mapping'[m[1]] : i # m[2] =>
            m[1] \in DOMAIN mapping /\ i \in DOMAIN mapping[m[1]] /\ mapping'[m[1]][i] = mapping[m[1]][i]
      /\ m[1] \in DOMAIN mapping => \A i \in DOMAIN mapping[m[1]] : i \in DOMAIN mapping'[m[1]]
    BY MappingSetNext
<1>3. UpTo(n) \in SUBSET (0 .. n[2]) /\ \A i \in DOMAIN mapping[n[1]] : i \in Nat
    BY <1>1, UpToNumbers
<1>4. m[2] \in Nat
    BY MadeTyped
<1>5. UpTo(n)' = UpTo(n) /\ \A i \in UpTo(n) : mapping'[n[1]][i] = mapping[n[1]][i]
    <2>1. CASE n[1] # m[1]
        BY <1>1, <1>2, <2>1 DEF UpTo
    <2>2. CASE n[1] = m[1] /\ n[2] < m[2]
        <3>1. ~(m[2] <= n[2])
            BY <1>4, <2>2
        <3>2. UpTo(n)' \subseteq UpTo(n) /\ UpTo(n) \subseteq UpTo(n)'
            BY <1>1, <1>2, <2>2, <3>1 DEF UpTo
        <3>3. \A i \in UpTo(n) : i # m[2] /\ i \in DOMAIN mapping'[m[1]]
            BY <1>1, <1>2, <2>2, <3>1 DEF UpTo
        <3> QED BY <1>2, <2>2, <3>2, <3>3
    <2> QED BY <2>1, <2>2
<1>6. Max(UpTo(n)) \in UpTo(n)
    BY <1>1, <1>3, MaxOfNumbers
<1>7. mapping'[n[1]][Max(UpTo(n)')] = mapping[n[1]][Max(UpTo(n))]
    BY <1>5, <1>6
<1> QED
    BY <1>1, <1>2, <1>5, <1>7, HasUpToNext

(* and takes from no marker what it has itself. *)
LEMMA SetGives ==
    ASSUME MappingJustified, NEW m \in Made, NEW cs, mapping' = WithMapping(m, cs), NEW c \in cs
    PROVE  MarkerHas(m, c)' /\ \A n : n[2] \in Nat /\ MarkerHas(n, c) => MarkerHas(n, c)'
<1>1. /\ DOMAIN mapping' = DOMAIN mapping \cup {m[1]}
      /\ m[2] \in DOMAIN mapping'[m[1]] /\ mapping'[m[1]][m[2]] = cs
      /\ \A i \in DOMAIN mapping'[m[1]] : i # m[2] =>
            m[1] \in DOMAIN mapping /\ i \in DOMAIN mapping[m[1]] /\ mapping'[m[1]][i] = mapping[m[1]][i]
      /\ m[1] \in DOMAIN mapping => \A i \in DOMAIN mapping[m[1]] : i \in DOMAIN mapping'[m[1]]
    BY MappingSetNext
<1>2. m[2] \in Nat
    BY MadeTyped
<1>3. \A i \in DOMAIN mapping'[m[1]] : i \in Nat
    <2>1. \A i \in DOMAIN mapping'[m[1]] : i = m[2] \/ (m[1] \in DOMAIN mapping /\ i \in DOMAIN mapping[m[1]])
        BY <1>1
    <2> QED BY <1>2, <2>1, UpToNumbers
(* From m on, the greatest index is m's own or stays. *)
<1>4. ASSUME NEW n, n[2] \in Nat, n[1] = m[1], m[2] <= n[2],
             n = m \/ MarkerHas(n, c)
      PROVE  MarkerHas(n, c)'
    <2>1. UpTo(n)' \in SUBSET (0 .. n[2]) /\ m[2] \in UpTo(n)'
        BY <1>1, <1>2, <1>3, <1>4 DEF UpTo
    <2>2. Max(UpTo(n)') \in UpTo(n)' /\ \A i \in UpTo(n)' : i <= Max(UpTo(n)')
        BY <1>4, <2>1, MaxOfNumbers
    <2> DEFINE k == Max(UpTo(n)')
    <2>3. k \in DOMAIN mapping'[m[1]] /\ k <= n[2] /\ k \in Nat
        BY <1>3, <1>4, <2>2 DEF UpTo
    <2> HIDE DEF k
    <2>4. CASE k = m[2]
        BY <1>1, <1>4, <2>1, <2>4, HasUpToNext DEF k
    <2>5. CASE k # m[2]
        <3>1. m[1] \in DOMAIN mapping /\ k \in DOMAIN mapping[m[1]] /\ mapping'[m[1]][k] = mapping[m[1]][k]
            BY <1>1, <2>3, <2>5
        <3>2. UpTo(n) \in SUBSET (0 .. n[2]) /\ k \in UpTo(n)
            BY <1>4, <2>3, <3>1, UpToNumbers DEF UpTo
        <3>3. UpTo(n) \subseteq UpTo(n)'
            BY <1>1, <1>4, <3>1 DEF UpTo
        <3>4. \A i \in UpTo(n) : i <= k
            BY <2>2, <3>3 DEF k
        <3>5. Max(UpTo(n)) = k
            BY <1>4, <3>2, <3>4, SameMax
        <3>6. MarkerHas(n, c)
            <4>1. n # m
                <5>1. ASSUME n = m PROVE FALSE
                    <6>1. k <= m[2] /\ m[2] <= k
                        BY <2>1, <2>2, <2>3, <5>1 DEF k
                    <6> QED BY <1>2, <2>3, <2>5, <6>1
                <5> QED BY <5>1
            <4> QED BY <1>4, <4>1
        <3>7. c \in mapping[m[1]][k]
            BY <1>4, <3>5, <3>6, HasUpTo
        <3> QED BY <1>1, <1>4, <2>1, <3>1, <3>7, HasUpToNext DEF k
    <2> QED BY <2>4, <2>5
<1>5. MarkerHas(m, c)'
    <2>1. m[2] <= m[2]
        BY <1>2
    <2> QED BY <1>2, <1>4, <2>1
<1>6. ASSUME NEW n, n[2] \in Nat, MarkerHas(n, c) PROVE MarkerHas(n, c)'
    <2>1. CASE n[1] # m[1] \/ n[2] < m[2]
        BY <1>6, <2>1, SetBehind
    <2>2. CASE n[1] = m[1] /\ m[2] <= n[2]
        BY <1>4, <1>6, <2>2
    <2> QED BY <1>2, <1>6, <2>1, <2>2
<1> QED
    BY <1>5, <1>6

(* A mapping that is deleted at m leaves the earlier markers and the other sequences alone, *)
LEMMA DeletedBehind ==
    ASSUME MappingJustified, NEW m \in Made, m[1] \in DOMAIN mapping,
           mapping' = [mapping EXCEPT ![m[1]] = [i \in DOMAIN @ \ {m[2]} |-> @[i]]],
           NEW n, n[2] \in Nat, NEW c, MarkerHas(n, c), n[1] = m[1] => Max(UpTo(n)) # m[2]
    PROVE  MarkerHas(n, c)'
<1> DEFINE f == [i \in DOMAIN mapping[m[1]] \ {m[2]} |-> mapping[m[1]][i]]
           k == Max(UpTo(n))
<1>1. mapping' = [mapping EXCEPT ![m[1]] = f]
    OBVIOUS
<1>2. DOMAIN f = DOMAIN mapping[m[1]] \ {m[2]} /\ \A i \in DOMAIN f : f[i] = mapping[m[1]][i]
    OBVIOUS
<1> HIDE DEF f
<1>3. /\ DOMAIN mapping' = DOMAIN mapping /\ mapping'[m[1]] = f
      /\ \A s \in DOMAIN mapping : s # m[1] => mapping'[s] = mapping[s]
    BY <1>1
<1>4. n[1] \in DOMAIN mapping /\ UpTo(n) # {} /\ c \in mapping[n[1]][k]
    BY HasUpTo
<1>5. UpTo(n) \in SUBSET (0 .. n[2])
    BY <1>4, UpToNumbers
<1>6. k \in UpTo(n) /\ \A i \in UpTo(n) : i <= k
    BY <1>4, <1>5, MaxOfNumbers
<1>7. n[1] = m[1] => k # m[2]
    OBVIOUS
<1> HIDE DEF k
<1>8. UpTo(n)' \subseteq UpTo(n) /\ k \in UpTo(n)' /\ mapping'[n[1]][k] = mapping[n[1]][k]
    <2>1. CASE n[1] # m[1]
        BY <1>3, <1>4, <1>6, <2>1 DEF UpTo
    <2>2. CASE n[1] = m[1]
        BY <1>2, <1>3, <1>4, <1>6, <1>7, <2>2 DEF UpTo
    <2> QED BY <2>1, <2>2
<1>9. Max(UpTo(n)') = k
    BY <1>5, <1>6, <1>8, SameMax
<1> QED
    BY <1>3, <1>4, <1>8, <1>9, HasUpToNext

(* and takes from no marker what m did not have. *)
LEMMA DeletedTakes ==
    ASSUME MappingJustified, NEW m \in Made, Mapped(m),
           mapping' = [mapping EXCEPT ![m[1]] = [i \in DOMAIN @ \ {m[2]} |-> @[i]]],
           NEW c, c \notin ConflictIDs(m), NEW n, n[2] \in Nat, MarkerHas(n, c)
    PROVE  MarkerHas(n, c)'
<1>1. m[1] \in DOMAIN mapping /\ m[2] \in Nat
    BY MadeTyped DEF Mapped
<1>2. n[1] \in DOMAIN mapping /\ UpTo(n) # {} /\ c \in mapping[n[1]][Max(UpTo(n))]
    BY HasUpTo
<1>3. UpTo(n) \in SUBSET (0 .. n[2]) /\ UpTo(m) \in SUBSET (0 .. m[2])
    BY <1>1, <1>2, UpToNumbers
<1>4. Max(UpTo(n)) \in UpTo(n)
    BY <1>2, <1>3, MaxOfNumbers
<1>5. ASSUME n[1] = m[1], Max(UpTo(n)) = m[2] PROVE FALSE
    <2>1. m[2] \in UpTo(m) /\ \A i \in UpTo(m) : i <= m[2]
        BY <1>1, <1>4, <1>5 DEF UpTo
    <2>2. Max(UpTo(m)) = m[2]
        BY <1>1, <1>3, <2>1, SameMax
    <2>3. ConflictIDs(m) = mapping[m[1]][m[2]]
        BY <2>2 DEF ConflictIDs, UpTo
    <2> QED BY <1>2, <1>5, <2>3
<1> QED
    BY <1>1, <1>5, DeletedBehind

-----------------------------------------------------------------------------
(* The forks reach the blocks. *)

(* What is undisturbed was so before. *)
LEMMA UndisturbedBefore ==
    ASSUME ForksGoOn, \A x \in Block : subtracted[x] \subseteq subtracted'[x],
           NEW c \in Conflict, fork'[c].pc # "idle" => fork[c].pc # "idle",
           NEW b \in Block, Undisturbed(b, c)'
    PROVE  Undisturbed(b, c)
<1>1. Approved(b) \subseteq Approved(b)' /\ Approved(b)' = {c}
    BY ApprovedGrows DEF Undisturbed
<1>2. c \in Approved(b)
    <2>1. c \in Approved(b)'
        BY <1>1
    <2> QED BY <2>1 DEF Approved
<1>3. Approved(b) = {c}
    BY <1>1, <1>2
<1>4. \A x \in PastCone[b] : c \notin subtracted[x]
    BY PastConeClosed DEF Undisturbed
<1> QED
    BY <1>3, <1>4 DEF Undisturbed

(* A block below an undisturbed one that approves the conflict is undisturbed. *)
LEMMA UndisturbedBelow ==
    ASSUME NEW c \in Conflict, NEW b \in Block, Undisturbed(b, c), NEW x \in PastCone[b], Approves(x, c)
    PROVE  Undisturbed(x, c)
<1>1. PastCone[x] \subseteq PastCone[b] /\ Approved(x) \subseteq Approved(b)
    BY PastConeClosed, ApprovedBelow
<1>2. c \in Approved(x)
    BY DEF Approved, Approves, Undisturbed
<1> QED
    BY <1>1, <1>2 DEF Undisturbed

(* What booked blocks, and their markers, keep of c. *)
Stays(c) ==
    /\ \A x \in booked : x \in Block /\ details'[x] = details[x]
    /\ \A x \in Block : Undisturbed(x, c)' =>
        /\ Undisturbed(x, c)
        /\ x \in booked => /\ \A n \in details[x].pastMarkers : MarkerHas(n, c) => MarkerHas(n, c)'
                           /\ BlockHas(x, c) => BlockHas(x, c)'

(* When it is kept: booked blocks add no less, and their markers lose nothing. *)
LEMMA StaysWith ==
    ASSUME ForksGoOn, \A x \in Block : subtracted[x] \subseteq subtracted'[x],
           NEW c \in Conflict, fork'[c].pc # "idle" => fork[c].pc # "idle",
           booked \subseteq Block,
           \A x \in booked : details'[x] = details[x] /\ (c \in added[x] => c \in added'[x]),
           \A x \in booked : Undisturbed(x, c) => \A n \in details[x].pastMarkers : MarkerHas(n, c) => MarkerHas(n, c)'
    PROVE  Stays(c)
<1> SUFFICES ASSUME NEW x \in Block, Undisturbed(x, c)'
             PROVE  /\ Undisturbed(x, c)
                    /\ x \in booked => /\ \A n \in details[x].pastMarkers : MarkerHas(n, c) => MarkerHas(n, c)'
                                       /\ BlockHas(x, c) => BlockHas(x, c)'
    BY DEF Stays
<1>1. Undisturbed(x, c)
    BY UndisturbedBefore
<1>2. c \notin subtracted'[x]
    BY PastConeClosed DEF Undisturbed
<1>3. ASSUME x \in booked, BlockHas(x, c) PROVE BlockHas(x, c)'
    <2>1. \A n \in details[x].pastMarkers : MarkerHas(n, c) => MarkerHas(n, c)'
        BY <1>1, <1>3
    <2>2. c \in added'[x] \/ \E n \in details'[x].pastMarkers : MarkerHas(n, c)'
        BY <1>3, <2>1 DEF BlockHas
    <2> QED BY <1>2, <2>2 DEF BlockHas
<1> QED
    BY <1>1, <1>3

(* When the mapping stays, markers have what they had. *)
LEMMA HasKept ==
    ASSUME mapping' = mapping, NEW n, NEW c
    PROVE  MarkerHas(n, c)' <=> MarkerHas(n, c)
    BY DEF MarkerHas, Mapped, ConflictIDs

(* The marker that a fork is at stays reached when the fork waits. *)
LEMMA MarkerStaysReached ==
    ASSUME NEW c \in Conflict, Stays(c), fork'[c] = fork[c], booked \subseteq booked', MarkerReached(c)
    PROVE  MarkerReached(c)'
<1> SUFFICES ASSUME NEW b \in fork[c].locked
             PROVE  /\ b \in booked' /\ details'[b].isPastMarker
                    /\ Undisturbed(b, c)' => \A m \in details'[b].pastMarkers :
                            m \in fork[c].markers \/ MarkerHas(m, c)'
                            \/ \E u \in fork[c].setting : <<u[1], u[2]>> = m
    BY DEF MarkerReached
<1>1. b \in booked /\ details[b].isPastMarker /\ details'[b] = details[b] /\ b \in Block
    BY DEF MarkerReached, Stays
<1>2. ASSUME Undisturbed(b, c)', NEW m \in details[b].pastMarkers
      PROVE  m \in fork[c].markers \/ MarkerHas(m, c)' \/ \E u \in fork[c].setting : <<u[1], u[2]>> = m
    <2>1. Undisturbed(b, c) /\ (MarkerHas(m, c) => MarkerHas(m, c)')
        BY <1>1, <1>2 DEF Stays
    <2> QED BY <2>1 DEF MarkerReached
<1> QED
    BY <1>1, <1>2

(* A block stays settled when it has been booked, *)
LEMMA BookedStaysSettled ==
    ASSUME NEW c \in Conflict, Stays(c), NEW b \in Block, Settled(b, c), b \in booked, booking'[b].pc = "idle"
    PROVE  Settled(b, c)'
<1> SUFFICES ASSUME Undisturbed(b, c)' PROVE BlockHas(b, c)'
    BY DEF Settled
<1> QED
    BY DEF Settled, Stays

(* or when its booking has not begun or goes on. *)
LEMMA UnbookedStaysSettled ==
    ASSUME NEW c \in Conflict, Stays(c), NEW b \in Block, Settled(b, c), b \notin booked',
           booking'[b].pc # "idle" /\ Undisturbed(b, c)' =>
                c \in booking'[b].inherited
                \/ (booking[b].pc # "idle" /\ booking'[b].inherited = booking[b].inherited)
    PROVE  Settled(b, c)'
<1> SUFFICES ASSUME Undisturbed(b, c)', booking'[b].pc # "idle" PROVE c \in booking'[b].inherited
    BY DEF Settled
<1>1. Undisturbed(b, c)
    BY DEF Stays
<1> QED
    BY <1>1 DEF Settled

(* A step that leaves the fork alone, and starts bookings with what they find at most. *)
LEMMA OthersReach ==
    ASSUME NEW c \in Conflict, Stays(c), fork'[c] = fork[c], fork[c].queue \subseteq Block, booked' = booked,
           \A x \in booked : booking'[x].pc = "idle",
           ForkReaches(c),
           \A x \in Block : booking[x].pc # "idle" =>
                booking'[x].pc # "idle" /\ booking'[x].inherited = booking[x].inherited,
           \A S \in SUBSET Block : Reaches(c, S) => \A x \in S :
                booking[x].pc = "idle" /\ booking'[x].pc # "idle" /\ Undisturbed(x, c)' => c \in booking'[x].inherited,
           \A x \in Block : c \in added'[x] => c \in added[x]
    PROVE  ForkReaches(c)'
<1>1. MarkerReached(c)'
    BY MarkerStaysReached DEF ForkReaches
<1>2. PICK S \in SUBSET Block : Reaches(c, S)
    BY DEF ForkReaches
<1>3. ASSUME NEW b \in S PROVE Settled(b, c)'
    <2>1. Settled(b, c) /\ b \in Block
        BY <1>2 DEF Reaches
    <2>2. CASE b \in booked
        BY <2>1, <2>2, BookedStaysSettled
    <2>3. CASE b \notin booked
        <3>1. booking'[b].pc # "idle" /\ Undisturbed(b, c)' =>
                c \in booking'[b].inherited
                \/ (booking[b].pc # "idle" /\ booking'[b].inherited = booking[b].inherited)
            BY <1>2, <2>1
        <3> QED BY <2>1, <2>3, <3>1, UnbookedStaysSettled
    <2> QED BY <2>2, <2>3
<1>4. \A b \in S \cup fork[c].queue : b \in booked \/ booking'[b].pc # "idle" \/ b \in Attachments[c]
                                        \/ StrongParents[b] \cap S # {}
    BY <1>2 DEF Reaches
<1>5. Reaches(c, S)'
    BY <1>2, <1>3, <1>4 DEF Reaches, Approves
<1> QED
    BY <1>1, <1>5 DEF ForkReaches

(* The parts of a fork. *)
LEMMA ForkTyped ==
    ASSUME BookerInv, NEW c \in Conflict
    PROVE  /\ fork[c] \in ForkState /\ ForkApproved(c)
           /\ fork[c].queue \subseteq Block /\ fork[c].locked \subseteq Block /\ fork[c].pushed \subseteq Block
           /\ fork[c].pushedMarkers \subseteq Made
<1> DEFINE r == fork[c]
<1>1. r \in ForkState /\ ForkApproved(c)
    BY DEF BookerInv, ApprovedInv, ForksApproved
<1>2. r.queue \subseteq Block /\ r.locked \subseteq Block /\ r.pushed \subseteq Block /\ r.pushedMarkers \subseteq Made
    <2> HIDE DEF r
    <2> QED BY <1>1 DEF ForkState
<1> QED
    BY <1>1, <1>2

(* A booked block is booked by nobody. *)
LEMMA BookedIdle ==
    ASSUME BookerInv
    PROVE  booked \subseteq Block /\ booked \subseteq Placed /\ \A x \in booked : booking[x].pc = "idle"
    BY DEF BookerInv, MarkersInv, BookingsFollow, Placed

(* A step that leaves the forks alone leaves their shape. *)
LEMMA ShapeKept ==
    ASSUME NEW c \in Conflict, fork'[c] = fork[c], ForkShape(c)
    PROVE  ForkShape(c)'
    BY DEF ForkShape

(***************************************************************************)
(* A booking that finds all it needs inherits c from a parent that has it, *)
(* or from the payload.                                                    *)
(***************************************************************************)
LEMMA InheritsReached ==
    ASSUME BookerInv, NEW b \in Block, DetermineBookingDetails(b), ~panicked', NEW c \in Conflict,
           NEW S \in SUBSET Block, Reaches(c, S), b \in S, Undisturbed(b, c)
    PROVE  c \in booking'[b].inherited
<1> DEFINE inherited == PayloadConflictIDs(b) \cup UNION {BlockConflictIDs(p) : p \in StrongParents[b]}
           th == [NotBooking EXCEPT !.pc = "inherit", !.inherited = inherited]
<1>1. /\ booking[b].pc = "idle" /\ b \notin booked /\ StrongParents[b] \subseteq booked
      /\ \A p \in StrongParents[b] : Known(details[p])
      /\ booking' = [booking EXCEPT ![b] = th]
    BY DEF DetermineBookingDetails
<1>2. booking'[b].inherited = inherited
    <2>1. booking'[b] = th
        BY <1>1 DEF BookerInv, MarkersInv, BookingsFollow
    <2> HIDE DEF inherited
    <2>2. th.inherited = inherited
        BY DEF NotBooking
    <2> QED BY <2>1, <2>2
<1>3. b \in Attachments[c] \/ StrongParents[b] \cap S # {}
    BY <1>1 DEF Reaches
<1>4. CASE b \in Attachments[c]
    <2>1. fork[c].pc # "idle"
        BY DEF Undisturbed, Approved
    <2> QED BY <1>2, <1>4, <2>1 DEF PayloadConflictIDs
<1>5. ASSUME NEW p \in StrongParents[b], p \in S PROVE c \in BlockConflictIDs(p)
    <2>1. p \in Block /\ p \in booked /\ Known(details[p]) /\ p \in PastCone[b] /\ Approves(p, c) /\ Settled(p, c)
        BY <1>1, <1>5, MarkersAssumption, PastConeClosed DEF Reaches
    <2>2. BlockHas(p, c)
        BY <2>1, UndisturbedBelow DEF Settled
    <2> QED BY <2>2 DEF BlockHas, BlockConflictIDs, PastMarkersConflictIDs, MarkerHas
<1> QED
    BY <1>2, <1>3, <1>4, <1>5

(* DetermineBookingDetails *)
LEMMA DetermineReaches ==
    ASSUME ReachInv, ~panicked, NEW b \in Block, DetermineBookingDetails(b)
    PROVE  ForksReach'
<1> USE DEF ReachInv
<1>1. /\ UNCHANGED <<markerVars, mapping, added, subtracted, booked, fork>> /\ details' = details
      /\ booking[b].pc = "idle" /\ b \notin booked
    BY DEF DetermineBookingDetails, markerVars
<1>2. \A x \in Block : x # b => booking'[x] = booking[x]
    BY DetermineFollows DEF BookerInv
<1>3. booked \subseteq Block /\ \A x \in booked : booking'[x].pc = "idle"
    BY <1>1, <1>2, BookedIdle
<1>4. SubtractedLast'
    BY <1>1 DEF ForksReach, SubtractedLast
<1>5. ASSUME NEW c \in Conflict, ParentConflicts[c] = {}, ~panicked' PROVE ForkReaches(c)'
    <2>1. Stays(c)
        <3>1. ForksGoOn
            BY <1>1 DEF ForksGoOn
        <3> QED BY <1>1, <1>3, <3>1, StaysWith, HasKept
    <2>2. ForkReaches(c)
        BY <1>5 DEF ForksReach
    <2>3. ASSUME NEW S \in SUBSET Block, Reaches(c, S), NEW x \in S,
                 booking[x].pc = "idle", booking'[x].pc # "idle", Undisturbed(x, c)'
          PROVE  c \in booking'[x].inherited
        <3>1. x = b
            BY <1>2, <2>3
        <3>2. Undisturbed(x, c)
            BY <2>1, <2>3 DEF Stays
        <3> QED BY <1>5, <2>3, <3>1, <3>2, InheritsReached
    <2>4. \A x \in Block : booking[x].pc # "idle" =>
                booking'[x].pc # "idle" /\ booking'[x].inherited = booking[x].inherited
        BY <1>1, <1>2
    <2>5. fork[c].queue \subseteq Block /\ fork'[c] = fork[c] /\ booked' = booked /\ added' = added
        BY <1>1, ForkTyped
    <2> QED BY <1>3, <2>1, <2>2, <2>3, <2>4, <2>5, OthersReach
<1> QED
    BY <1>1, <1>4, <1>5, ShapeKept DEF ForksReach

(* The steps on the markers. *)
LEMMA DetailsReach ==
    ASSUME ReachInv, ~panicked, NEW b \in Block, InheritStructureDetails(b) \/ RegisterReferencingMarker(b)
    PROVE  ForksReach'
<1> USE DEF ReachInv
<1>1. /\ UNCHANGED <<mapping, added, subtracted, booked, fork, panicked>>
    BY DEF InheritStructureDetails, RegisterReferencingMarker
<1>2. /\ \A x \in Block : x # b => booking'[x] = booking[x]
      /\ booking[b].pc # "idle" /\ booking'[b].pc # "idle" /\ booking'[b].inherited = booking[b].inherited
      /\ \A x \in booked : details'[x] = details[x]
    <2>1. CASE InheritStructureDetails(b)
        <3>1. PICK past : PlacedWith(b, past)
            BY <2>1, InheritsMarkers DEF Inherits, BookerInv
        <3>2. b \notin Placed /\ booked \subseteq Placed /\ Placed \subseteq Block
            BY <3>1, BookedIdle DEF PlacedWith, Placed
        <3>3. \A x \in booked : details'[x] = details[x]
            BY <3>1, <3>2 DEF PlacedWith
        <3>4. booking[b].pc = "inherit"
            BY <2>1 DEF InheritStructureDetails
        <3>5. /\ booking'[b].inherited = booking[b].inherited /\ booking'[b].pc = "register"
              /\ \A x \in Block : x # b => booking'[x] = booking[x]
            BY <2>1, InheritFollows DEF BookerInv
        <3> QED BY <3>3, <3>4, <3>5
    <2>2. CASE RegisterReferencingMarker(b)
        <3>1. /\ details' = details /\ booking'[b].inherited = booking[b].inherited
              /\ booking[b].pc = "register" /\ booking'[b].pc \in {"register", "conflicts"}
              /\ \A x \in Block : x # b => booking'[x] = booking[x]
            BY <2>2, RegisterFollows DEF BookerInv
        <3> QED BY <3>1
    <2> QED BY <2>1, <2>2
<1>3. booked \subseteq Block /\ \A x \in booked : booking'[x].pc = "idle"
    BY <1>2, BookedIdle
<1>4. SubtractedLast'
    BY <1>1 DEF ForksReach, SubtractedLast
<1>5. ASSUME NEW c \in Conflict, ParentConflicts[c] = {}, ~panicked' PROVE ForkReaches(c)'
    <2>1. Stays(c)
        <3>1. ForksGoOn
            BY <1>1 DEF ForksGoOn
        <3> QED BY <1>1, <1>2, <1>3, <3>1, StaysWith, HasKept
    <2>2. ForkReaches(c)
        BY <1>5 DEF ForksReach
    <2>3. \A x \in Block : booking[x].pc = "idle" => booking'[x].pc = "idle"
        BY <1>2
    <2>4. \A x \in Block : booking[x].pc # "idle" =>
                booking'[x].pc # "idle" /\ booking'[x].inherited = booking[x].inherited
        BY <1>2
    <2>5. fork[c].queue \subseteq Block /\ fork'[c] = fork[c] /\ booked' = booked /\ added' = added
        BY <1>1, ForkTyped
    <2> QED BY <1>3, <2>1, <2>2, <2>3, <2>4, <2>5, OthersReach
<1> QED
    BY <1>1, <1>4, <1>5, ShapeKept DEF ForksReach

-----------------------------------------------------------------------------
(* The blocks above a block. *)

(* The blocks above b. *)
FutureCone(b) == {x \in Block : b \in PastCone[x]}

(* They hold their children, and approve what b approves. *)
LEMMA FutureConeClosed ==
    ASSUME NEW b \in Block
    PROVE  /\ b \in FutureCone(b) /\ FutureCone(b) \subseteq Block
           /\ \A x \in FutureCone(b) : StrongChildren(x) \subseteq FutureCone(b)
           /\ \A x \in FutureCone(b) : x = b \/ StrongParents[x] \cap FutureCone(b) # {}
           /\ \A c : Approves(b, c) => \A x \in FutureCone(b) : Approves(x, c)
<1>1. b \in FutureCone(b) /\ FutureCone(b) \subseteq Block
    BY PastConeClosed DEF FutureCone
<1>2. ASSUME NEW x \in FutureCone(b), NEW y \in StrongChildren(x) PROVE y \in FutureCone(b)
    BY PastConeClosed DEF FutureCone, StrongChildren
<1>3. ASSUME NEW x \in FutureCone(b), x # b PROVE StrongParents[x] \cap FutureCone(b) # {}
    <2>1. x \in Block /\ b \in PastCone[x]
        BY DEF FutureCone
    <2>2. PICK p \in StrongParents[x] : b \in PastCone[p]
        BY <1>3, <2>1, PastConeUnfolds
    <2>3. p \in Block
        BY <2>1, MarkersAssumption
    <2> QED BY <2>2, <2>3 DEF FutureCone
<1>4. ASSUME NEW c, Approves(b, c), NEW x \in FutureCone(b) PROVE Approves(x, c)
    <2>1. x \in Block /\ b \in PastCone[x]
        BY DEF FutureCone
    <2>2. PastCone[b] \subseteq PastCone[x]
        BY <2>1, PastConeClosed
    <2> QED BY <1>4, <2>2 DEF Approves
<1> QED
    BY <1>1, <1>2, <1>3, <1>4

(* Nothing above a block is booked before it. *)
LEMMA FutureUnbooked ==
    ASSUME BookerInv, NEW b \in Block, b \notin booked, NEW x \in FutureCone(b)
    PROVE  x \notin booked /\ (x # b => booking[x].pc = "idle")
<1>1. x \in Block /\ b \in PastCone[x]
    BY DEF FutureCone
<1>2. BookingsFollow /\ booked \subseteq Placed
    BY DEF BookerInv, MarkersInv, BookingsFollow
<1>3. x \notin booked
    BY <1>1, <1>2, PlacedOnBooked
<1>4. ASSUME x # b, booking[x].pc # "idle" PROVE FALSE
    <2>1. PICK p \in StrongParents[x] : b \in PastCone[p]
        BY <1>1, <1>4, PastConeUnfolds
    <2>2. p \in booked
        BY <1>1, <1>2, <1>4, <2>1 DEF BookingsFollow
    <2> QED BY <1>2, <2>1, <2>2, PlacedOnBooked
<1> QED
    BY <1>3, <1>4

(* What is above a block that the fork comes to, or that is booked, when it was not: the fork reaches it. *)
LEMMA FutureReached ==
    ASSUME BookerInv, NEW b \in Block, b \notin booked, NEW c \in Conflict, Stays(c),
           NEW S \in SUBSET Block, Reaches(c, S), NEW F,
           F = {} \/ (F = FutureCone(b) /\ Approves(b, c)),
           b \in S \cup F => Settled(b, c)',
           F = {} => fork'[c].queue = fork[c].queue /\ (c \in added'[b] => c \in added[b]),
           fork'[c].queue \subseteq fork[c].queue, fork[c].queue \subseteq fork'[c].queue \cup {b},
           fork'[c].locked = fork[c].locked, fork'[c].pushed = fork[c].pushed, fork'[c].pc = fork[c].pc,
           booked \subseteq booked', booked' \subseteq booked \cup {b},
           \A x \in Block : x # b => booking'[x] = booking[x] /\ (c \in added'[x] => c \in added[x]),
           b \in booked' \/ booking'[b].pc # "idle" \/ b \in Attachments[c] \/ StrongParents[b] \cap S # {}
    PROVE  \E T \in SUBSET Block : Reaches(c, T)'
<1> DEFINE T == S \cup F
<1>1. T \in SUBSET Block /\ (F # {} => b \in T)
    BY FutureConeClosed
<1>2. \A x \in F : StrongChildren(x) \subseteq F /\ Approves(x, c) /\ (x = b \/ StrongParents[x] \cap F # {})
    BY FutureConeClosed
<1>3. fork[c].queue \subseteq Block /\ booked \subseteq Block /\ \A x \in booked : booking[x].pc = "idle"
    BY ForkTyped, BookedIdle
<1>4. ASSUME NEW x \in T PROVE Approves(x, c) /\ Settled(x, c)'
    <2>1. Approves(x, c)
        BY <1>2 DEF Reaches
    <2>2. CASE x = b
        BY <2>1, <2>2
    <2>3. CASE x # b /\ x \in F
        <3>1. x \notin booked' /\ booking'[x].pc = "idle"
            BY <1>1, <2>3, FutureUnbooked
        <3> QED BY <2>1, <3>1 DEF Settled
    <2>4. CASE x # b /\ x \in S
        <3>1. x \in Block /\ Settled(x, c) /\ booking'[x] = booking[x]
            BY <2>4 DEF Reaches
        <3>2. CASE x \in booked
            <4>1. booking'[x].pc = "idle"
                BY <1>3, <3>1, <3>2
            <4> QED BY <2>1, <3>1, <3>2, <4>1, BookedStaysSettled
        <3>3. CASE x \notin booked
            <4>1. x \notin booked'
                BY <2>4, <3>3
            <4>2. booking'[x].pc # "idle" => booking[x].pc # "idle" /\ booking'[x].inherited = booking[x].inherited
                BY <3>1
            <4> QED BY <2>1, <3>1, <4>1, <4>2, UnbookedStaysSettled
        <3> QED BY <3>2, <3>3
    <2> QED BY <2>1, <2>2, <2>3, <2>4
<1>5. fork[c].queue \subseteq T \cup fork'[c].queue
    BY <1>1
<1>6. \A x \in T : StrongChildren(x) \subseteq T \cup fork'[c].queue \cup fork'[c].locked
    <2>1. \A x \in S : StrongChildren(x) \subseteq S \cup fork[c].queue \cup fork[c].locked
        BY DEF Reaches
    <2> HIDE DEF T
    <2>2. S \subseteq T /\ F \subseteq T /\ T \subseteq S \cup F
        BY DEF T
    <2> QED BY <1>2, <1>5, <2>1, <2>2
<1>7. fork'[c].pushed \subseteq T \cup fork'[c].queue \cup fork'[c].locked
    BY <1>5 DEF Reaches
<1>8. fork'[c].pc # "idle" => Attachments[c] \subseteq fork'[c].pushed
    BY DEF Reaches
<1>9. ASSUME NEW x \in T \cup fork'[c].queue
      PROVE  x \in booked' \/ booking'[x].pc # "idle" \/ x \in Attachments[c] \/ StrongParents[x] \cap T # {}
    <2>1. CASE x = b
        BY <2>1
    <2>2. CASE x # b /\ x \in F
        BY <1>2, <2>2
    <2>3. CASE x # b /\ x \in S \cup fork[c].queue
        <3>1. x \in booked \/ booking[x].pc # "idle" \/ x \in Attachments[c] \/ StrongParents[x] \cap S # {}
            BY <2>3 DEF Reaches
        <3>2. x \in Block
            BY <1>3, <2>3
        <3> QED BY <2>3, <3>1, <3>2
    <2> QED BY <2>1, <2>2, <2>3
<1>10. \A x \in Block : c \in added'[x] => x \in T
    <2>1. \A x \in Block : c \in added[x] => x \in S
        BY DEF Reaches
    <2> QED BY <1>1, <2>1
<1> HIDE DEF T
<1>11. Reaches(c, T)'
    BY <1>4, <1>6, <1>7, <1>8, <1>9, <1>10 DEF Reaches, Approves
<1> QED
    BY <1>1, <1>11

(* The marker of a block that is being booked is not below what a booked block has inherited. *)
LEMMA OwnNotBelow ==
    ASSUME BookerInv, NEW b \in Block, b \notin booked, details[b].isPastMarker, NEW m \in details[b].pastMarkers,
           NEW x \in booked, NEW n \in details[x].pastMarkers
    PROVE  m \in Made /\ n[2] \in Nat /\ (n[1] # m[1] \/ n[2] < m[2])
<1>1. x \in Block /\ x \in Placed
    BY BookedIdle
<1>2. m \in Made /\ b \in Owner(m) /\ n \in Made /\ Above(x, n)
    BY <1>1 DEF BookerInv, MarkersInv, MarkersMade, Owner
<1>3. m = <<m[1], m[2]>> /\ m[2] \in Nat /\ n[2] \in Nat
    BY <1>2, MadeTyped
<1>4. ASSUME n[1] = m[1], m[2] <= n[2] PROVE FALSE
    <2>1. b \in Owner(<<n[1], m[2]>>)
        BY <1>2, <1>3, <1>4
    <2>2. b \in PastCone[x]
        BY <1>1, <1>2, <1>3, <1>4, <2>1, AboveOwner
    <2>3. BookingsFollow
        BY DEF BookerInv, MarkersInv
    <2> QED BY <1>1, <2>2, <2>3, PlacedOnBooked
<1> QED
    BY <1>2, <1>3, <1>4

(* A booking stores what it has inherited, unless the markers have it already. *)
LEMMA StoresInherited ==
    ASSUME BookerInv, NEW b \in Block, InheritConflictIDs(b), ~panicked', NEW c \in booking[b].inherited,
           c \notin subtracted'[b]
    PROVE  BlockHas(b, c)'
<1> DEFINE d == details[b]
           inherited == booking[b].inherited
           created == d.isPastMarker /\ \A n \in d.pastMarkers : n[1] \notin DOMAIN mapping
           past == IF Known(d) THEN PastMarkersConflictIDs(d) ELSE {}
           m == CHOOSE n \in d.pastMarkers : TRUE
<1>1. /\ created \/ Known(d)
      /\ mapping' = IF d.isPastMarker /\ (created \/ past # inherited) THEN SetConflictIDs(m, inherited) ELSE mapping
      /\ added' = [added EXCEPT ![b] = IF d.isPastMarker THEN @ ELSE inherited \ past]
    BY DEF InheritConflictIDs
<1>2. /\ UNCHANGED <<markerVars, fork>> /\ b \in Placed
    BY InheritConflictsFollow DEF BookerInv
<1>3. details'[b] = d /\ d.pastMarkers # {}
    BY <1>2 DEF markerVars, Placed
<1>4. ASSUME mapping' = mapping, Known(d), c \in past PROVE \E n \in d.pastMarkers : MarkerHas(n, c)'
    <2>1. PICK n \in d.pastMarkers : c \in ConflictIDs(n) /\ Mapped(n)
        BY <1>4 DEF PastMarkersConflictIDs, Known
    <2>2. MarkerHas(n, c)
        BY <2>1 DEF MarkerHas
    <2> QED BY <1>4, <2>2, HasKept
<1>5. CASE d.isPastMarker /\ (created \/ past # inherited)
    <2>1. m \in d.pastMarkers /\ mapping' = SetConflictIDs(m, inherited)
        BY <1>1, <1>3, <1>5
    <2> HIDE DEF m
    <2>2. CASE Mapped(m) /\ ConflictIDs(m) = inherited
        <3>1. mapping' = mapping /\ MarkerHas(m, c)
            BY <2>1, <2>2 DEF SetConflictIDs, MarkerHas
        <3>2. \E n \in d.pastMarkers : MarkerHas(n, c)'
            BY <2>1, <3>1, HasKept
        <3> QED BY <1>3, <3>2 DEF BlockHas
    <2>3. CASE ~(Mapped(m) /\ ConflictIDs(m) = inherited)
        <3>1. mapping' = WithMapping(m, inherited)
            BY <2>1, <2>3 DEF SetConflictIDs
        <3>2. m \in Made /\ MappingJustified
            BY <2>1 DEF BookerInv, MarkersInv, MarkersMade, ApprovedInv
        <3>3. ASSUME NEW k, k = m PROVE MarkerHas(k, c)'
            BY <3>1, <3>2, <3>3, SetGives
        <3>4. \E n \in d.pastMarkers : MarkerHas(n, c)'
            BY <2>1, <3>3
        <3> QED BY <1>3, <3>4 DEF BlockHas
    <2> QED BY <2>2, <2>3
<1>6. CASE d.isPastMarker /\ ~(created \/ past # inherited)
    <2>1. mapping' = mapping /\ Known(d) /\ c \in past
        BY <1>1, <1>6
    <2>2. \E n \in d.pastMarkers : MarkerHas(n, c)'
        BY <1>4, <2>1
    <2> QED BY <1>3, <2>2 DEF BlockHas
<1>7. CASE ~d.isPastMarker
    <2>1. mapping' = mapping /\ Known(d) /\ added' = [added EXCEPT ![b] = inherited \ past]
        BY <1>1, <1>7
    <2>2. added'[b] = inherited \ past
        BY <2>1 DEF BookerInv, ApprovedInv, BlocksApproved
    <2>3. CASE c \in past
        <3>1. \E n \in d.pastMarkers : MarkerHas(n, c)'
            BY <1>4, <2>1, <2>3
        <3> QED BY <1>3, <3>1 DEF BlockHas
    <2>4. CASE c \notin past
        <3>1. c \in added'[b]
            BY <2>2, <2>4
        <3> QED BY <3>1 DEF BlockHas
    <2> QED BY <2>3, <2>4
<1> QED
    BY <1>5, <1>6, <1>7

(* InheritConflictIDs *)
LEMMA InheritConflictsReach ==
    ASSUME ReachInv, ~panicked, NEW b \in Block, InheritConflictIDs(b)
    PROVE  ForksReach'
<1> USE DEF ReachInv
<1> DEFINE d == details[b]
           inherited == booking[b].inherited
           past == IF Known(d) THEN PastMarkersConflictIDs(d) ELSE {}
           m == CHOOSE n \in d.pastMarkers : TRUE
<1>1. /\ Grows /\ UNCHANGED <<markerVars, fork>> /\ b \in Placed
      /\ booking[b].pc = "conflicts" /\ booking'[b] = NotBooking /\ booked' = booked \cup {b}
      /\ \A x \in Block : x # b => booking'[x] = booking[x]
    BY InheritConflictsFollow DEF BookerInv
<1>2. /\ mapping' = mapping \/ (d.isPastMarker /\ mapping' = WithMapping(m, inherited))
      /\ added' = [added EXCEPT ![b] = IF d.isPastMarker THEN @ ELSE inherited \ past]
      /\ subtracted' = [subtracted EXCEPT ![b] = IF d.isPastMarker THEN @ ELSE past \ inherited]
    BY DEF InheritConflictIDs, SetConflictIDs
<1> HIDE DEF past
<1>3. b \notin booked /\ booked \subseteq Block /\ m \in d.pastMarkers /\ details' = details
    BY <1>1, BookedIdle DEF BookerInv, MarkersInv, BookingsFollow, Placed, markerVars
<1> HIDE DEF m
<1>4. subtracted[b] = {} /\ \A x \in Block : x # b => subtracted'[x] = subtracted[x] /\ added'[x] = added[x]
    BY <1>2, <1>3 DEF ForksReach, SubtractedLast, BookerInv, ApprovedInv, BlocksApproved
<1>5. SubtractedLast'
    BY <1>1, <1>4 DEF ForksReach, SubtractedLast
<1>6. added'[b] \subseteq added[b] \cup inherited
    BY <1>2 DEF BookerInv, ApprovedInv, BlocksApproved
<1>7. ASSUME NEW c \in Conflict, ParentConflicts[c] = {}, ~panicked' PROVE ForkReaches(c)'
    <2>1. ASSUME NEW x \in booked, NEW n \in details[x].pastMarkers, MarkerHas(n, c) PROVE MarkerHas(n, c)'
        <3>1. CASE mapping' = mapping
            BY <2>1, <3>1, HasKept
        <3>2. CASE d.isPastMarker /\ mapping' = WithMapping(m, inherited)
            <4>1. m \in Made /\ n[2] \in Nat /\ (n[1] # m[1] \/ n[2] < m[2])
                BY <1>3, <3>2, OwnNotBelow
            <4>2. MappingJustified
                BY DEF BookerInv, ApprovedInv
            <4> QED BY <2>1, <3>2, <4>1, <4>2, SetBehind
        <3> QED BY <1>2, <3>1, <3>2
    <2>2. Stays(c)
        <3>1. \A x \in Block : subtracted[x] \subseteq subtracted'[x]
            BY <1>4
        <3>2. \A x \in booked : details'[x] = details[x] /\ (c \in added[x] => c \in added'[x])
            BY <1>3, <1>4
        <3>3. ForksGoOn /\ fork'[c] = fork[c]
            BY <1>1 DEF Grows
        <3> QED BY <1>3, <2>1, <3>1, <3>2, <3>3, StaysWith
    <2>3. ForkReaches(c)
        BY <1>7 DEF ForksReach
    <2>4. PICK S \in SUBSET Block : Reaches(c, S)
        BY <2>3 DEF ForkReaches
    <2> DEFINE F == IF c \in inherited THEN FutureCone(b) ELSE {}
    <2>5. F = {} \/ (F = FutureCone(b) /\ Approves(b, c))
        BY DEF BookerInv, ApprovedInv, BlocksApproved, Approved, Approves
    <2>6. F = {} => c \notin inherited
        BY FutureConeClosed
    <2>7. ASSUME b \in S \cup F PROVE Settled(b, c)'
        <3>1. booking'[b].pc = "idle"
            BY <1>1 DEF NotBooking
        <3>2. ASSUME Undisturbed(b, c)' PROVE BlockHas(b, c)'
            <4>1. c \in inherited
                <5>1. CASE b \in S
                    <6>1. Settled(b, c) /\ Undisturbed(b, c)
                        BY <2>2, <2>4, <3>2, <5>1 DEF Reaches, Stays
                    <6> QED BY <1>1, <6>1 DEF Settled
                <5>2. CASE b \in F
                    BY <5>2
                <5> QED BY <2>7, <5>1, <5>2
            <4>2. c \notin subtracted'[b]
                BY <3>2, PastConeClosed DEF Undisturbed
            <4> QED BY <1>7, <4>1, <4>2, StoresInherited
        <3> QED BY <3>1, <3>2 DEF Settled
    <2>8. F = {} => fork'[c].queue = fork[c].queue /\ (c \in added'[b] => c \in added[b])
        BY <1>1, <1>6, <2>6
    <2>9. /\ fork' = fork /\ booked \subseteq booked' /\ booked' \subseteq booked \cup {b} /\ b \in booked'
          /\ \A x \in Block : x # b => booking'[x] = booking[x] /\ (c \in added'[x] => c \in added[x])
        BY <1>1, <1>4
    <2> HIDE DEF F
    <2>10. \E T \in SUBSET Block : Reaches(c, T)'
        BY <1>3, <2>2, <2>4, <2>5, <2>7, <2>8, <2>9, FutureReached
    <2>11. MarkerReached(c)'
        BY <2>2, <2>3, <2>9, MarkerStaysReached DEF ForkReaches
    <2> QED BY <2>10, <2>11 DEF ForkReaches
<1> QED
    BY <1>1, <1>5, <1>7, ShapeKept DEF ForksReach

-----------------------------------------------------------------------------
(* The steps of forks. *)

(* A marker that a fork comes to is not below what a block inherits that approves no forked transaction but another. *)
LEMMA OtherNotBelow ==
    ASSUME BookerInv, NEW c \in Conflict, NEW e \in Conflict, e # c, fork[c].pc # "idle",
           NEW m \in fork[c].pushedMarkers, NEW x \in booked, Undisturbed(x, e), NEW n \in details[x].pastMarkers
    PROVE  n[1] # m[1] \/ n[2] < m[2]
<1>1. x \in Block
    BY BookedIdle
<1>2. m \in Made /\ \E y \in Owner(m) : Approves(y, c)
    BY ForkTyped DEF ForkApproved
<1>3. MarkersMade /\ n \in Made /\ Above(x, n)
    BY <1>1 DEF BookerInv, MarkersInv, MarkersMade
<1>4. m[2] \in Nat /\ n[2] \in Nat /\ n = <<n[1], n[2]>>
    BY <1>2, <1>3, MadeTyped
<1>5. ASSUME n[1] = m[1], m[2] <= n[2] PROVE FALSE
    <2>1. Above(x, <<m[1], n[2]>>)
        BY <1>3, <1>4, <1>5
    <2>2. Approves(x, c)
        BY <1>1, <1>2, <1>3, <1>4, <1>5, <2>1, OwnersBelow
    <2>3. c \in Approved(x)
        BY <2>2 DEF Approves, Approved
    <2> QED BY <2>3 DEF Undisturbed
<1> QED
    BY <1>4, <1>5

(* What a fork may change: the conflicts of blocks by its own, and the mapping at markers that it comes to. *)
ForkChanges(c) ==
    /\ UNCHANGED <<markerVars, booked, booking, subtracted>>
    /\ fork[c].pc # "idle" \/ mapping' = mapping
    /\ ForksGoOn /\ \A e \in Conflict : e # c => fork'[e] = fork[e]
    /\ \A e \in Conflict, x \in Block : e # c => (e \in added'[x] <=> e \in added[x])
    /\ \A x \in Block : c \in added[x] => c \in added'[x]
    /\ \/ mapping' = mapping
       \/ \E m \in fork[c].pushedMarkers :
            \/ m[1] \in DOMAIN mapping /\ mapping' = [mapping EXCEPT ![m[1]] = [i \in DOMAIN @ \ {m[2]} |-> @[i]]]
            \/ \E cs : mapping' = WithMapping(m, cs)

(* A fork leaves the others what they have reached. *)
LEMMA OtherForksReach ==
    ASSUME ReachInv, ~panicked, NEW c \in Conflict, ForkChanges(c), NEW e \in Conflict, e # c
    PROVE  ForkShape(e)' /\ (ParentConflicts[e] = {} => ForkReaches(e)')
<1> USE DEF ReachInv
<1>1. /\ details' = details /\ booked' = booked /\ booking' = booking /\ subtracted' = subtracted
      /\ ForksGoOn /\ fork'[e] = fork[e]
      /\ \A x \in Block : e \in added'[x] <=> e \in added[x]
    BY DEF ForkChanges, markerVars
<1>2. booked \subseteq Block /\ \A x \in booked : booking[x].pc = "idle"
    BY BookedIdle
<1>3. ASSUME NEW x \in booked, Undisturbed(x, e), NEW n \in details[x].pastMarkers, MarkerHas(n, e)
      PROVE  MarkerHas(n, e)'
    <2>1. CASE mapping' = mapping
        BY <1>3, <2>1, HasKept
    <2>2. CASE mapping' # mapping
        <3>1. PICK m \in fork[c].pushedMarkers :
                \/ m[1] \in DOMAIN mapping /\ mapping' = [mapping EXCEPT ![m[1]] = [i \in DOMAIN @ \ {m[2]} |-> @[i]]]
                \/ \E cs : mapping' = WithMapping(m, cs)
            BY <2>2 DEF ForkChanges
        <3>2. fork[c].pc # "idle"
            BY <2>2 DEF ForkChanges
        <3>3. n[1] # m[1] \/ n[2] < m[2]
            BY <1>3, <3>2, OtherNotBelow
        <3>4. m \in Made /\ n \in Made /\ MappingJustified
            BY <1>2, <1>3, ForkTyped DEF BookerInv, MarkersInv, MarkersMade, ApprovedInv
        <3>5. m[2] \in Nat /\ n[2] \in Nat
            BY <3>4, MadeTyped
        <3>6. CASE \E cs : mapping' = WithMapping(m, cs)
            BY <1>3, <3>3, <3>4, <3>5, <3>6, SetBehind
        <3>7. CASE m[1] \in DOMAIN mapping /\ mapping' = [mapping EXCEPT ![m[1]] = [i \in DOMAIN @ \ {m[2]} |-> @[i]]]
            <4>1. n[1] = m[1] => Max(UpTo(n)) # m[2]
                <5>1. n[1] \in DOMAIN mapping /\ UpTo(n) # {}
                    BY <1>3, HasUpTo
                <5>2. UpTo(n) \in SUBSET (0 .. n[2])
                    BY <3>4, <3>5, <5>1, UpToNumbers
                <5>3. Max(UpTo(n)) \in UpTo(n)
                    BY <3>5, <5>1, <5>2, MaxOfNumbers
                <5>4. Max(UpTo(n)) <= n[2]
                    BY <5>3 DEF UpTo
                <5> HIDE DEF Max
                <5>5. ASSUME n[1] = m[1], Max(UpTo(n)) = m[2] PROVE FALSE
                    BY <3>3, <3>5, <5>4, <5>5
                <5> QED BY <5>5
            <4> QED BY <1>3, <3>4, <3>5, <3>7, <4>1, DeletedBehind
        <3> QED BY <3>1, <3>6, <3>7
    <2> QED BY <2>1, <2>2
<1>4. Stays(e)
    BY <1>1, <1>2, <1>3, StaysWith
<1>5. ASSUME ParentConflicts[e] = {} PROVE ForkReaches(e)'
    <2>1. ForkReaches(e)
        BY <1>5 DEF ForksReach
    <2>2. fork[e].queue \subseteq Block
        BY ForkTyped
    <2> QED BY <1>1, <1>2, <1>4, <2>1, <2>2, OthersReach
<1> QED
    BY <1>1, <1>5, ShapeKept DEF ForksReach

(* It remains to look at the fork itself. *)
LEMMA ForkReachStep ==
    ASSUME ReachInv, ~panicked, NEW c \in Conflict, ForkChanges(c), ForkShape(c)',
           ParentConflicts[c] = {} /\ ~panicked' => ForkReaches(c)'
    PROVE  ForksReach'
<1>1. SubtractedLast'
    BY DEF SubtractedLast, ForksReach, ReachInv, ForkChanges
<1> QED
    BY <1>1, OtherForksReach DEF ForksReach

(* What is settled stays so while no block is booked. *)
LEMMA SettledKept ==
    ASSUME BookerInv, UNCHANGED <<booked, booking>>, NEW c \in Conflict, Stays(c), NEW b \in Block, Settled(b, c)
    PROVE  Settled(b, c)'
<1>1. CASE b \in booked
    <2>1. booking'[b].pc = "idle"
        BY <1>1, BookedIdle
    <2> QED BY <1>1, <2>1, BookedStaysSettled
<1>2. CASE b \notin booked
    <2>1. b \notin booked' /\ booking'[b] = booking[b]
        BY <1>2
    <2> QED BY <2>1, UnbookedStaysSettled
<1> QED
    BY <1>1, <1>2

(* Steps that visit no block, but may lock one, *)
LEMMA SameReach ==
    ASSUME BookerInv, UNCHANGED <<booked, booking>>, NEW c \in Conflict, Stays(c),
           \A x \in Block : c \in added'[x] => c \in added[x],
           fork'[c].queue = fork[c].queue, fork'[c].pushed = fork[c].pushed, fork[c].locked \subseteq fork'[c].locked,
           fork[c].pc # "idle", NEW S \in SUBSET Block, Reaches(c, S)
    PROVE  Reaches(c, S)'
<1>1. \A b \in S : Settled(b, c)'
    BY SettledKept DEF Reaches
<1> QED
    BY <1>1 DEF Reaches, Approves

(* and steps that visit one and push its children. *)
LEMMA VisitReach ==
    ASSUME BookerInv, UNCHANGED <<booked, booking>>, NEW c \in Conflict, Stays(c),
           NEW b \in booked, Approves(b, c), Settled(b, c)',
           \A x \in Block : c \in added'[x] => c \in added[x] \/ x = b,
           fork'[c].queue = (fork[c].queue \ {b}) \cup (StrongChildren(b) \ fork[c].pushed),
           fork'[c].pushed = fork[c].pushed \cup StrongChildren(b),
           fork[c].locked \subseteq {b}, fork[c].pc # "idle", NEW S \in SUBSET Block, Reaches(c, S)
    PROVE  Reaches(c, S \cup {b})'
<1> DEFINE T == S \cup {b}
<1>1. b \in Block /\ T \in SUBSET Block
    BY BookedIdle
<1>2. \A x \in S : Settled(x, c)'
    BY SettledKept DEF Reaches
<1>3. \A x \in T : Approves(x, c) /\ Settled(x, c)'
    BY <1>2 DEF Reaches
<1>4. S \cup fork[c].queue \cup fork[c].locked \subseteq T \cup fork'[c].queue \cup fork'[c].locked
    OBVIOUS
<1>5. fork[c].pushed \subseteq S \cup fork[c].queue \cup fork[c].locked
    BY DEF Reaches
<1>6. fork'[c].pushed \subseteq T \cup fork'[c].queue \cup fork'[c].locked
    BY <1>4, <1>5
<1>7. \A x \in T : StrongChildren(x) \subseteq T \cup fork'[c].queue \cup fork'[c].locked
    <2>1. \A x \in S : StrongChildren(x) \subseteq S \cup fork[c].queue \cup fork[c].locked
        BY DEF Reaches
    <2>2. StrongChildren(b) \subseteq T \cup fork'[c].queue \cup fork'[c].locked
        BY <1>6
    <2> QED BY <1>4, <2>1, <2>2
<1>8. Attachments[c] \subseteq fork'[c].pushed
    BY DEF Reaches
<1>9. ASSUME NEW x \in T \cup fork'[c].queue
      PROVE  x \in booked' \/ booking'[x].pc # "idle" \/ x \in Attachments[c] \/ StrongParents[x] \cap T # {}
    <2>1. CASE x = b
        BY <2>1
    <2>2. CASE x \in StrongChildren(b)
        BY <2>2 DEF StrongChildren
    <2>3. CASE x \in S \cup fork[c].queue
        <3>1. x \in booked \/ booking[x].pc # "idle" \/ x \in Attachments[c] \/ StrongParents[x] \cap S # {}
            BY <2>3 DEF Reaches
        <3> QED BY <3>1
    <2> QED BY <2>1, <2>2, <2>3
<1>10. \A x \in Block : c \in added'[x] => x \in T
    BY DEF Reaches
<1> HIDE DEF T
<1>11. Reaches(c, T)'
    BY <1>1, <1>3, <1>6, <1>7, <1>8, <1>9, <1>10 DEF Reaches, Approves
<1> QED
    BY <1>11 DEF T

(* A step of one fork. *)
LEMMA ForkGoesOn ==
    ASSUME BookerInv, NEW c \in Conflict, NEW th, fork' = [fork EXCEPT ![c] = th], th.pc # "idle"
    PROVE  fork'[c] = th /\ ForksGoOn /\ \A e \in Conflict : e # c => fork'[e] = fork[e]
<1>1. fork'[c] = th /\ \A e \in Conflict : e # c => fork'[e] = fork[e]
    BY DEF BookerInv, ApprovedInv, ForksApproved
<1> QED
    BY <1>1 DEF ForksGoOn

(* StartFork *)
LEMMA StartReaches ==
    ASSUME ReachInv, ~panicked, NEW c \in Conflict, StartFork(c)
    PROVE  ForksReach'
<1> USE DEF ReachInv
<1> DEFINE th == [NotForking EXCEPT !.pc = "walk", !.queue = Attachments[c], !.pushed = Attachments[c]]
<1>1. /\ fork' = [fork EXCEPT ![c] = th] /\ fork[c].pc = "idle"
      /\ UNCHANGED <<markerVars, mapping, added, subtracted, booked, booking, panicked>>
    BY DEF StartFork
<1>2. /\ th.pc = "walk" /\ th.queue = Attachments[c] /\ th.pushed = Attachments[c] /\ th.locked = {}
      /\ th.markers = {} /\ th.pushedMarkers = {} /\ th.setting = {}
    BY DEF NotForking
<1> HIDE DEF th
<1>3. fork'[c] = th /\ ForksGoOn /\ \A e \in Conflict : e # c => fork'[e] = fork[e]
    BY <1>1, <1>2, ForkGoesOn
<1>4. ForkChanges(c)
    BY <1>1, <1>3 DEF ForkChanges
<1>5. ForkShape(c)'
    BY <1>2, <1>3 DEF ForkShape
<1>6. \A x \in Block : c \notin added'[x]
    BY <1>1 DEF BookerInv, ApprovedInv, BlocksApproved, Approved
<1>7. MarkerReached(c)' /\ Reaches(c, {})'
    BY <1>2, <1>3, <1>6 DEF MarkerReached, Reaches
<1>8. ForkReaches(c)'
    BY <1>7 DEF ForkReaches
<1> QED
    BY <1>4, <1>5, <1>8, ForkReachStep

(* An added conflict and what stays in the mapping. *)
LEMMA AddedStays ==
    ASSUME BookerInv, NEW c \in Conflict, ForksGoOn, UNCHANGED <<markerVars, booked, subtracted>>, fork[c].pc # "idle",
           \A x \in Block : c \in added[x] => c \in added'[x],
           \A n : n[2] \in Nat /\ MarkerHas(n, c) => MarkerHas(n, c)'
    PROVE  Stays(c)
<1>1. details' = details /\ booked \subseteq Block
    BY BookedIdle DEF markerVars
<1>2. \A x \in booked : \A n \in details[x].pastMarkers : n[2] \in Nat
    <2> SUFFICES ASSUME NEW x \in booked, NEW n \in details[x].pastMarkers PROVE n[2] \in Nat
        OBVIOUS
    <2>1. n \in Made
        BY <1>1 DEF BookerInv, MarkersInv, MarkersMade
    <2> QED BY <2>1, MadeTyped
<1> QED
    BY <1>1, <1>2, StaysWith

(* PropagateForkedConflict *)
LEMMA PropagateReaches ==
    ASSUME ReachInv, ~panicked, NEW c \in Conflict, NEW b \in Block, PropagateForkedConflict(c, b)
    PROVE  ForksReach'
<1> USE DEF ReachInv
<1> DEFINE r == fork[c]
<1>1. /\ r.pc = "walk" /\ b \in r.queue /\ booking[b].pc = "idle"
      /\ UNCHANGED <<markerVars, mapping, subtracted, booked, booking, panicked>>
    BY DEF PropagateForkedConflict, BookingsAt
<1>2. r \in ForkState /\ r.setting = {} /\ r.locked = {} /\ Approves(b, c) /\ ForkShape(c) /\ r.queue \subseteq Block
    BY <1>1, ForkTyped DEF ForkApproved, ForksReach
(* A block that is pushed. *)
<1>3. ASSUME NEW S, fork' = [fork EXCEPT ![c] = Push(@, b, S)]
      PROVE  /\ fork'[c].queue = (r.queue \ {b}) \cup (S \ r.pushed) /\ fork'[c].pushed = r.pushed \cup S
             /\ fork'[c].pc = r.pc /\ fork'[c].locked = r.locked /\ fork'[c].setting = r.setting
             /\ ForksGoOn /\ (\A e \in Conflict : e # c => fork'[e] = fork[e])
             /\ ForkShape(c)' /\ MarkerReached(c)'
    <2> DEFINE th == Push(r, b, S)
    <2>1. fork' = [fork EXCEPT ![c] = th]
        BY <1>3
    <2> HIDE DEF r
    <2>2. /\ th.queue = (r.queue \ {b}) \cup (S \ r.pushed) /\ th.pushed = r.pushed \cup S
          /\ th.pc = r.pc /\ th.locked = r.locked /\ th.setting = r.setting
        BY <1>2 DEF Push, ForkState
    <2> HIDE DEF th
    <2>3. fork'[c] = th /\ ForksGoOn /\ \A e \in Conflict : e # c => fork'[e] = fork[e]
        BY <1>1, <2>1, <2>2, ForkGoesOn
    <2>4. ForkShape(c)'
        BY <1>1, <1>2, <2>2, <2>3 DEF ForkShape
    <2>5. MarkerReached(c)'
        BY <1>2, <2>2, <2>3 DEF MarkerReached
    <2> QED BY <2>2, <2>3, <2>4, <2>5
<1>4. CASE b \notin booked /\ fork' = [fork EXCEPT ![c] = Push(@, b, {})] /\ UNCHANGED added
    <2>1. /\ fork'[c].queue = r.queue \ {b} /\ fork'[c].pushed = r.pushed
          /\ fork'[c].pc = r.pc /\ fork'[c].locked = r.locked /\ fork'[c].setting = r.setting
          /\ ForksGoOn /\ (\A e \in Conflict : e # c => fork'[e] = fork[e])
          /\ ForkShape(c)' /\ MarkerReached(c)'
        <3> DEFINE S == {}
        <3>1. fork' = [fork EXCEPT ![c] = Push(@, b, S)]
            BY <1>4
        <3>2. \A x : x \notin S
            OBVIOUS
        <3> HIDE DEF S
        <3>3. /\ fork'[c].queue = (r.queue \ {b}) \cup (S \ r.pushed) /\ fork'[c].pushed = r.pushed \cup S
              /\ fork'[c].pc = r.pc /\ fork'[c].locked = r.locked /\ fork'[c].setting = r.setting
              /\ ForksGoOn /\ (\A e \in Conflict : e # c => fork'[e] = fork[e])
              /\ ForkShape(c)' /\ MarkerReached(c)'
            BY <1>3, <3>1
        <3> QED BY <3>2, <3>3
    <2>2. ForkChanges(c)
        BY <1>1, <1>4, <2>1 DEF ForkChanges
    <2>3. Stays(c)
        BY <1>1, <1>4, <2>1, AddedStays, HasKept
    <2>4. ASSUME ParentConflicts[c] = {} PROVE ForkReaches(c)'
        <3>1. PICK S \in SUBSET Block : Reaches(c, S)
            BY <2>4 DEF ForksReach, ForkReaches
        <3>2. b \in booked \/ booking[b].pc # "idle" \/ b \in Attachments[c] \/ StrongParents[b] \cap S # {}
            BY <1>1, <3>1 DEF Reaches
        <3>3. Settled(b, c)'
            BY <1>1, <1>4 DEF Settled
        <3> DEFINE F == FutureCone(b)
        <3>4. F # {}
            BY FutureConeClosed
        <3>5. /\ fork'[c].queue \subseteq fork[c].queue /\ fork[c].queue \subseteq fork'[c].queue \cup {b}
              /\ fork'[c].locked = fork[c].locked /\ fork'[c].pushed = fork[c].pushed /\ fork'[c].pc = fork[c].pc
              /\ booked' = booked /\ booking' = booking /\ added' = added
            BY <1>1, <1>4, <2>1
        <3>6. F = FutureCone(b)
            OBVIOUS
        <3> HIDE DEF F
        <3>7. \E T \in SUBSET Block : Reaches(c, T)'
            BY <1>2, <1>4, <2>3, <3>1, <3>2, <3>3, <3>4, <3>5, <3>6, FutureReached
        <3> QED BY <2>1, <3>7 DEF ForkReaches
    <2> QED BY <2>1, <2>2, <2>4, ForkReachStep
<1>5. CASE /\ b \in booked /\ details[b].isPastMarker
           /\ fork' = [fork EXCEPT ![c].pc = "marker", ![c].locked = {b},
                                  ![c].markers = details[b].pastMarkers,
                                  ![c].pushedMarkers = details[b].pastMarkers]
           /\ UNCHANGED added
    <2> DEFINE ms == details[b].pastMarkers
               th == [r EXCEPT !.pc = "marker", !.locked = {b}, !.markers = ms, !.pushedMarkers = ms]
    <2>1. fork' = [fork EXCEPT ![c] = th]
        BY <1>5
    <2> HIDE DEF r
    <2>2. /\ th.pc = "marker" /\ th.locked = {b} /\ th.markers = ms /\ th.queue = r.queue /\ th.pushed = r.pushed
          /\ th.setting = r.setting
        BY <1>2 DEF ForkState
    <2> HIDE DEF th
    <2>3. fork'[c] = th /\ ForksGoOn /\ \A e \in Conflict : e # c => fork'[e] = fork[e]
        BY <2>1, <2>2, ForkGoesOn
    <2>4. ForkChanges(c)
        BY <1>1, <1>5, <2>3 DEF ForkChanges
    <2>5. ForkShape(c)'
        BY <1>2, <2>2, <2>3 DEF ForkShape
    <2>6. Stays(c)
        BY <1>1, <1>5, <2>3, AddedStays, HasKept DEF r
    <2>7. MarkerReached(c)'
        BY <1>1, <1>5, <2>2, <2>3 DEF MarkerReached, markerVars
    <2>8. ASSUME ParentConflicts[c] = {} PROVE ForkReaches(c)'
        <3>1. PICK S \in SUBSET Block : Reaches(c, S)
            BY <2>8 DEF ForksReach, ForkReaches
        <3>2. /\ fork'[c].queue = fork[c].queue /\ fork'[c].pushed = fork[c].pushed
              /\ fork[c].locked \subseteq fork'[c].locked /\ fork[c].pc # "idle"
            BY <1>1, <1>2, <2>2, <2>3 DEF r
        <3>3. Reaches(c, S)'
            BY <1>1, <1>5, <2>6, <3>1, <3>2, SameReach
        <3> QED BY <2>7, <3>3 DEF ForkReaches
    <2> QED BY <2>4, <2>5, <2>8, ForkReachStep
<1>6. CASE b \in booked /\ ~details[b].isPastMarker /\ UpdateBlockConflicts(c, b)
    <2> DEFINE updated == ParentConflicts[c] \subseteq BlockConflictIDs(b) /\ c \notin added[b]
               S == IF updated THEN StrongChildren(b) ELSE {}
    <2>1. /\ added' = [added EXCEPT ![b] = IF updated THEN @ \cup {c} ELSE @]
          /\ fork' = [fork EXCEPT ![c] = Push(@, b, S)]
        BY <1>6 DEF UpdateBlockConflicts
    <2>2. /\ fork'[c].queue = (r.queue \ {b}) \cup (S \ r.pushed) /\ fork'[c].pushed = r.pushed \cup S
          /\ fork'[c].pc = r.pc /\ fork'[c].locked = r.locked /\ fork'[c].setting = r.setting
          /\ ForksGoOn /\ (\A e \in Conflict : e # c => fork'[e] = fork[e])
          /\ ForkShape(c)' /\ MarkerReached(c)'
        <3> HIDE DEF S
        <3> QED BY <1>3, <2>1
    <2>3. \A x \in Block : /\ \A e \in Conflict : e # c => (e \in added'[x] <=> e \in added[x])
                           /\ c \in added[x] => c \in added'[x]
                           /\ c \in added'[x] => c \in added[x] \/ (x = b /\ updated)
                           /\ x = b /\ updated => c \in added'[x]
        <3> HIDE DEF updated
        <3> QED BY <2>1 DEF BookerInv, ApprovedInv, BlocksApproved
    <2>4. ForkChanges(c)
        BY <1>1, <2>2, <2>3 DEF ForkChanges
    <2>5. Stays(c)
        BY <1>1, <2>2, <2>3, AddedStays, HasKept
    <2>6. ASSUME ParentConflicts[c] = {} PROVE ForkReaches(c)'
        <3>1. PICK T \in SUBSET Block : Reaches(c, T)
            BY <2>6 DEF ForksReach, ForkReaches
        <3>2. CASE updated
            <4>1. S = StrongChildren(b) /\ c \in added'[b]
                BY <2>3, <3>2
            <4>2. Settled(b, c)'
                <5>1. ASSUME Undisturbed(b, c)' PROVE c \notin subtracted'[b]
                    BY <5>1, PastConeClosed DEF Undisturbed
                <5> QED BY <1>1, <4>1, <5>1 DEF Settled, BlockHas
            <4> HIDE DEF updated, S
            <4>3. /\ fork'[c].queue = (fork[c].queue \ {b}) \cup (StrongChildren(b) \ fork[c].pushed)
                  /\ fork'[c].pushed = fork[c].pushed \cup StrongChildren(b)
                  /\ fork[c].locked \subseteq {b} /\ fork[c].pc # "idle"
                  /\ \A x \in Block : c \in added'[x] => c \in added[x] \/ x = b
                BY <1>1, <1>2, <2>2, <2>3, <4>1
            <4>4. Reaches(c, T \cup {b})'
                BY <1>1, <1>2, <1>6, <2>5, <3>1, <4>2, <4>3, VisitReach
            <4> QED BY <2>2, <4>4 DEF ForkReaches
        <3>3. CASE ~updated
            <4>1. c \in added[b]
                BY <2>6, <3>3
            <4>2. S = {} /\ b \in T
                BY <3>1, <3>3, <4>1 DEF Reaches
            <4> HIDE DEF updated, S
            <4>3. /\ fork'[c].queue = fork[c].queue \ {b} /\ fork'[c].pushed = fork[c].pushed
                  /\ fork'[c].locked = fork[c].locked /\ fork'[c].pc = fork[c].pc
                  /\ \A x \in Block : c \in added'[x] => c \in added[x]
                BY <2>2, <2>3, <3>3, <4>2
            <4>4. \A x \in T : Settled(x, c)'
                BY <1>1, <2>5, <3>1, SettledKept DEF Reaches
            <4>5. Reaches(c, T)'
                BY <1>1, <3>1, <4>2, <4>3, <4>4 DEF Reaches, Approves
            <4> QED BY <2>2, <4>5 DEF ForkReaches
        <3> QED BY <3>2, <3>3
    <2> QED BY <2>2, <2>4, <2>6, ForkReachStep
<1> QED
    BY <1>4, <1>5, <1>6 DEF PropagateForkedConflict

(* The marker that a fork is at keeps c while the fork deletes the mapping of one that does not have it. *)
LEMMA SingleReaches ==
    ASSUME ReachInv, ~panicked, NEW c \in Conflict, NEW m, ForkSingleMarker(c, m)
    PROVE  ForksReach'
<1> USE DEF ReachInv
<1> DEFINE r == fork[c]
           cs == ConflictIDs(m) \cup {c}
           u == <<m[1], m[2], cs>>
<1>1. /\ r.pc = "marker" /\ m \in r.markers
      /\ UNCHANGED <<markerVars, added, subtracted, booked, booking>>
    BY DEF ForkSingleMarker
<1>2. r \in ForkState /\ r.setting = {} /\ ForkShape(c) /\ m \in r.pushedMarkers /\ m \in Made
    <2>1. r \in ForkState /\ ForkApproved(c) /\ ForkShape(c) /\ r.pushedMarkers \subseteq Made
        BY ForkTyped DEF ForksReach
    <2> QED BY <1>1, <2>1 DEF ForkApproved
<1>3. m = <<m[1], m[2]>> /\ m[2] \in Nat /\ MappingJustified /\ details' = details
    BY <1>1, <1>2, MadeTyped DEF BookerInv, ApprovedInv, markerVars
<1>4. CASE Mapped(m) /\ ParentConflicts[c] \subseteq ConflictIDs(m) /\ c \notin ConflictIDs(m)
    <2> DEFINE th == [r EXCEPT !.pc = "set", !.markers = r.markers \ {m}, !.setting = {u}]
    <2>1. /\ fork' = [fork EXCEPT ![c] = th]
          /\ mapping' = [mapping EXCEPT ![m[1]] = [i \in DOMAIN @ \ {m[2]} |-> @[i]]]
        BY <1>4 DEF ForkSingleMarker
    <2>2. <<u[1], u[2]>> = m /\ c \in u[3]
        <3> HIDE DEF cs
        <3>1. <<u[1], u[2]>> = m /\ u[3] = cs
            BY <1>3
        <3> QED BY <3>1 DEF cs
    <2> HIDE DEF r, u
    <2>3. /\ th.pc = "set" /\ th.markers = r.markers \ {m} /\ th.setting = {u} /\ th.queue = r.queue
          /\ th.pushed = r.pushed /\ th.locked = r.locked
        BY <1>2 DEF ForkState
    <2> HIDE DEF th
    <2>4. fork'[c] = th /\ ForksGoOn /\ \A e \in Conflict : e # c => fork'[e] = fork[e]
        BY <2>1, <2>3, ForkGoesOn
    <2>5. m[1] \in DOMAIN mapping
        BY <1>4 DEF Mapped
    <2>6. ForkChanges(c)
        BY <1>1, <1>2, <2>1, <2>4, <2>5 DEF ForkChanges, r
    <2>7. ForkShape(c)'
        BY <1>2, <2>2, <2>3, <2>4 DEF ForkShape, r
    <2>8. \A n : n[2] \in Nat /\ MarkerHas(n, c) => MarkerHas(n, c)'
        BY <1>2, <1>3, <1>4, <2>1, DeletedTakes
    <2>9. Stays(c)
        BY <1>1, <2>4, <2>8, AddedStays DEF r
    <2>10. ASSUME ParentConflicts[c] = {} PROVE ForkReaches(c)'
        <3>1. ForkReaches(c)
            BY <2>10 DEF ForksReach
        <3>2. PICK S \in SUBSET Block : Reaches(c, S)
            BY <3>1 DEF ForkReaches
        <3>3. Reaches(c, S)'
            BY <1>1, <2>3, <2>4, <2>9, <3>2, SameReach DEF r
        <3>4. ASSUME NEW b \in r.locked
              PROVE  /\ b \in booked /\ details[b].isPastMarker
                     /\ Undisturbed(b, c)' => \A n \in details[b].pastMarkers :
                            n \in th.markers \/ MarkerHas(n, c)' \/ \E v \in th.setting : <<v[1], v[2]>> = n
            <4>1. /\ b \in booked /\ details[b].isPastMarker /\ b \in Block
                  /\ Undisturbed(b, c) => \A n \in details[b].pastMarkers :
                        n \in r.markers \/ MarkerHas(n, c) \/ \E v \in r.setting : <<v[1], v[2]>> = n
                BY <3>1, <3>4, ForkTyped DEF ForkReaches, MarkerReached, r
            <4>2. ASSUME Undisturbed(b, c)', NEW n \in details[b].pastMarkers
                  PROVE  n \in th.markers \/ MarkerHas(n, c)' \/ \E v \in th.setting : <<v[1], v[2]>> = n
                <5>1. Undisturbed(b, c) /\ (MarkerHas(n, c) => MarkerHas(n, c)')
                    BY <2>9, <4>1, <4>2 DEF Stays
                <5>2. n \in r.markers \/ MarkerHas(n, c)'
                    BY <1>2, <4>1, <5>1
                <5>3. n = m => \E v \in th.setting : <<v[1], v[2]>> = n
                    BY <2>2, <2>3
                <5> QED BY <2>3, <5>2, <5>3
            <4> QED BY <4>1, <4>2
        <3>5. MarkerReached(c)'
            BY <1>1, <1>3, <2>3, <2>4, <3>4 DEF MarkerReached
        <3> QED BY <3>3, <3>5 DEF ForkReaches
    <2> QED BY <2>6, <2>7, <2>10, ForkReachStep
<1>5. CASE ~(Mapped(m) /\ ParentConflicts[c] \subseteq ConflictIDs(m) /\ c \notin ConflictIDs(m))
    <2> DEFINE th == [r EXCEPT !.markers = r.markers \ {m}]
    <2>1. /\ fork' = [fork EXCEPT ![c] = th] /\ mapping' = mapping /\ panicked' = ~Mapped(m)
        BY <1>5 DEF ForkSingleMarker
    <2> HIDE DEF r
    <2>2. /\ th.pc = r.pc /\ th.markers = r.markers \ {m} /\ th.setting = r.setting /\ th.queue = r.queue
          /\ th.pushed = r.pushed /\ th.locked = r.locked
        BY <1>2 DEF ForkState
    <2> HIDE DEF th
    <2>3. fork'[c] = th /\ ForksGoOn /\ \A e \in Conflict : e # c => fork'[e] = fork[e]
        BY <1>1, <2>1, <2>2, ForkGoesOn
    <2>4. ForkChanges(c)
        BY <1>1, <2>1, <2>3 DEF ForkChanges
    <2>5. ForkShape(c)'
        BY <1>1, <1>2, <2>2, <2>3 DEF ForkShape, r
    <2>6. Stays(c)
        BY <1>1, <2>1, <2>3, AddedStays, HasKept DEF r
    <2>7. ASSUME ParentConflicts[c] = {}, ~panicked' PROVE ForkReaches(c)'
        <3>1. ForkReaches(c)
            BY <2>7 DEF ForksReach
        <3>2. PICK S \in SUBSET Block : Reaches(c, S)
            BY <3>1 DEF ForkReaches
        <3>3. Reaches(c, S)'
            BY <1>1, <2>2, <2>3, <2>6, <3>2, SameReach DEF r
        <3>4. MarkerHas(m, c)'
            <4>1. MarkerHas(m, c)
                BY <1>5, <2>1, <2>7 DEF MarkerHas
            <4> QED BY <1>3, <2>1, <4>1, HasKept
        <3>5. ASSUME NEW b \in r.locked
              PROVE  /\ b \in booked /\ details[b].isPastMarker
                     /\ Undisturbed(b, c)' => \A n \in details[b].pastMarkers :
                            n \in th.markers \/ MarkerHas(n, c)' \/ \E v \in th.setting : <<v[1], v[2]>> = n
            <4>1. /\ b \in booked /\ details[b].isPastMarker /\ b \in Block
                  /\ Undisturbed(b, c) => \A n \in details[b].pastMarkers :
                        n \in r.markers \/ MarkerHas(n, c) \/ \E v \in r.setting : <<v[1], v[2]>> = n
                BY <3>1, <3>5, ForkTyped DEF ForkReaches, MarkerReached, r
            <4>2. ASSUME Undisturbed(b, c)', NEW n \in details[b].pastMarkers
                  PROVE  n \in th.markers \/ MarkerHas(n, c)'
                <5>1. Undisturbed(b, c) /\ (MarkerHas(n, c) => MarkerHas(n, c)')
                    BY <2>6, <4>1, <4>2 DEF Stays
                <5>2. n \in r.markers \/ MarkerHas(n, c)'
                    BY <1>2, <4>1, <5>1
                <5> QED BY <2>2, <3>4, <5>2
            <4> QED BY <4>1, <4>2
        <3>6. MarkerReached(c)'
            BY <1>1, <1>3, <2>2, <2>3, <3>5 DEF MarkerReached
        <3> QED BY <3>3, <3>6 DEF ForkReaches
    <2> QED BY <2>4, <2>5, <2>7, ForkReachStep
<1> QED
    BY <1>4, <1>5

(* SetForkedMarker *)
LEMMA SetReaches ==
    ASSUME ReachInv, ~panicked, NEW c \in Conflict, SetForkedMarker(c)
    PROVE  ForksReach'
<1> USE DEF ReachInv
<1> DEFINE r == fork[c]
<1>1. /\ r.pc = "set"
      /\ UNCHANGED <<markerVars, added, subtracted, booked, booking, panicked>>
    BY DEF SetForkedMarker
<1>2. r \in ForkState /\ ForkApproved(c) /\ ForkShape(c) /\ r.pushedMarkers \subseteq Made
    BY ForkTyped DEF ForksReach
<1>3. PICK u \in r.setting : \E next :
        /\ mapping' = WithMapping(<<u[1], u[2]>>, u[3])
        /\ fork' = [fork EXCEPT ![c].pc = "marker", ![c].setting = {},
                                ![c].markers = @ \cup (next \ fork[c].pushedMarkers),
                                ![c].pushedMarkers = @ \cup next]
    BY DEF SetForkedMarker
<1>4. PICK next :
        /\ mapping' = WithMapping(<<u[1], u[2]>>, u[3])
        /\ fork' = [fork EXCEPT ![c].pc = "marker", ![c].setting = {},
                                ![c].markers = @ \cup (next \ fork[c].pushedMarkers),
                                ![c].pushedMarkers = @ \cup next]
    BY <1>3
<1> DEFINE m == <<u[1], u[2]>>
           th == [r EXCEPT !.pc = "marker", !.setting = {}, !.markers = r.markers \cup (next \ r.pushedMarkers),
                           !.pushedMarkers = r.pushedMarkers \cup next]
<1>5. mapping' = WithMapping(m, u[3]) /\ fork' = [fork EXCEPT ![c] = th]
    BY <1>4
<1>6. m \in r.pushedMarkers /\ m \in Made /\ c \in u[3] /\ \A v \in r.setting : <<v[1], v[2]>> = m
    BY <1>2 DEF ForkApproved, ForkShape
<1> HIDE DEF m
<1>7. MappingJustified /\ details' = details
    BY <1>1 DEF BookerInv, ApprovedInv, markerVars
<1> HIDE DEF r
<1>8. /\ th.pc = "marker" /\ th.markers = r.markers \cup (next \ r.pushedMarkers) /\ th.setting = {}
      /\ th.queue = r.queue /\ th.pushed = r.pushed /\ th.locked = r.locked
    BY <1>2 DEF ForkState
<1> HIDE DEF th
<1>9. fork'[c] = th /\ ForksGoOn /\ \A e \in Conflict : e # c => fork'[e] = fork[e]
    BY <1>5, <1>8, ForkGoesOn
<1>10. ForkChanges(c)
    BY <1>1, <1>5, <1>6, <1>9 DEF ForkChanges, r
<1>11. ForkShape(c)'
    BY <1>2, <1>8, <1>9 DEF ForkShape, r
<1>12. \A n : (n = m => MarkerHas(n, c)') /\ (n[2] \in Nat /\ MarkerHas(n, c) => MarkerHas(n, c)')
    <2>1. ASSUME NEW k, NEW es, k = m, es = u[3]
          PROVE  MarkerHas(k, c)' /\ \A n : n[2] \in Nat /\ MarkerHas(n, c) => MarkerHas(n, c)'
        BY <1>5, <1>6, <1>7, <2>1, SetGives
    <2> QED BY <2>1
<1>13. Stays(c)
    BY <1>1, <1>9, <1>12, AddedStays DEF r
<1>14. ASSUME ParentConflicts[c] = {} PROVE ForkReaches(c)'
    <2>1. ForkReaches(c)
        BY <1>14 DEF ForksReach
    <2>2. PICK S \in SUBSET Block : Reaches(c, S)
        BY <2>1 DEF ForkReaches
    <2>3. Reaches(c, S)'
        BY <1>1, <1>8, <1>9, <1>13, <2>2, SameReach DEF r
    <2>4. ASSUME NEW b \in r.locked
          PROVE  /\ b \in booked /\ details[b].isPastMarker
                 /\ Undisturbed(b, c)' => \A n \in details[b].pastMarkers : n \in th.markers \/ MarkerHas(n, c)'
        <3>1. /\ b \in booked /\ details[b].isPastMarker /\ b \in Block
              /\ Undisturbed(b, c) => \A n \in details[b].pastMarkers :
                    n \in r.markers \/ MarkerHas(n, c) \/ \E v \in r.setting : <<v[1], v[2]>> = n
            BY <2>1, <2>4, ForkTyped DEF ForkReaches, MarkerReached, r
        <3>2. ASSUME Undisturbed(b, c)', NEW n \in details[b].pastMarkers PROVE n \in th.markers \/ MarkerHas(n, c)'
            <4>1. Undisturbed(b, c) /\ (MarkerHas(n, c) => MarkerHas(n, c)')
                BY <1>13, <3>1, <3>2 DEF Stays
            <4>2. n \in r.markers \/ MarkerHas(n, c)' \/ n = m
                BY <1>6, <3>1, <4>1
            <4> QED BY <1>8, <1>12, <4>2
        <3> QED BY <3>1, <3>2
    <2>5. MarkerReached(c)'
        BY <1>1, <1>7, <1>8, <1>9, <2>4 DEF MarkerReached
    <2> QED BY <2>3, <2>5 DEF ForkReaches
<1> QED
    BY <1>10, <1>11, <1>14, ForkReachStep

(* LeaveMarker and EndFork *)
LEMMA LeaveReaches ==
    ASSUME ReachInv, ~panicked, NEW c \in Conflict, LeaveMarker(c) \/ EndFork(c)
    PROVE  ForksReach'
<1> USE DEF ReachInv
<1> DEFINE r == fork[c]
<1>1. UNCHANGED <<markerVars, mapping, added, subtracted, booked, booking, panicked>> /\ details' = details
    BY DEF LeaveMarker, EndFork, markerVars
<1>2. /\ r \in ForkState /\ ForkApproved(c) /\ ForkShape(c) /\ r.locked \subseteq Block
      /\ r.pc # "set" => r.setting = {}
    BY ForkTyped DEF ForksReach, ForkApproved
<1>3. CASE LeaveMarker(c)
    <2>1. r.pc = "marker" /\ r.markers = {} /\ r.setting = {}
        BY <1>2, <1>3 DEF LeaveMarker
    <2>2. PICK b \in r.locked : fork' = [fork EXCEPT ![c] =
                                    [Push(@, b, StrongChildren(b)) EXCEPT !.pc = "walk", !.locked = {}]]
        BY <1>3 DEF LeaveMarker
    <2>3. b \in Block /\ r.locked \subseteq {b} /\ Approves(b, c)
        BY <1>2, <2>2 DEF ForkShape, ForkApproved
    <2> DEFINE S == StrongChildren(b)
               p == Push(r, b, S)
               th == [p EXCEPT !.pc = "walk", !.locked = {}]
    <2>4. fork' = [fork EXCEPT ![c] = th]
        BY <2>2
    <2>5. S \in SUBSET Block
        BY DEF StrongChildren
    <2> HIDE DEF r, S
    <2>6. /\ p.queue = (r.queue \ {b}) \cup (S \ r.pushed) /\ p.pushed = r.pushed \cup S
          /\ p.setting = r.setting /\ p \in ForkState
        BY <1>2, <2>5 DEF Push, ForkState
    <2> HIDE DEF p
    <2>7. /\ th.pc = "walk" /\ th.locked = {} /\ th.queue = p.queue /\ th.pushed = p.pushed /\ th.setting = p.setting
        BY <2>6 DEF ForkState
    <2> HIDE DEF th
    <2>8. fork'[c] = th /\ ForksGoOn /\ \A e \in Conflict : e # c => fork'[e] = fork[e]
        BY <2>4, <2>7, ForkGoesOn
    <2>9. ForkChanges(c)
        BY <1>1, <2>8 DEF ForkChanges
    <2>10. ForkShape(c)'
        BY <2>1, <2>6, <2>7, <2>8 DEF ForkShape
    <2>11. Stays(c)
        BY <1>1, <2>1, <2>8, AddedStays, HasKept DEF r
    <2>12. ASSUME ParentConflicts[c] = {} PROVE ForkReaches(c)'
        <3>1. ForkReaches(c)
            BY <2>12 DEF ForksReach
        <3>2. PICK T \in SUBSET Block : Reaches(c, T)
            BY <3>1 DEF ForkReaches
        <3>3. /\ b \in booked
              /\ Undisturbed(b, c) => \A n \in details[b].pastMarkers : MarkerHas(n, c)
            BY <2>1, <2>2, <3>1 DEF ForkReaches, MarkerReached, r
        <3>4. Settled(b, c)
            <4>1. booking[b].pc = "idle" /\ details[b].pastMarkers # {}
                BY <3>3, BookedIdle DEF Placed
            <4>2. ASSUME Undisturbed(b, c) PROVE BlockHas(b, c)
                <5>1. c \notin subtracted[b]
                    BY <2>3, <4>2, PastConeClosed DEF Undisturbed
                <5> QED BY <3>3, <4>1, <4>2, <5>1 DEF BlockHas
            <4> QED BY <4>1, <4>2 DEF Settled
        <3>5. Settled(b, c)'
            BY <1>1, <2>3, <2>11, <3>4, SettledKept
        <3>6. /\ fork'[c].queue = (fork[c].queue \ {b}) \cup (StrongChildren(b) \ fork[c].pushed)
              /\ fork'[c].pushed = fork[c].pushed \cup StrongChildren(b)
              /\ fork[c].locked \subseteq {b} /\ fork[c].pc # "idle" /\ added' = added
            BY <1>1, <2>1, <2>3, <2>6, <2>7, <2>8 DEF r, S
        <3>7. Reaches(c, T \cup {b})'
            BY <1>1, <2>3, <2>11, <3>2, <3>3, <3>5, <3>6, VisitReach
        <3>8. T \cup {b} \in SUBSET Block
            BY <2>3
        <3>9. MarkerReached(c)'
            BY <2>7, <2>8 DEF MarkerReached
        <3> QED BY <3>7, <3>8, <3>9 DEF ForkReaches
    <2> QED BY <2>9, <2>10, <2>12, ForkReachStep
<1>4. CASE EndFork(c)
    <2> DEFINE th == [r EXCEPT !.pc = "done"]
    <2>1. fork' = [fork EXCEPT ![c] = th] /\ r.pc = "walk" /\ r.queue = {}
        BY <1>4 DEF EndFork
    <2> HIDE DEF r
    <2>2. /\ th.pc = "done" /\ th.setting = r.setting /\ th.queue = r.queue
          /\ th.pushed = r.pushed /\ th.locked = r.locked
        BY <1>2 DEF ForkState
    <2> HIDE DEF th
    <2>3. fork'[c] = th /\ ForksGoOn /\ \A e \in Conflict : e # c => fork'[e] = fork[e]
        BY <2>1, <2>2, ForkGoesOn
    <2>4. ForkChanges(c)
        BY <1>1, <2>3 DEF ForkChanges
    <2>5. ForkShape(c)'
        BY <1>2, <2>1, <2>2, <2>3 DEF ForkShape, r
    <2>6. Stays(c)
        BY <1>1, <2>1, <2>3, AddedStays, HasKept DEF r
    <2>7. ASSUME ParentConflicts[c] = {} PROVE ForkReaches(c)'
        <3>1. PICK S \in SUBSET Block : Reaches(c, S)
            BY <2>7 DEF ForksReach, ForkReaches
        <3>2. Reaches(c, S)'
            BY <1>1, <2>1, <2>2, <2>3, <2>6, <3>1, SameReach DEF r
        <3>3. fork[c].locked = {}
            BY <1>2, <2>1 DEF ForkApproved, r
        <3>4. MarkerReached(c)'
            BY <2>2, <2>3, <3>3 DEF MarkerReached, r
        <3> QED BY <3>2, <3>4 DEF ForkReaches
    <2> QED BY <2>4, <2>5, <2>7, ForkReachStep
<1> QED
    BY <1>3, <1>4

(* No fork has begun. *)
LEMMA InitReaches ==
    ASSUME InitBooker
    PROVE  ForksReach
<1>1. SubtractedLast
    BY DEF InitBooker, SubtractedLast
<1>2. ASSUME NEW c \in Conflict PROVE ForkShape(c) /\ ForkReaches(c)
    <2>1. fork[c] = NotForking
        BY DEF InitBooker
    <2>2. /\ fork[c].pc = "idle" /\ fork[c].queue = {} /\ fork[c].pushed = {} /\ fork[c].locked = {}
          /\ fork[c].setting = {}
        BY <2>1 DEF NotForking
    <2>3. ForkShape(c) /\ MarkerReached(c)
        BY <2>2 DEF ForkShape, MarkerReached
    <2> DEFINE S == {}
    <2>4. S \in SUBSET Block /\ \A b \in S : FALSE
        OBVIOUS
    <2>5. \A b \in Block : c \notin added[b]
        BY DEF InitBooker
    <2> HIDE DEF S
    <2>6. Reaches(c, S)
        BY <2>2, <2>4, <2>5 DEF Reaches
    <2> QED BY <2>3, <2>4, <2>6 DEF ForkReaches
<1> QED
    BY <1>1, <1>2 DEF ForksReach

(* No step of the booker makes a fork miss a block. *)
LEMMA NextReaches == ReachInv /\ NextBooker => ReachInv'
<1> SUFFICES ASSUME ReachInv, NextBooker PROVE ForksReach'
    BY NextKeeps DEF ReachInv
<1>1. ~panicked
    BY DEF NextBooker
<1>2. ASSUME NEW b \in Block, DetermineBookingDetails(b) PROVE ForksReach'
    BY <1>1, <1>2, DetermineReaches
<1>3. ASSUME NEW b \in Block, InheritStructureDetails(b) \/ RegisterReferencingMarker(b) PROVE ForksReach'
    BY <1>1, <1>3, DetailsReach
<1>4. ASSUME NEW b \in Block, InheritConflictIDs(b) PROVE ForksReach'
    BY <1>1, <1>4, InheritConflictsReach
<1>5. ASSUME NEW c \in Conflict, StartFork(c) PROVE ForksReach'
    BY <1>1, <1>5, StartReaches
<1>6. ASSUME NEW c \in Conflict, NEW b \in Block, PropagateForkedConflict(c, b) PROVE ForksReach'
    BY <1>1, <1>6, PropagateReaches
<1>7. ASSUME NEW c \in Conflict, NEW m, ForkSingleMarker(c, m) PROVE ForksReach'
    BY <1>1, <1>7, SingleReaches
<1>8. ASSUME NEW c \in Conflict, SetForkedMarker(c) PROVE ForksReach'
    BY <1>1, <1>8, SetReaches
<1>9. ASSUME NEW c \in Conflict, LeaveMarker(c) \/ EndFork(c) PROVE ForksReach'
    BY <1>1, <1>9, LeaveReaches
<1> QED
    BY <1>2, <1>3, <1>4, <1>5, <1>6, <1>7, <1>8, <1>9 DEF NextBooker

(* Nor does a step of anything else. *)
LEMMA StutterReaches == ReachInv /\ UNCHANGED bookerVars => ReachInv'
<1> SUFFICES ASSUME ReachInv, UNCHANGED bookerVars PROVE ForksReach'
    BY StutterKeeps DEF ReachInv
<1>1. /\ UNCHANGED markerVars /\ mapping' = mapping /\ added' = added /\ subtracted' = subtracted
      /\ booked' = booked /\ booking' = booking /\ fork' = fork /\ panicked' = panicked /\ details' = details
    BY DEF bookerVars, markerVars
<1>2. booked \subseteq Block /\ \A x \in booked : booking'[x].pc = "idle"
    BY <1>1, BookedIdle DEF ReachInv
<1>3. ForksGoOn
    BY <1>1 DEF ForksGoOn
<1>4. ASSUME NEW c \in Conflict, ParentConflicts[c] = {}, ~panicked PROVE ForkReaches(c)'
    <2>1. Stays(c)
        BY <1>1, <1>2, <1>3, StaysWith, HasKept
    <2>2. ForkReaches(c) /\ fork[c].queue \subseteq Block
        BY <1>4, ForkTyped DEF ReachInv, ForksReach
    <2> QED BY <1>1, <1>2, <2>1, <2>2, OthersReach
<1>5. SubtractedLast'
    BY <1>1 DEF ReachInv, ForksReach, SubtractedLast
<1> QED
    BY <1>1, <1>4, <1>5, ShapeKept DEF ReachInv, ForksReach

(* A set that holds the attachments of c and the children of its blocks holds all that approve c. *)
LEMMA FutureConeReached ==
    ASSUME NEW c \in Conflict, NEW S \in SUBSET Block, Attachments[c] \subseteq S,
           \A x \in S : StrongChildren(x) \subseteq S, NEW b \in Block, Approves(b, c)
    PROVE  b \in S
<1> DEFINE C == {y \in Block : Approves(y, c) /\ y \notin S}
<1>1. ASSUME C # {} PROVE FALSE
    <2>1. C \in SUBSET Block
        OBVIOUS
    <2>2. PICK y \in C : StrongParents[y] \cap C = {}
        <3> HIDE DEF C
        <3> QED BY <1>1, <2>1, MarkersAssumption
    <2>3. PastCone[y] = {y} \cup UNION {PastCone[p] : p \in StrongParents[y]}
        BY PastConeUnfolds
    <2>4. PICK z \in PastCone[y] : z \in Attachments[c]
        BY DEF Approves
    <2>5. PICK p \in StrongParents[y] : z \in PastCone[p]
        BY <2>3, <2>4
    <2>6. p \in Block /\ Approves(p, c)
        BY <2>4, <2>5, MarkersAssumption DEF Approves
    <2>7. p \in S
        BY <2>2, <2>6
    <2> QED BY <2>5, <2>7 DEF StrongChildren
<1> QED
    BY <1>1

(***************************************************************************)
(* PropagateForkedConflict with bookings of any blocks in between: when    *)
(* both are over, every booked block above the forked transaction has its  *)
(* conflict, unless another conflict or a subtracted one is involved.      *)
(***************************************************************************)
THEOREM ForksReachTheirFutureCone == SpecBooker => []ForkReachesBlocks
<1>1. InitBooker => ReachInv
    BY InitReaches, InitMarkersInv, InitApproved DEF ReachInv, BookerInv, InitBooker
<1>2. ReachInv /\ [NextBooker]_bookerVars => ReachInv'
    BY NextReaches, StutterReaches
<1>3. ReachInv => ForkReachesBlocks
    <2> SUFFICES ASSUME ReachInv, QuietBooker, NEW b \in booked, NEW c \in Conflict, Undisturbed(b, c)
                 PROVE  c \in BlockConflictIDs(b)
        BY DEF ForkReachesBlocks
    <2>1. b \in Block
        BY BookedIdle DEF ReachInv
    <2>2. Approves(b, c) /\ fork[c].pc = "done"
        BY DEF Undisturbed, Approved, Approves, QuietBooker
    <2>3. fork[c].queue = {} /\ fork[c].locked = {}
        BY <2>2, ForkTyped DEF ReachInv, ForksReach, ForkShape, ForkApproved
    <2>4. PICK S \in SUBSET Block : Reaches(c, S)
        BY DEF ReachInv, ForksReach, ForkReaches, Undisturbed, QuietBooker
    <2>5. Attachments[c] \subseteq S /\ \A x \in S : StrongChildren(x) \subseteq S
        BY <2>2, <2>3, <2>4 DEF Reaches
    <2>6. b \in S
        BY <2>1, <2>2, <2>5, FutureConeReached
    <2>7. BlockHas(b, c)
        BY <2>4, <2>6 DEF Reaches, Settled
    <2> QED BY <2>7 DEF BlockHas, BlockConflictIDs, PastMarkersConflictIDs, MarkerHas
<1> QED
    BY <1>1, <1>2, <1>3, PTL DEF SpecBooker

-----------------------------------------------------------------------------
(* The scheduler: the inductive invariant, part by part. *)

(* A block enters the queues once, when its BlockProcessed handler submits it. *)
QueuedHandled == submitted \cup inbox \subseteq handled

(* Every queue is in the ring, and in one place of it. *)
RingConsistent ==
    /\ \A b \in submitted \cup inbox : Issuer[b] \in Active
    /\ \A i, j \in DOMAIN ring : ring[i] = ring[j] => i = j

(* What a tryReady call has found out remains true. *)
PassedReady == \A t \in passed : isReady(t[2])

(* A block that is ready and waits is about to be tried, or the handler of a parent's acceptance   *)
(* is about to try it.                                                                             *)
ReadyNoticed ==
    \A b \in submitted : isReady(b) =>
        \/ \E c \in Caller : <<c, b>> \in trying \cup passed
        \/ \E p \in Parents[b] : p \in accepted \ scheduled

QueuesInv == SchedulerTypeOK /\ QueuedHandled /\ SizeConsistent /\ RingConsistent

ReadyInv == PassedReady /\ ParentsEligible /\ ReadyNoticed

-----------------------------------------------------------------------------
(* Arithmetic. *)

LEMMA ProductNat ==
    ASSUME NEW a \in Nat, NEW b \in Nat
    PROVE  a * b \in Nat
    OBVIOUS

LEMMA ProductMonotone ==
    ASSUME NEW a \in Nat, NEW b \in Nat, NEW c \in Nat, a <= b
    PROVE  a * c <= b * c
    OBVIOUS

LEMMA ProductStrict ==
    ASSUME NEW a \in Nat, NEW b \in Nat, NEW c \in Nat \ {0}, a < b
    PROVE  a * c < b * c
    OBVIOUS

(* Fractions a/b, c/d, e/f compared by products. *)
LEMMA FractionsTransitive ==
    ASSUME NEW a \in Nat, NEW c \in Nat, NEW e \in Nat,
           NEW b \in Nat \ {0}, NEW d \in Nat \ {0}, NEW f \in Nat \ {0},
           a * d >= c * b, c * f >= e * d
    PROVE  /\ a * f >= e * b
           /\ a * d > c * b \/ c * f > e * d => a * f > e * b
<1>1. (a * d) * f >= (c * b) * f /\ (c * f) * b >= (e * d) * b
    BY ProductMonotone
<1>2. (a * f) * d = (a * d) * f /\ (c * b) * f = (c * f) * b /\ (e * d) * b = (e * b) * d
    OBVIOUS
<1>3. a * f \in Nat /\ e * b \in Nat /\ a * d \in Nat /\ c * b \in Nat /\ c * f \in Nat /\ e * d \in Nat
    OBVIOUS
<1>4. a * f >= e * b
    <2>1. CASE a * f < e * b
        BY <1>1, <1>2, <1>3, <2>1, ProductStrict
    <2> QED BY <1>3, <2>1
<1>5. ASSUME a * d > c * b \/ c * f > e * d PROVE a * f > e * b
    <2>1. (a * d) * f > (c * b) * f \/ (c * f) * b > (e * d) * b
        BY <1>3, <1>5, ProductStrict
    <2>2. CASE a * f <= e * b
        BY <1>1, <1>2, <1>3, <2>1, <2>2, ProductMonotone
    <2> QED BY <1>3, <2>2
<1> QED
    BY <1>4, <1>5

LEMMA DivByFactor ==
    ASSUME NEW x \in Nat, NEW m \in Nat \ {0}
    PROVE  (x * m) \div m = x
    OBVIOUS

LEMMA DivIsNat ==
    ASSUME NEW x \in Nat, NEW m \in Nat \ {0}
    PROVE  x \div m \in Nat
    OBVIOUS

-----------------------------------------------------------------------------
(* The choices of the queues are defined. *)

(* A set of natural numbers has a least one. *)
LEMMA LeastExists ==
    ASSUME NEW T \in SUBSET Nat, T # {}
    PROVE  \E m \in T : \A n \in T : m <= n
<1>1. PICK t \in T : \A s \in T : ~(<<s, t>> \in OpToRel(<, Nat))
    BY NatLessThanWellFounded, WFMin
<1>2. ASSUME NEW n \in T PROVE t <= n
    <2>1. ~(n < t)
        BY <1>1 DEF OpToRel
    <2> QED BY <2>1
<1> QED
    BY <1>2

(* Front of a queue. *)
LEMMA OldestIsOne ==
    ASSUME NEW S \in SUBSET Block, S # {}
    PROVE  Oldest(S) \in S /\ \A c \in S : IssuingTime[Oldest(S)] <= IssuingTime[c]
<1> DEFINE T == {IssuingTime[b] : b \in S}
<1>1. IssuingTime \in [Block -> Nat]
    BY SchedulerAssumption
<1>2. T \subseteq Nat /\ T # {}
    BY <1>1
<1>3. PICK t \in T : \A n \in T : t <= n
    <2> HIDE DEF T
    <2> QED BY <1>2, LeastExists
<1>4. PICK b \in S : IssuingTime[b] = t
    BY <1>3
<1>5. \A c \in S : IssuingTime[b] <= IssuingTime[c]
    BY <1>3, <1>4
<1> QED
    BY <1>5 DEF Oldest

LEMMA ManaPositive ==
    ASSUME mana' \in ManaVectors, NEW n \in Node
    PROVE  GetCachedMana(n) \in Nat \ {0}
    BY SchedulerAssumption DEF GetCachedMana, MinMana

LEMMA QueueFinite ==
    ASSUME NEW S \in SUBSET Block, NEW n
    PROVE  QueueOf(S, n) \in SUBSET Block /\ IsFiniteSet(QueueOf(S, n)) /\ Cardinality(QueueOf(S, n)) \in Nat
<1>1. QueueOf(S, n) \in SUBSET Block
    BY DEF QueueOf
<1> QED
    BY <1>1, FS_Subset, FS_CardinalityType, SchedulerAssumption

(* A sequence of fractions has a first greatest one: the search of dropHead finds a queue. *)
FirstGreatest(k, len, weight, i) ==
    /\ i \in 1 .. k
    /\ \A j \in 1 .. k : IF j < i THEN len[i] * weight[j] > len[j] * weight[i]
                                  ELSE ~(len[j] * weight[i] > len[i] * weight[j])

LEMMA FirstGreatestExists ==
    ASSUME NEW k \in Nat \ {0}, NEW len \in [1 .. k -> Nat], NEW weight \in [1 .. k -> Nat \ {0}]
    PROVE  \E i \in 1 .. k : FirstGreatest(k, len, weight, i)
<1> DEFINE Bad == {m \in 1 .. k : \A i \in 1 .. m : ~FirstGreatest(m, len, weight, i)}
<1>0. k \in 1 .. k
    OBVIOUS
<1>1. SUFFICES ASSUME Bad # {} PROVE FALSE
    BY <1>0
<1>2. PICK m \in Bad : \A n \in Bad : m <= n
    <2>1. Bad \in SUBSET Nat
        OBVIOUS
    <2> HIDE DEF Bad
    <2> QED BY <1>1, <2>1, LeastExists
<1>3. m \in 1 .. k
    BY <1>2
<1>4. m # 1
    <2>1. SUFFICES ASSUME m = 1 PROVE FALSE
        OBVIOUS
    <2>2. FirstGreatest(1, len, weight, 1)
        <3>1. \A j \in 1 .. 1 : j = 1
            OBVIOUS
        <3>2. len[1] * weight[1] \in Nat
            BY <1>3
        <3> QED BY <3>1, <3>2 DEF FirstGreatest
    <2> QED BY <1>2, <2>1, <2>2
<1>5. m - 1 \in 1 .. k /\ m - 1 \notin Bad
    BY <1>2, <1>3, <1>4
<1>6. PICK i \in 1 .. m - 1 : FirstGreatest(m - 1, len, weight, i)
    BY <1>5
<1>7. i \in 1 .. k /\ len[i] \in Nat /\ len[m] \in Nat /\ weight[i] \in Nat \ {0} /\ weight[m] \in Nat \ {0}
    BY <1>3, <1>6
<1>8. CASE len[m] * weight[i] > len[i] * weight[m]
    <2>1. ASSUME NEW j \in 1 .. m - 1 PROVE len[m] * weight[j] > len[j] * weight[m]
        <3>1. j \in 1 .. k /\ len[j] \in Nat /\ weight[j] \in Nat \ {0}
            BY <1>3
        <3>2. len[i] * weight[j] \in Nat /\ len[j] * weight[i] \in Nat /\ len[m] * weight[i] \in Nat /\ len[i] * weight[m] \in Nat
            BY <1>7, <3>1, ProductNat
        <3>3. len[i] * weight[j] >= len[j] * weight[i]
            <4>1. IF j < i THEN len[i] * weight[j] > len[j] * weight[i] ELSE ~(len[j] * weight[i] > len[i] * weight[j])
                BY <1>6 DEF FirstGreatest
            <4> QED BY <3>2, <4>1
        <3>4. len[m] * weight[i] >= len[i] * weight[m]
            BY <1>8, <3>2
        <3> QED BY <1>7, <1>8, <3>1, <3>3, <3>4, FractionsTransitive
    <2>2. len[m] * weight[m] \in Nat
        BY <1>7
    <2>3. FirstGreatest(m, len, weight, m)
        <3>1. \A j \in 1 .. m : j < m => j \in 1 .. m - 1
            BY <1>3
        <3>2. \A j \in 1 .. m : ~(j < m) => j = m
            BY <1>3
        <3> QED BY <1>3, <2>1, <2>2, <3>1, <3>2 DEF FirstGreatest
    <2> QED BY <1>2, <1>3, <2>3
<1>9. CASE ~(len[m] * weight[i] > len[i] * weight[m])
    <2>1. FirstGreatest(m, len, weight, i)
        <3>1. ASSUME NEW j \in 1 .. m
              PROVE  IF j < i THEN len[i] * weight[j] > len[j] * weight[i] ELSE ~(len[j] * weight[i] > len[i] * weight[j])
            <4>1. CASE j \in 1 .. m - 1
                BY <1>6, <4>1 DEF FirstGreatest
            <4>2. CASE j = m
                <5>1. ~(j < i)
                    BY <1>3, <1>6, <4>2
                <5> QED BY <1>9, <4>2, <5>1
            <4> QED BY <1>3, <4>1, <4>2
        <3>2. i \in 1 .. m
            BY <1>3, <1>6
        <3> QED BY <3>1, <3>2 DEF FirstGreatest
    <2> QED BY <1>2, <1>3, <1>6, <2>1
<1> QED
    BY <1>8, <1>9

(* dropHead drops a block that is in the queues. *)
LEMMA DroppedIsQueued ==
    ASSUME mana' \in ManaVectors, NEW nodes \in Seq(Node), NEW S \in SUBSET Block, NEW R \in SUBSET Block,
           NEW b \in S \cup R, \E i \in DOMAIN nodes : nodes[i] = Issuer[b]
    PROVE  Dropped(nodes, S, R) \in S \cup R
<1> DEFINE length(i) == Cardinality(QueueOf(S \cup R, nodes[i]))
           longer(i, j) == length(i) * GetCachedMana(nodes[j]) > length(j) * GetCachedMana(nodes[i])
           longest == CHOOSE i \in DOMAIN nodes :
                        \A j \in DOMAIN nodes : IF j < i THEN longer(i, j) ELSE ~longer(j, i)
           waiting == QueueOf(S, nodes[longest])
           ready   == QueueOf(R, nodes[longest])
           k == Len(nodes)
           len == [i \in 1 .. k |-> length(i)]
           weight == [i \in 1 .. k |-> GetCachedMana(nodes[i])]
<1>1. k \in Nat \ {0} /\ DOMAIN nodes = 1 .. k
    OBVIOUS
<1>2. \A i \in 1 .. k : length(i) \in Nat /\ GetCachedMana(nodes[i]) \in Nat \ {0}
    <2>1. ASSUME NEW i \in 1 .. k PROVE length(i) \in Nat /\ GetCachedMana(nodes[i]) \in Nat \ {0}
        <3>1. nodes[i] \in Node
            OBVIOUS
        <3>2. S \cup R \in SUBSET Block
            OBVIOUS
        <3>3. length(i) \in Nat
            BY <3>2, QueueFinite
        <3> QED BY <3>1, <3>3, ManaPositive
    <2> QED BY <2>1
<1>3. \E i \in 1 .. k : FirstGreatest(k, len, weight, i)
    <2>1. len \in [1 .. k -> Nat] /\ weight \in [1 .. k -> Nat \ {0}]
        BY <1>2
    <2> HIDE DEF len, weight, k
    <2> QED BY <1>1, <2>1, FirstGreatestExists
<1>4. \E i \in DOMAIN nodes : \A j \in DOMAIN nodes : IF j < i THEN longer(i, j) ELSE ~longer(j, i)
    <2>1. \A i \in 1 .. k : len[i] = length(i) /\ weight[i] = GetCachedMana(nodes[i])
        OBVIOUS
    <2> HIDE DEF len, weight, k, length
    <2> QED BY <1>1, <1>3, <2>1 DEF FirstGreatest
<1>5. longest \in 1 .. k /\ \A j \in 1 .. k : ~(j < longest) => ~longer(j, longest)
    <2> HIDE DEF k, length, longer
    <2> QED BY <1>1, <1>4
<1>6. \A j \in 1 .. k : j < longest => longer(longest, j)
    <2> HIDE DEF k, length, longer
    <2> QED BY <1>1, <1>4
<1>7. PICK i \in 1 .. k : nodes[i] = Issuer[b]
    BY <1>1
<1>8. length(i) > 0
    <2>1. b \in QueueOf(S \cup R, nodes[i])
        BY <1>7 DEF QueueOf
    <2>2. IsFiniteSet(QueueOf(S \cup R, nodes[i]))
        <3>1. S \cup R \in SUBSET Block
            OBVIOUS
        <3> QED BY <3>1, QueueFinite
    <2>3. length(i) # 0
        BY <2>1, <2>2, FS_EmptySet
    <2>4. length(i) \in Nat
        BY <1>2
    <2> HIDE DEF length
    <2> QED BY <2>3, <2>4
<1> HIDE DEF longest, k, len, weight
<1>9. length(longest) > 0
    <2>1. ~longer(i, longest)
        <3>1. CASE i < longest
            <4>1. longer(longest, i)
                BY <1>6, <1>7, <3>1
            <4>2. length(longest) \in Nat /\ length(i) \in Nat
                BY <1>2, <1>5, <1>7
            <4>3. GetCachedMana(nodes[i]) \in Nat /\ GetCachedMana(nodes[longest]) \in Nat
                BY <1>2, <1>5, <1>7
            <4> HIDE DEF length
            <4> QED BY <4>1, <4>2, <4>3
        <3> QED BY <1>5, <1>7, <3>1
    <2>2. length(longest) \in Nat /\ length(i) \in Nat
        BY <1>2, <1>5, <1>7
    <2>3. GetCachedMana(nodes[i]) \in Nat \ {0} /\ GetCachedMana(nodes[longest]) \in Nat \ {0}
        BY <1>2, <1>5, <1>7
    <2> HIDE DEF length
    <2>4. CASE length(longest) = 0
        <3>1. length(longest) * GetCachedMana(nodes[i]) = 0
            BY <2>3, <2>4
        <3>2. length(i) * GetCachedMana(nodes[longest]) > 0
            BY <1>8, <2>2, <2>3
        <3> QED BY <2>1, <3>1, <3>2
    <2> QED BY <2>2, <2>4
<1>10. waiting \cup ready # {}
    <2>1. QueueOf(S \cup R, nodes[longest]) = waiting \cup ready
        BY DEF QueueOf
    <2>2. QueueOf(S \cup R, nodes[longest]) # {}
        <3>1. CASE QueueOf(S \cup R, nodes[longest]) = {}
            <4>1. length(longest) = 0
                BY <3>1, FS_EmptySet
            <4> HIDE DEF length
            <4> QED BY <1>9, <4>1
        <3> QED BY <3>1
    <2> QED BY <2>1, <2>2
<1>11. /\ waiting \in SUBSET Block /\ ready \in SUBSET Block
       /\ waiting # {} => Oldest(waiting) \in S
       /\ ready # {} => Oldest(ready) \in R
    <2>1. waiting \subseteq S /\ ready \subseteq R
        BY DEF QueueOf
    <2> HIDE DEF waiting, ready
    <2> QED BY <2>1, OldestIsOne
<1>12. Dropped(nodes, S, R) =
        IF waiting # {} /\ (ready = {} \/ IssuingTime[Oldest(waiting)] < IssuingTime[Oldest(ready)])
        THEN Oldest(waiting) ELSE Oldest(ready)
    BY DEF Dropped, longest
<1> HIDE DEF waiting, ready
<1> QED
    BY <1>10, <1>11, <1>12

-----------------------------------------------------------------------------
(* The ring. *)

Distinct(s) == \A i, j \in DOMAIN s : s[i] = s[j] => i = j

LEMMA OrdersOf ==
    ASSUME NEW S, IsFiniteSet(S), NEW f \in Orders(S)
    PROVE  /\ Cardinality(S) \in Nat /\ f \in [1 .. Cardinality(S) -> S] /\ f \in Seq(S) /\ Len(f) = Cardinality(S)
           /\ Distinct(f) /\ \A x \in S : \E i \in DOMAIN f : f[i] = x
<1> DEFINE c == Cardinality(S)
<1>1. c \in Nat
    BY FS_CardinalityType
<1>2. f \in [1 .. c -> S] /\ Distinct(f)
    BY DEF Orders, Distinct
<1>3. IsFiniteSet(1 .. c) /\ Cardinality(1 .. c) = c
    <2>1. 1 \in Int /\ c \in Int /\ (1 > c => c = 0)
        BY <1>1
    <2> HIDE DEF c
    <2> QED BY <1>1, <2>1, FS_Interval
<1>4. f \in Injection(1 .. c, S)
    BY <1>2 DEF Injection, Distinct, IsInjective
<1>5. f \in Surjection(1 .. c, S)
    BY <1>3, <1>4, FS_Injection
<1>6. \A x \in S : \E i \in 1 .. c : f[i] = x
    BY <1>5 DEF Surjection
<1> HIDE DEF c
<1> QED
    BY <1>1, <1>2, <1>6 DEF c

(* updateActiveNodesList keeps the nodes that have blocks or mana, and no node twice. *)
LEMMA ActiveRingsKeep ==
    ASSUME ring \in Seq(Node), Distinct(ring), NEW nodes \in ActiveRings
    PROVE  /\ nodes \in Seq(Node) /\ Distinct(nodes)
           /\ \A n \in Active : StaysActive(n) => \E i \in DOMAIN nodes : nodes[i] = n
<1> DEFINE stay == {i \in DOMAIN ring : StaysActive(ring[i])}
           new  == Joining \ {ring[i] : i \in stay}
<1>1. PICK f \in Increasing(stay), s \in Orders(new) : nodes = [k \in DOMAIN f |-> ring[f[k]]] \o s
    <2> DEFINE pick(f) == [k \in DOMAIN f |-> ring[f[k]]]
    <2>1. ActiveRings = {pick(f) \o s : f \in Increasing(stay), s \in Orders(new)}
        BY DEF ActiveRings
    <2>2. \E f \in Increasing(stay), s \in Orders(new) : nodes = pick(f) \o s
        <3> HIDE DEF stay, new, pick
        <3> QED BY <2>1
    <2> QED BY <2>2
<1> DEFINE front == [k \in DOMAIN f |-> ring[f[k]]]
<1>2. IsFiniteSet(stay) /\ stay \subseteq 1 .. Len(ring)
    <2>1. stay \in SUBSET (1 .. Len(ring))
        OBVIOUS
    <2>2. Len(ring) \in Nat
        OBVIOUS
    <2> HIDE DEF stay, new, front
    <2>3. IsFiniteSet(1 .. Len(ring))
        BY <2>2, FS_Interval
    <2> QED BY <2>1, <2>3, FS_Subset
<1>3. IsFiniteSet(new) /\ new \subseteq Node
    <2>1. new \in SUBSET Node
        BY DEF Joining
    <2> HIDE DEF new
    <2> QED BY <2>1, FS_Subset, SchedulerAssumption
<1>4. \A i \in stay : ring[i] \notin new
    OBVIOUS
<1>5. \A n \in Active : StaysActive(n) => \E i \in stay : ring[i] = n
    BY DEF Active
<1> HIDE DEF stay, new
<1>6. f \in Orders(stay)
    BY DEF Increasing
<1> DEFINE c == Cardinality(stay)
           d == Cardinality(new)
<1>7. c \in Nat /\ f \in [1 .. c -> stay] /\ Distinct(f) /\ \A x \in stay : \E i \in DOMAIN f : f[i] = x
    BY <1>2, <1>6, OrdersOf
<1>8. d \in Nat /\ s \in [1 .. d -> new] /\ s \in Seq(new) /\ Len(s) = d /\ Distinct(s)
    BY <1>3, OrdersOf
<1> HIDE DEF c, d
<1>9. /\ front \in Seq(Node) /\ Len(front) = c /\ DOMAIN front = 1 .. c
      /\ \A k \in 1 .. c : front[k] = ring[f[k]] /\ f[k] \in stay
    <2>1. \A k \in 1 .. c : ring[f[k]] \in Node
        <3>1. \A k \in 1 .. c : f[k] \in 1 .. Len(ring)
            BY <1>2, <1>7
        <3>2. \A x \in 1 .. Len(ring) : ring[x] \in Node
            OBVIOUS
        <3> QED BY <3>1, <3>2
    <2>2. front \in [1 .. c -> Node]
        BY <1>7, <2>1
    <2> QED BY <1>7, <2>2
<1>10. Distinct(front)
    <2> HIDE DEF front
    <2>1. SUFFICES ASSUME NEW i \in 1 .. c, NEW j \in 1 .. c, front[i] = front[j] PROVE i = j
        BY <1>9 DEF Distinct
    <2>2. f[i] = f[j]
        <3>0. DOMAIN ring = 1 .. Len(ring)
            OBVIOUS
        <3>1. f[i] \in DOMAIN ring /\ f[j] \in DOMAIN ring
            BY <1>2, <1>9, <3>0
        <3> QED BY <1>9, <2>1, <3>1 DEF Distinct
    <2> QED BY <1>7, <2>2 DEF Distinct
<1> HIDE DEF front
<1>11. s \in Seq(Node)
    BY <1>3, <1>8
<1>12. nodes = front \o s
    BY <1>1 DEF front
<1>13. /\ nodes \in Seq(Node) /\ Len(nodes) = c + d /\ DOMAIN nodes = 1 .. c + d
       /\ \A i \in 1 .. c + d : nodes[i] = IF i <= c THEN front[i] ELSE s[i - c]
    <2>1. /\ front \o s \in Seq(Node) /\ Len(front \o s) = c + d
          /\ \A i \in 1 .. c + d : (front \o s)[i] = IF i <= c THEN front[i] ELSE s[i - c]
        BY <1>8, <1>9, <1>11, ConcatProperties
    <2> QED BY <1>12, <2>1
<1>14. Distinct(nodes)
    <2>1. SUFFICES ASSUME NEW i \in 1 .. c + d, NEW j \in 1 .. c + d, nodes[i] = nodes[j] PROVE i = j
        BY <1>13 DEF Distinct
    <2>2. CASE i <= c /\ j <= c
        <3>1. i \in 1 .. c /\ j \in 1 .. c
            BY <1>7, <1>8, <2>2
        <3>2. front[i] = front[j]
            BY <1>13, <2>1, <2>2
        <3> QED BY <1>9, <1>10, <3>1, <3>2 DEF Distinct
    <2>3. CASE i > c /\ j > c
        <3>1. i - c \in 1 .. d /\ j - c \in 1 .. d
            BY <1>7, <1>8, <2>3
        <3>2. s[i - c] = s[j - c]
            BY <1>7, <1>8, <1>13, <2>1, <2>3
        <3>3. i - c = j - c
            BY <1>8, <3>1, <3>2 DEF Distinct
        <3> QED BY <1>7, <1>8, <3>3
    <2>4. ASSUME NEW k \in 1 .. c + d PROVE (k <= c => nodes[k] \notin new) /\ (k > c => nodes[k] \in new)
        <3>1. CASE k <= c
            <4>1. k \in 1 .. c /\ ~(k > c)
                BY <1>7, <1>8, <3>1
            <4> QED BY <1>4, <1>9, <1>13, <3>1, <4>1
        <3>2. CASE k > c
            <4>1. ~(k <= c) /\ k - c \in 1 .. d
                BY <1>7, <1>8, <3>2
            <4> QED BY <1>8, <1>13, <4>1
        <3> QED BY <1>7, <1>8, <3>1, <3>2
    <2>5. (i <= c \/ i > c) /\ (j <= c \/ j > c)
        BY <1>7, <1>8
    <2>6. ~(i <= c /\ j > c) /\ ~(i > c /\ j <= c)
        <3>1. /\ i <= c => nodes[i] \notin new
              /\ i > c => nodes[i] \in new
            BY <2>4
        <3>2. /\ j <= c => nodes[j] \notin new
              /\ j > c => nodes[j] \in new
            BY <2>4
        <3> QED BY <2>1, <3>1, <3>2
    <2> QED BY <2>2, <2>3, <2>5, <2>6
<1>15. ASSUME NEW n \in Active, StaysActive(n) PROVE \E i \in DOMAIN nodes : nodes[i] = n
    <2>1. PICK x \in stay : ring[x] = n
        BY <1>5, <1>15
    <2>2. PICK k \in 1 .. c : f[k] = x
        BY <1>7
    <2>3. k \in 1 .. c + d /\ k <= c
        BY <1>7, <1>8
    <2>4. nodes[k] = front[k] /\ front[k] = ring[f[k]] /\ k \in DOMAIN nodes
        BY <1>9, <1>13, <2>3
    <2> QED BY <2>1, <2>2, <2>4
<1> QED
    BY <1>13, <1>14, <1>15

(* schedule makes the scheduling node the current one. *)
LEMMA RotationKeeps ==
    ASSUME NEW nodes \in Seq(Node), Distinct(nodes), NEW s \in DOMAIN nodes
    PROVE  LET r == SubSeq(nodes, s, Len(nodes)) \o SubSeq(nodes, 1, s - 1)
           IN  /\ r \in Seq(Node) /\ Distinct(r)
               /\ \A i \in DOMAIN nodes : \E j \in DOMAIN r : r[j] = nodes[i]
<1> DEFINE n == Len(nodes)
           a == SubSeq(nodes, s, n)
           z == SubSeq(nodes, 1, s - 1)
           r == a \o z
<1>1. n \in Nat /\ s \in 1 .. n /\ DOMAIN nodes = 1 .. n
    OBVIOUS
<1>2. a \in Seq(Node) /\ Len(a) = n - s + 1 /\ \A i \in 1 .. n - s + 1 : a[i] = nodes[s + i - 1]
    BY <1>1
<1>3. z \in Seq(Node) /\ Len(z) = s - 1 /\ \A i \in 1 .. s - 1 : z[i] = nodes[i]
    BY <1>1
<1> HIDE DEF a, z, n
<1>4. /\ r \in Seq(Node) /\ Len(r) = n /\ DOMAIN r = 1 .. n
      /\ \A i \in 1 .. n : r[i] = IF i <= n - s + 1 THEN a[i] ELSE z[i - (n - s + 1)]
    <2>1. /\ a \o z \in Seq(Node) /\ Len(a \o z) = Len(a) + Len(z)
          /\ \A i \in 1 .. Len(a) + Len(z) : (a \o z)[i] = IF i <= Len(a) THEN a[i] ELSE z[i - Len(a)]
        BY <1>2, <1>3, ConcatProperties
    <2>2. Len(a) = n - s + 1 /\ Len(z) = s - 1 /\ n \in Nat /\ s \in Int
        BY <1>1, <1>2, <1>3
    <2>3. Len(a) + Len(z) = n
        BY <2>2
    <2>4. r \in Seq(Node) /\ Len(r) = n
        BY <2>1, <2>3
    <2>5. \A i \in 1 .. n : r[i] = IF i <= n - s + 1 THEN a[i] ELSE z[i - (n - s + 1)]
        BY <2>1, <2>2, <2>3
    <2> HIDE DEF r
    <2>6. DOMAIN r = 1 .. n
        BY <2>4
    <2> QED BY <2>4, <2>5, <2>6
<1> HIDE DEF r
<1>5. \A i \in 1 .. n : r[i] = IF i <= n - s + 1 THEN nodes[s + i - 1] ELSE nodes[i - (n - s + 1)]
    <2>1. \A i \in 1 .. n : i <= n - s + 1 => i \in 1 .. n - s + 1
        BY <1>1
    <2>2. \A i \in 1 .. n : ~(i <= n - s + 1) => i - (n - s + 1) \in 1 .. s - 1
        BY <1>1
    <2> QED BY <1>2, <1>3, <1>4, <2>1, <2>2
<1>6. Distinct(r)
    <2>1. SUFFICES ASSUME NEW i \in 1 .. n, NEW j \in 1 .. n, r[i] = r[j] PROVE i = j
        BY <1>4 DEF Distinct
    <2> DEFINE at(x) == IF x <= n - s + 1 THEN s + x - 1 ELSE x - (n - s + 1)
    <2>2. at(i) \in 1 .. n /\ at(j) \in 1 .. n
        BY <1>1
    <2>3. r[i] = nodes[at(i)] /\ r[j] = nodes[at(j)]
        BY <1>5
    <2>4. at(i) = at(j)
        <3> HIDE DEF at
        <3> QED BY <1>1, <2>1, <2>2, <2>3 DEF Distinct
    <2> QED BY <1>1, <2>4
<1>7. ASSUME NEW i \in 1 .. n PROVE \E j \in 1 .. n : r[j] = nodes[i]
    <2>1. CASE i >= s
        <3>1. i - s + 1 \in 1 .. n /\ i - s + 1 <= n - s + 1 /\ s + (i - s + 1) - 1 = i
            BY <1>1, <2>1
        <3> QED BY <1>5, <3>1
    <2>2. CASE i < s
        <3>1. i + (n - s + 1) \in 1 .. n /\ ~(i + (n - s + 1) <= n - s + 1) /\ (i + (n - s + 1)) - (n - s + 1) = i
            BY <1>1, <2>2
        <3> QED BY <1>5, <3>1
    <2> QED BY <1>1, <2>1, <2>2
<1> QED
    BY <1>1, <1>4, <1>6, <1>7 DEF r, a, z, n

-----------------------------------------------------------------------------
(* The deficits. *)

LEMMA MaxDeficitNat == MaxDeficit \in Nat /\ Unit \in Nat \ {0} /\ MaxBlockSize \in Nat
    BY SchedulerAssumption DEF MaxDeficit

LEMMA DeficitTyped ==
    ASSUME SchedulerTypeOK, NEW n
    PROVE  GetDeficit(n) \in 0 .. MaxDeficit
    BY MaxDeficitNat DEF GetDeficit, KeptDeficits, SchedulerTypeOK

LEMMA CostTyped ==
    ASSUME NEW R \in SUBSET Block, NEW n, QueueOf(R, n) # {}
    PROVE  Cost(R, n) \in 0 .. MaxDeficit
<1>1. Oldest(QueueOf(R, n)) \in Block
    BY OldestIsOne DEF QueueOf
<1>2. BlockSize[Oldest(QueueOf(R, n))] \in 1 .. MaxBlockSize
    BY <1>1, SchedulerAssumption
<1> QED
    BY <1>2, MaxDeficitNat, ProductMonotone, ProductNat DEF Cost, MaxDeficit

(* The deficit of the scheduling node is enough for its block, and none exceeds MaxDeficit. *)
LEMMA DeficitsBounded ==
    ASSUME SchedulerTypeOK, mana' \in ManaVectors, NEW nodes \in Seq(Node), NEW R \in SUBSET Block, NEW s \in DOMAIN nodes,
           QueueOf(R, nodes[s]) # {}
    PROVE  /\ DOMAIN DeficitsAfter(nodes, R, s) \subseteq Node
           /\ \A n \in DOMAIN DeficitsAfter(nodes, R, s) : DeficitsAfter(nodes, R, s)[n] \in 0 .. MaxDeficit
<1> DEFINE lack == Lacking(R, nodes[s])
           share(n) == (lack * GetCachedMana(n)) \div GetCachedMana(nodes[s])
           waited(n) == Capped(GetDeficit(n) + share(n))
           before == {nodes[i] : i \in 1 .. s - 1}
           after == {nodes[i] : i \in s + 1 .. Len(nodes)}
           updated == {nodes[s]} \cup before \cup (IF lack > 0 THEN after ELSE {})
           all == KeptDeficits \cup Joining \cup updated
           result(n) == CASE n = nodes[s] -> waited(n) - Cost(R, n)
                          [] n \in before -> Capped(waited(n) + Quanta(n))
                          [] n \in after  -> waited(n)
                          [] OTHER        -> GetDeficit(n)
<1>1. DeficitsAfter(nodes, R, s) = [n \in all |-> result(n)]
    BY DEF DeficitsAfter
<1>2. nodes[s] \in Node /\ all \subseteq Node
    <2>1. KeptDeficits \subseteq Node /\ Joining \subseteq Node
        BY DEF KeptDeficits, Joining, SchedulerTypeOK
    <2>2. updated \subseteq Node
        OBVIOUS
    <2> QED BY <2>1, <2>2
<1>3. Cost(R, nodes[s]) \in 0 .. MaxDeficit
    BY CostTyped
<1>4. lack \in Nat /\ GetDeficit(nodes[s]) + lack >= Cost(R, nodes[s])
    BY <1>3, DeficitTyped, MaxDeficitNat DEF Lacking
<1> HIDE DEF lack
<1>5. \A n \in Node : share(n) \in Nat
    <2>1. ASSUME NEW n \in Node PROVE share(n) \in Nat
        <3>1. GetCachedMana(n) \in Nat /\ GetCachedMana(nodes[s]) \in Nat \ {0}
            BY <1>2, ManaPositive
        <3> QED BY <1>4, <3>1, DivIsNat, ProductNat
    <2> QED BY <2>1
<1>6. share(nodes[s]) = lack
    BY <1>2, <1>4, ManaPositive, DivByFactor
<1> HIDE DEF share
<1>7. \A n \in Node : waited(n) \in 0 .. MaxDeficit
    BY <1>5, DeficitTyped, MaxDeficitNat DEF Capped
<1>8. waited(nodes[s]) >= Cost(R, nodes[s])
    BY <1>2, <1>3, <1>4, <1>6, DeficitTyped, MaxDeficitNat DEF Capped
<1> HIDE DEF waited
<1>9. \A n \in Node : Quanta(n) \in Nat
    <2>1. ASSUME NEW n \in Node PROVE Quanta(n) \in Nat
        <3>1. GetCachedMana(n) \in Nat /\ Unit \in Nat /\ TotalMana \in Nat \ {0}
            BY ManaPositive, SchedulerAssumption
        <3> QED BY <3>1, DivIsNat, ProductNat DEF Quanta
    <2> QED BY <2>1
<1>10. ASSUME NEW n \in Node PROVE result(n) \in 0 .. MaxDeficit
    <2>1. Capped(waited(n) + Quanta(n)) \in 0 .. MaxDeficit
        BY <1>7, <1>9, MaxDeficitNat DEF Capped
    <2>2. n = nodes[s] => waited(n) - Cost(R, n) \in 0 .. MaxDeficit
        BY <1>3, <1>7, <1>8, MaxDeficitNat
    <2>3. GetDeficit(n) \in 0 .. MaxDeficit /\ waited(n) \in 0 .. MaxDeficit
        BY <1>7, DeficitTyped
    <2> HIDE DEF before, after
    <2> QED BY <2>1, <2>2, <2>3
<1> HIDE DEF result, all
<1> QED
    BY <1>1, <1>2, <1>10

-----------------------------------------------------------------------------
(* The queues and their counter. *)

LEMMA InitQueues == Init => QueuesInv
<1> SUFFICES ASSUME Init PROVE QueuesInv
    OBVIOUS
<1>1. SchedulerTypeOK
    <2>1. ring \in Seq(Node) /\ size \in Nat
        BY DEF Init
    <2>2. DOMAIN deficits = {}
        BY DEF Init
    <2>3. now \in 0 .. MaxTime
        BY SchedulerAssumption DEF Init
    <2>4. /\ submitted \subseteq Block /\ inbox \subseteq Block
          /\ {scheduled, confirmed, discarded, handled, accepted} \subseteq SUBSET Block
          /\ popped \in Block \cup {None}
          /\ trying \subseteq Caller \X Block /\ passed \subseteq Caller \X Block
        BY DEF Init
    <2>5. mana \in ManaVectors /\ stopped \in BOOLEAN /\ exited \in BOOLEAN
        BY DEF Init
    <2> QED BY <2>1, <2>2, <2>3, <2>4, <2>5 DEF SchedulerTypeOK
<1>2. SizeConsistent
    BY FS_EmptySet, SchedulerAssumption DEF Init, SizeConsistent
<1>3. QueuedHandled /\ RingConsistent
    BY DEF Init, QueuedHandled, RingConsistent
<1> QED
    BY <1>1, <1>2, <1>3 DEF QueuesInv

(* The part of the type that the queues have. *)
QueuesTyped ==
    /\ ring \in Seq(Node) /\ submitted \subseteq Block /\ inbox \subseteq Block /\ size \in Nat
    /\ DOMAIN deficits \subseteq Node /\ \A n \in DOMAIN deficits : deficits[n] \in 0 .. MaxDeficit

LEMMA QueuesUnaffected ==
    ASSUME QueuesInv, UNCHANGED queueVars, handled \subseteq handled'
    PROVE  QueuesTyped' /\ QueuedHandled' /\ SizeConsistent' /\ RingConsistent'
<1>1. QueuesTyped'
    BY DEF QueuesInv, SchedulerTypeOK, QueuesTyped, queueVars
<1>2. QueuedHandled' /\ SizeConsistent'
    BY DEF QueuesInv, QueuedHandled, SizeConsistent, queueVars
<1>3. RingConsistent'
    BY DEF QueuesInv, RingConsistent, Active, queueVars
<1> QED
    BY <1>1, <1>2, <1>3

(* The blocks of the queues are finitely many. *)
LEMMA QueuedFinite ==
    ASSUME QueuesInv
    PROVE  IsFiniteSet(submitted \cup inbox)
<1>1. submitted \cup inbox \in SUBSET Block
    BY DEF QueuesInv, SchedulerTypeOK
<1> QED
    BY <1>1, FS_Subset, SchedulerAssumption

(* Submit inserts a block, and dropHead removes one when the buffer is full. *)
LEMMA SubmitQueues ==
    ASSUME QueuesInv, NEW b \in Block, b \notin handled, handled' = handled \cup {b}, mana' \in ManaVectors,
           Submit(b), UNCHANGED deficits
    PROVE  QueuesTyped' /\ QueuedHandled' /\ SizeConsistent' /\ RingConsistent' /\ discarded' \subseteq discarded \cup Block
<1> DEFINE nodes == IF Issuer[b] \in Active THEN ring ELSE Append(ring, Issuer[b])
           drop  == Dropped(nodes, submitted \cup {b}, inbox)
           Q == submitted \cup inbox
<1>1. /\ ring \in Seq(Node) /\ submitted \subseteq Block /\ inbox \subseteq Block /\ size \in Nat /\ Issuer[b] \in Node
      /\ Q \subseteq handled /\ submitted \cap inbox = {} /\ size = Cardinality(Q) /\ size <= MaxBuffer /\ MaxBuffer \in Nat
    BY SchedulerAssumption DEF QueuesInv, SchedulerTypeOK, QueuedHandled, SizeConsistent
<1>2. /\ nodes \in Seq(Node) /\ (\E i \in DOMAIN nodes : nodes[i] = Issuer[b])
      /\ \A n \in Active : \E i \in DOMAIN nodes : nodes[i] = n
      /\ Distinct(nodes)
    <2>1. CASE Issuer[b] \in Active
        <3>1. nodes = ring
            BY <2>1
        <3>2. Distinct(ring)
            BY DEF QueuesInv, RingConsistent, Distinct
        <3> QED BY <1>1, <2>1, <3>1, <3>2 DEF Active
    <2>2. CASE Issuer[b] \notin Active
        <3> DEFINE k == Len(ring)
        <3>1. nodes = Append(ring, Issuer[b])
            BY <2>2
        <3>2. k \in Nat /\ DOMAIN ring = 1 .. k
            BY <1>1
        <3>3. /\ nodes \in Seq(Node) /\ Len(nodes) = k + 1 /\ DOMAIN nodes = 1 .. k + 1
              /\ nodes[k + 1] = Issuer[b] /\ \A i \in 1 .. k : nodes[i] = ring[i]
            BY <1>1, <3>1
        <3> HIDE DEF nodes, k
        <3>4. Active = {ring[i] : i \in 1 .. k}
            BY <3>2 DEF Active
        <3>5. \A i, j \in 1 .. k : ring[i] = ring[j] => i = j
            BY <3>2 DEF QueuesInv, RingConsistent
        <3>6. \A i \in 1 .. k : ring[i] # Issuer[b]
            BY <2>2, <3>4
        <3>7. Distinct(nodes)
            <4>1. \A i \in 1 .. k + 1 : i \in 1 .. k \/ i = k + 1
                BY <3>2
            <4> QED BY <3>2, <3>3, <3>5, <3>6, <4>1 DEF Distinct
        <3>8. \A n \in Active : \E i \in DOMAIN nodes : nodes[i] = n
            <4>1. \A i \in 1 .. k : i \in DOMAIN nodes
                BY <3>2, <3>3
            <4> QED BY <3>3, <3>4, <4>1
        <3>9. k + 1 \in DOMAIN nodes
            BY <3>2, <3>3
        <3> QED BY <3>3, <3>7, <3>8, <3>9
    <2> QED BY <2>1, <2>2
<1> HIDE DEF nodes
<1>3. drop \in Q \cup {b}
    <2>1. submitted \cup {b} \in SUBSET Block /\ inbox \in SUBSET Block /\ b \in (submitted \cup {b}) \cup inbox
        BY <1>1
    <2> QED BY <1>2, <2>1, DroppedIsQueued
<1>4. /\ IsFiniteSet(Q \cup {b}) /\ Cardinality(Q \cup {b}) = size + 1
    BY <1>1, QueuedFinite, FS_AddElement
<1>5. /\ ring' = nodes
      /\ IF size + 1 > MaxBuffer
         THEN /\ submitted' = (submitted \cup {b}) \ {drop}
              /\ inbox' = inbox \ {drop}
              /\ size' = size
              /\ discarded' = discarded \cup {drop}
         ELSE /\ submitted' = submitted \cup {b}
              /\ size' = size + 1
              /\ UNCHANGED <<inbox, discarded>>
    BY DEF Submit, SizeAfterDrop, nodes
<1> HIDE DEF drop
<1>6. QueuesTyped'
    <2>1. DOMAIN deficits \subseteq Node /\ \A n \in DOMAIN deficits : deficits[n] \in 0 .. MaxDeficit
        BY DEF QueuesInv, SchedulerTypeOK
    <2>2. ring' \in Seq(Node)
        BY <1>2, <1>5
    <2>3. submitted' \subseteq Block /\ inbox' \subseteq Block /\ size' \in Nat
        BY <1>1, <1>5
    <2> QED BY <2>1, <2>2, <2>3 DEF QueuesTyped
<1>7. submitted' \cup inbox' \subseteq Q \cup {b}
    BY <1>5
<1>8. QueuedHandled'
    BY <1>1, <1>7 DEF QueuedHandled
<1>9. RingConsistent'
    <2>1. \A c \in Q \cup {b} : \E i \in DOMAIN nodes : nodes[i] = Issuer[c]
        BY <1>2 DEF QueuesInv, RingConsistent
    <2>2. \A c \in submitted' \cup inbox' : Issuer[c] \in Active'
        BY <1>5, <1>7, <2>1 DEF Active
    <2> QED BY <1>2, <1>5, <2>2 DEF RingConsistent, Distinct
<1>10. SizeConsistent'
    <2>1. CASE size + 1 > MaxBuffer
        <3>1. submitted' \cup inbox' = (Q \cup {b}) \ {drop} /\ submitted' \cap inbox' = {}
            BY <1>1, <1>5, <2>1
        <3>2. Cardinality((Q \cup {b}) \ {drop}) = size
            <4> DEFINE all == Q \cup {b}
            <4>1. IsFiniteSet(all) /\ Cardinality(all) = size + 1 /\ drop \in all
                BY <1>3, <1>4
            <4> HIDE DEF all
            <4>2. Cardinality(all \ {drop}) = Cardinality(all) - 1
                BY <4>1, FS_RemoveElement
            <4>3. Cardinality(all \ {drop}) = size
                BY <1>1, <4>1, <4>2
            <4> QED BY <4>3 DEF all
        <3> QED BY <1>1, <1>5, <2>1, <3>1, <3>2 DEF SizeConsistent
    <2>2. CASE ~(size + 1 > MaxBuffer)
        <3>1. submitted' \cup inbox' = Q \cup {b} /\ submitted' \cap inbox' = {}
            BY <1>1, <1>5, <2>2
        <3>2. size' = size + 1 /\ size + 1 <= MaxBuffer
            <4> HIDE DEF Q
            <4> QED BY <1>1, <1>5, <2>2
        <3>3. Cardinality(submitted' \cup inbox') = size'
            BY <1>4, <3>1, <3>2
        <3> QED BY <3>1, <3>2, <3>3 DEF SizeConsistent
    <2> QED BY <2>1, <2>2
<1>11. discarded' \subseteq discarded \cup Block
    BY <1>1, <1>3, <1>5
<1> QED
    BY <1>6, <1>8, <1>9, <1>10, <1>11

(* schedule removes the blocks it skips, and the one it returns. *)
LEMMA ScheduleQueues ==
    ASSUME QueuesInv, Schedule
    PROVE  /\ QueuesTyped' /\ QueuedHandled' /\ SizeConsistent' /\ RingConsistent'
           /\ inbox' \subseteq inbox /\ popped' \in inbox \cup {None}
<1> DEFINE Q == submitted \cup inbox
           R == inbox \ Skipped
<1>1. /\ ring \in Seq(Node) /\ submitted \subseteq Block /\ inbox \subseteq Block /\ size \in Nat
      /\ Q \subseteq handled /\ submitted \cap inbox = {} /\ size = Cardinality(Q) /\ size <= MaxBuffer /\ MaxBuffer \in Nat
    BY SchedulerAssumption DEF QueuesInv, SchedulerTypeOK, QueuedHandled, SizeConsistent
<1>2. mana' \in ManaVectors /\ UNCHANGED <<submitted, handled>> /\ popped = None
    BY DEF Schedule, RefreshCacheIfNecessary, LoopIdle
<1>3. Skipped \subseteq inbox
    BY DEF Skipped
<1>4. /\ IsFiniteSet(Q \ Skipped) /\ Cardinality(Q \ Skipped) = size - Cardinality(Skipped)
      /\ Cardinality(Skipped) \in Nat /\ Cardinality(Skipped) <= size
    <2>1. IsFiniteSet(Q)
        BY QueuedFinite
    <2>2. Q \cap Skipped = Skipped /\ Skipped \in SUBSET Q
        BY <1>3
    <2>3. IsFiniteSet(Skipped) /\ Cardinality(Skipped) <= Cardinality(Q)
        BY <2>1, <2>2, FS_Subset
    <2> QED BY <1>1, <2>1, <2>2, <2>3, FS_Difference, FS_CardinalityType
<1>5. PICK nodes \in ActiveRings :
        \/ /\ inbox' = R
           /\ size' = size - Cardinality(Skipped)
           /\ ring' = nodes
           /\ deficits' = [n \in KeptDeficits \cup Joining |-> GetDeficit(n)]
           /\ UNCHANGED popped
        \/ \E s \in DOMAIN nodes :
           /\ IsSchedulingNode(nodes, R, s)
           /\ popped' = Oldest(QueueOf(R, nodes[s]))
           /\ inbox' = R \ {popped'}
           /\ size' = size - Cardinality(Skipped) - 1
           /\ ring' = SubSeq(nodes, s, Len(nodes)) \o SubSeq(nodes, 1, s - 1)
           /\ deficits' = DeficitsAfter(nodes, R, s)
    BY DEF Schedule
<1>6. Distinct(ring)
    BY DEF QueuesInv, RingConsistent, Distinct
<1>7. /\ nodes \in Seq(Node) /\ Distinct(nodes)
      /\ \A n \in Active : StaysActive(n) => \E i \in DOMAIN nodes : nodes[i] = n
    BY <1>1, <1>6, ActiveRingsKeep
<1>8. \A b \in Q : \E i \in DOMAIN nodes : nodes[i] = Issuer[b]
    <2>1. \A b \in Q : Issuer[b] \in Active /\ StaysActive(Issuer[b])
        BY DEF QueuesInv, RingConsistent, StaysActive, QueueOf
    <2> QED BY <1>7, <2>1
<1>9. R \in SUBSET Block /\ submitted \cup R = Q \ Skipped
    BY <1>1, <1>3
<1> HIDE DEF R
<1>10. CASE /\ inbox' = R
            /\ size' = size - Cardinality(Skipped)
            /\ ring' = nodes
            /\ deficits' = [n \in KeptDeficits \cup Joining |-> GetDeficit(n)]
            /\ UNCHANGED popped
    <2>1. DOMAIN deficits' \subseteq Node /\ \A n \in DOMAIN deficits' : deficits'[n] \in 0 .. MaxDeficit
        <3>1. KeptDeficits \cup Joining \subseteq Node
            BY DEF KeptDeficits, Joining, QueuesInv, SchedulerTypeOK
        <3> QED BY <1>10, <3>1, DeficitTyped DEF QueuesInv
    <2>2. QueuesTyped'
        <3>1. size' \in Nat
            <4> HIDE DEF Q
            <4> QED BY <1>1, <1>4, <1>10
        <3>2. ring' \in Seq(Node)
            BY <1>7, <1>10
        <3>3. submitted' \subseteq Block /\ inbox' \subseteq Block
            BY <1>1, <1>2, <1>9, <1>10
        <3> QED BY <2>1, <3>1, <3>2, <3>3 DEF QueuesTyped
    <2>3. QueuedHandled'
        BY <1>1, <1>2, <1>10 DEF QueuedHandled, R
    <2>4. SizeConsistent'
        <3>1. submitted' \cap inbox' = {}
            BY <1>1, <1>2, <1>10 DEF R
        <3>2. size' <= MaxBuffer
            <4> HIDE DEF Q
            <4> QED BY <1>1, <1>4, <1>10
        <3>3. size' = Cardinality(submitted' \cup inbox')
            <4>1. submitted' \cup inbox' = Q \ Skipped
                BY <1>2, <1>9, <1>10
            <4> QED BY <1>4, <1>10, <4>1
        <3> QED BY <3>1, <3>2, <3>3 DEF SizeConsistent
    <2>5. RingConsistent'
        <3>1. \A b \in submitted' \cup inbox' : Issuer[b] \in Active'
            BY <1>2, <1>8, <1>10 DEF Active, R
        <3> QED BY <1>7, <1>10, <3>1 DEF RingConsistent, Distinct
    <2> QED BY <1>2, <1>10, <2>2, <2>3, <2>4, <2>5 DEF R
<1>11. ASSUME NEW s \in DOMAIN nodes,
              IsSchedulingNode(nodes, R, s),
              popped' = Oldest(QueueOf(R, nodes[s])),
              inbox' = R \ {popped'},
              size' = size - Cardinality(Skipped) - 1,
              ring' = SubSeq(nodes, s, Len(nodes)) \o SubSeq(nodes, 1, s - 1),
              deficits' = DeficitsAfter(nodes, R, s)
       PROVE  /\ QueuesTyped' /\ QueuedHandled' /\ SizeConsistent' /\ RingConsistent'
              /\ inbox' \subseteq inbox /\ popped' \in inbox \cup {None}
    <2>1. QueueOf(R, nodes[s]) # {} /\ QueueOf(R, nodes[s]) \in SUBSET Block /\ QueueOf(R, nodes[s]) \subseteq R
        BY <1>9, <1>11 DEF IsSchedulingNode, CanSchedule, QueueOf
    <2>2. popped' \in R
        BY <1>11, <2>1, OldestIsOne
    <2>3. DOMAIN deficits' \subseteq Node /\ \A n \in DOMAIN deficits' : deficits'[n] \in 0 .. MaxDeficit
        BY <1>2, <1>7, <1>9, <1>11, <2>1, DeficitsBounded DEF QueuesInv
    <2>4. ring' \in Seq(Node) /\ Distinct(ring') /\ \A i \in DOMAIN nodes : \E j \in DOMAIN ring' : ring'[j] = nodes[i]
        BY <1>7, <1>11, RotationKeeps
    <2>5. submitted \cup (R \ {popped'}) = (Q \ Skipped) \ {popped'} /\ popped' \in Q \ Skipped
        BY <1>1, <1>3, <2>2 DEF R
    <2>6. Cardinality((Q \ Skipped) \ {popped'}) = size - Cardinality(Skipped) - 1 /\ IsFiniteSet((Q \ Skipped) \ {popped'})
        BY <1>4, <2>5, FS_RemoveElement
    <2>7. size - Cardinality(Skipped) - 1 \in Nat
        BY <2>6, FS_CardinalityType
    <2>8. QueuesTyped'
        <3>1. submitted' \subseteq Block /\ inbox' \subseteq Block /\ size' \in Nat
            BY <1>1, <1>2, <1>9, <1>11, <2>7
        <3> QED BY <2>3, <2>4, <3>1 DEF QueuesTyped
    <2>9. inbox' \subseteq inbox
        BY <1>11 DEF R
    <2>10. QueuedHandled'
        BY <1>1, <1>2, <2>9 DEF QueuedHandled
    <2>11. SizeConsistent'
        <3>1. submitted' \cap inbox' = {}
            BY <1>1, <1>2, <2>9
        <3>2. size' <= MaxBuffer
            BY <1>1, <1>4, <1>11
        <3> QED BY <1>2, <1>11, <2>5, <2>6, <3>1, <3>2 DEF SizeConsistent
    <2>12. RingConsistent'
        <3>1. \A b \in submitted' \cup inbox' : Issuer[b] \in Active'
            BY <1>2, <1>8, <2>4, <2>9 DEF Active
        <3> QED BY <2>4, <3>1 DEF RingConsistent, Distinct
    <2> QED BY <2>2, <2>8, <2>9, <2>10, <2>11, <2>12 DEF R
<1> QED
    BY <1>5, <1>10, <1>11

(* The rest of the type. *)
RestTyped ==
    /\ mana \in ManaVectors
    /\ now \in 0 .. MaxTime /\ stopped \in BOOLEAN /\ exited \in BOOLEAN
    /\ {scheduled, confirmed, discarded, handled, accepted} \subseteq SUBSET Block
    /\ popped \in Block \cup {None}
    /\ trying \subseteq Caller \X Block /\ passed \subseteq Caller \X Block

LEMMA TypesParts == (SchedulerTypeOK <=> QueuesTyped /\ RestTyped) /\ (SchedulerTypeOK' <=> QueuesTyped' /\ RestTyped')
    BY DEF SchedulerTypeOK, QueuesTyped, RestTyped

LEMMA QueuesStep ==
    ASSUME QueuesInv, [Next]_vars
    PROVE  QueuesInv'
<1>1. QueuesTyped /\ RestTyped
    BY TypesParts DEF QueuesInv
<1>2. SUFFICES RestTyped' /\ QueuesTyped' /\ QueuedHandled' /\ SizeConsistent' /\ RingConsistent'
    BY TypesParts DEF QueuesInv
<1> DEFINE P == RestTyped' /\ QueuesTyped' /\ QueuedHandled' /\ SizeConsistent' /\ RingConsistent'
<1>3. ASSUME NEW b \in Block, BlockProcessed(b) PROVE P
    <2>1. b \notin handled /\ handled' = handled \cup {b} /\ UNCHANGED deficits
        BY <1>3 DEF BlockProcessed
    <2>2. CASE stopped
        <3>1. UNCHANGED queueVars
            BY <1>3, <2>2 DEF BlockProcessed, queueVars
        <3>2. RestTyped'
            BY <1>1, <1>3, <2>2 DEF BlockProcessed, RestTyped, Caller
        <3> QED BY <2>1, <3>1, <3>2, QueuesUnaffected
    <2>3. CASE ~stopped
        <3>1. mana' \in ManaVectors /\ Submit(b)
            BY <1>3, <2>3 DEF BlockProcessed, RefreshCacheIfNecessary
        <3>2. QueuesTyped' /\ QueuedHandled' /\ SizeConsistent' /\ RingConsistent' /\ discarded' \subseteq discarded \cup Block
            BY <2>1, <3>1, SubmitQueues
        <3>3. RestTyped'
            BY <1>1, <1>3, <3>1, <3>2 DEF BlockProcessed, RestTyped, Caller
        <3> QED BY <3>2, <3>3
    <2> QED BY <2>2, <2>3
<1>4. ASSUME NEW c \in Caller, NEW b \in Block, CheckReady(c, b) PROVE P
    <2>1. UNCHANGED queueVars /\ UNCHANGED handled
        BY <1>4 DEF CheckReady
    <2>2. RestTyped'
        BY <1>1, <1>4 DEF CheckReady, RestTyped
    <2> QED BY <2>1, <2>2, QueuesUnaffected
<1>5. ASSUME NEW c \in Caller, NEW b \in Block, Ready(c, b) PROVE P
    <2>1. /\ submitted' \cup inbox' = submitted \cup inbox
          /\ submitted' \cap inbox' = {}
          /\ UNCHANGED <<ring, size, deficits, handled>>
        BY <1>5 DEF Ready, QueuesInv, SizeConsistent
    <2>2. QueuesTyped'
        BY <1>1, <1>5, <2>1 DEF Ready, QueuesTyped
    <2>3. RestTyped'
        BY <1>1, <1>5 DEF Ready, RestTyped
    <2>4. QueuedHandled' /\ SizeConsistent'
        BY <2>1 DEF QueuesInv, QueuedHandled, SizeConsistent
    <2>5. RingConsistent'
        BY <2>1 DEF QueuesInv, RingConsistent, Active
    <2> QED BY <2>2, <2>3, <2>4, <2>5
<1>6. ASSUME Schedule PROVE P
    <2>1. /\ QueuesTyped' /\ QueuedHandled' /\ SizeConsistent' /\ RingConsistent'
          /\ popped' \in inbox \cup {None}
        BY <1>6, ScheduleQueues
    <2>2. RestTyped'
        <3>1. popped' \in Block \cup {None}
            BY <1>1, <2>1 DEF QueuesTyped
        <3> QED BY <1>1, <1>6, <3>1 DEF Schedule, RestTyped, RefreshCacheIfNecessary
    <2> QED BY <2>1, <2>2
<1>7. ASSUME SetScheduled PROVE P
    <2>1. UNCHANGED queueVars /\ UNCHANGED handled
        BY <1>7 DEF SetScheduled
    <2>2. RestTyped'
        BY <1>1, <1>7 DEF SetScheduled, RestTyped, ToUpdate, Children, Caller
    <2> QED BY <2>1, <2>2, QueuesUnaffected
<1>8. ASSUME ExitLoop PROVE P
    <2>1. UNCHANGED queueVars /\ UNCHANGED handled
        BY <1>8 DEF ExitLoop
    <2>2. RestTyped'
        BY <1>1, <1>8 DEF ExitLoop, RestTyped
    <2> QED BY <2>1, <2>2, QueuesUnaffected
<1>9. ASSUME NEW b \in Block, OnBlockConfirmed(b) PROVE P
    <2>1. UNCHANGED <<ring, inbox, deficits, handled>>
        BY <1>9 DEF OnBlockConfirmed
    <2>2. RestTyped'
        BY <1>1, <1>9 DEF OnBlockConfirmed, RestTyped, ToUpdate, Children, Caller
    <2>3. CASE b \notin scheduled /\ IsOld(b) /\ b \in submitted
        <3>1. submitted' = submitted \ {b} /\ size' = size - 1
            BY <1>9, <2>3 DEF OnBlockConfirmed
        <3>2. submitted' \cup inbox' = (submitted \cup inbox) \ {b} /\ submitted' \cap inbox' = {}
            BY <2>1, <2>3, <3>1 DEF QueuesInv, SizeConsistent
        <3>3. /\ Cardinality((submitted \cup inbox) \ {b}) = Cardinality(submitted \cup inbox) - 1
              /\ IsFiniteSet((submitted \cup inbox) \ {b})
            BY <2>3, QueuedFinite, FS_RemoveElement
        <3>4. size' = Cardinality(submitted' \cup inbox') /\ size' \in Nat
            <4>1. size = Cardinality(submitted \cup inbox)
                BY DEF QueuesInv, SizeConsistent
            <4>2. size' = Cardinality(submitted' \cup inbox')
                BY <3>1, <3>2, <3>3, <4>1
            <4> QED BY <3>2, <3>3, <4>2, FS_CardinalityType
        <3>5. size' <= MaxBuffer
            BY <1>1, <3>1, SchedulerAssumption DEF QueuesInv, SizeConsistent, QueuesTyped
        <3>6. QueuesTyped' /\ QueuedHandled'
            BY <1>1, <2>1, <3>1, <3>4 DEF QueuesTyped, QueuesInv, QueuedHandled
        <3>7. RingConsistent'
            BY <2>1, <3>1 DEF QueuesInv, RingConsistent, Active
        <3> QED BY <2>2, <3>2, <3>4, <3>5, <3>6, <3>7 DEF SizeConsistent
    <2>4. CASE ~(b \notin scheduled /\ IsOld(b) /\ b \in submitted)
        <3>1. submitted' = submitted /\ size' = size
            BY <1>9, <2>4 DEF OnBlockConfirmed
        <3>2. UNCHANGED queueVars
            BY <2>1, <3>1 DEF queueVars
        <3> QED BY <2>1, <2>2, <3>2, QueuesUnaffected
    <2> QED BY <2>3, <2>4
<1>10. ASSUME NEW b \in Block, ConfirmBlock(b) PROVE P
    <2>1. UNCHANGED queueVars /\ UNCHANGED handled
        BY <1>10 DEF ConfirmBlock
    <2>2. RestTyped'
        BY <1>1, <1>10 DEF ConfirmBlock, RestTyped
    <2> QED BY <2>1, <2>2, QueuesUnaffected
<1>11. ASSUME Tick PROVE P
    <2>1. UNCHANGED queueVars /\ UNCHANGED handled
        BY <1>11 DEF Tick
    <2>2. RestTyped'
        BY <1>1, <1>11, SchedulerAssumption DEF Tick, RestTyped
    <2> QED BY <2>1, <2>2, QueuesUnaffected
<1>12. ASSUME Shutdown PROVE P
    <2>1. UNCHANGED queueVars /\ UNCHANGED handled
        BY <1>12 DEF Shutdown
    <2>2. RestTyped'
        BY <1>1, <1>12 DEF Shutdown, RestTyped
    <2> QED BY <2>1, <2>2, QueuesUnaffected
<1>13. ASSUME UNCHANGED vars PROVE P
    <2>1. UNCHANGED queueVars /\ UNCHANGED handled
        BY <1>13 DEF vars, queueVars
    <2>2. RestTyped'
        BY <1>1, <1>13 DEF vars, RestTyped
    <2> QED BY <2>1, <2>2, QueuesUnaffected
<1> HIDE DEF P
<1>14. P
    BY <1>3, <1>4, <1>5, <1>6, <1>7, <1>8, <1>9, <1>10, <1>11, <1>12, <1>13 DEF Next, LoopStep, HandlerStep, Caller
<1> QED
    BY <1>14 DEF P

-----------------------------------------------------------------------------
(* Readiness. *)

LEMMA EligibleStays ==
    ASSUME [Next]_vars
    PROVE  scheduled \subseteq scheduled' /\ confirmed \subseteq confirmed'
    BY DEF Next, LoopStep, HandlerStep, vars, BlockProcessed, CheckReady, Ready, Schedule, SetScheduled, ExitLoop,
           OnBlockConfirmed, ConfirmBlock, Tick, Shutdown

LEMMA ReadyStays ==
    ASSUME [Next]_vars, NEW b, isReady(b)
    PROVE  isReady(b)'
    BY EligibleStays DEF isReady, isEligible

LEMMA InitReady == Init => ReadyInv
    BY DEF Init, ReadyInv, PassedReady, ParentsEligible, ReadyNoticed

(* A tryReady call passes a block once all its parents are eligible, and they remain so. *)
LEMMA PassedReadyStep ==
    ASSUME PassedReady, [Next]_vars
    PROVE  PassedReady'
<1>1. ASSUME NEW t \in passed' PROVE t \in passed \/ isReady(t[2])
    <2>1. ASSUME NEW c \in Caller, NEW b \in Block, CheckReady(c, b) PROVE t \in passed \/ isReady(t[2])
        <3>1. t \in passed \/ (isReady(b) /\ t = <<c, b>>)
            BY <2>1 DEF CheckReady
        <3>2. t = <<c, b>> => t[2] = b
            OBVIOUS
        <3> QED BY <3>1, <3>2
    <2>2. ASSUME NEW c \in Caller, NEW b \in Block, Ready(c, b) PROVE t \in passed
        BY <2>2 DEF Ready
    <2>3. ASSUME NEW b \in Block, BlockProcessed(b) \/ OnBlockConfirmed(b) \/ ConfirmBlock(b) PROVE t \in passed
        BY <2>3 DEF BlockProcessed, OnBlockConfirmed, ConfirmBlock
    <2>4. ASSUME Schedule \/ SetScheduled \/ ExitLoop \/ Tick \/ Shutdown \/ UNCHANGED vars PROVE t \in passed
        BY <2>4 DEF Schedule, SetScheduled, ExitLoop, Tick, Shutdown, vars
    <2> QED BY <2>1, <2>2, <2>3, <2>4 DEF Next, LoopStep, HandlerStep, Caller
<1> QED
    BY <1>1, ReadyStays DEF PassedReady

(* The blocks whose parents must be eligible. *)
Advanced == inbox \cup scheduled \cup ({popped} \ {None})

(* A block advances with a tryReady call that has passed it. *)
LEMMA AdvancedAreReady ==
    ASSUME QueuesInv, PassedReady, [Next]_vars, NEW b \in Advanced'
    PROVE  b \in Advanced \/ isReady(b)
<1>1. ASSUME NEW c \in Block, BlockProcessed(c) PROVE b \in Advanced
    BY <1>1 DEF BlockProcessed, Submit, Advanced
<1>2. ASSUME NEW k \in Caller, NEW c \in Block, CheckReady(k, c) PROVE b \in Advanced
    BY <1>2 DEF CheckReady, Advanced, queueVars
<1>3. ASSUME NEW k \in Caller, NEW c \in Block, Ready(k, c) PROVE b \in Advanced \/ isReady(b)
    <2>1. isReady(c)
        <3>1. <<k, c>> \in passed /\ <<k, c>>[2] = c
            BY <1>3 DEF Ready
        <3> QED BY <3>1 DEF PassedReady
    <2> QED BY <1>3, <2>1 DEF Ready, Advanced
<1>4. ASSUME Schedule PROVE b \in Advanced
    <2>1. inbox' \subseteq inbox /\ popped' \in inbox \cup {None}
        BY <1>4, ScheduleQueues
    <2>2. UNCHANGED scheduled
        BY <1>4 DEF Schedule
    <2> QED BY <2>1, <2>2 DEF Advanced
<1>5. ASSUME SetScheduled PROVE b \in Advanced
    BY <1>5 DEF SetScheduled, Advanced, queueVars
<1>6. ASSUME ExitLoop PROVE b \in Advanced
    BY <1>6 DEF ExitLoop, Advanced, queueVars
<1>7. ASSUME NEW c \in Block, OnBlockConfirmed(c) PROVE b \in Advanced
    BY <1>7 DEF OnBlockConfirmed, Advanced
<1>8. ASSUME NEW c \in Block, ConfirmBlock(c) PROVE b \in Advanced
    BY <1>8 DEF ConfirmBlock, Advanced, queueVars
<1>9. ASSUME Tick \/ Shutdown \/ UNCHANGED vars PROVE b \in Advanced
    BY <1>9 DEF Tick, Shutdown, vars, Advanced, queueVars
<1> QED
    BY <1>1, <1>2, <1>3, <1>4, <1>5, <1>6, <1>7, <1>8, <1>9 DEF Next, LoopStep, HandlerStep, Caller

LEMMA ParentsEligibleStep ==
    ASSUME QueuesInv, PassedReady, ParentsEligible, [Next]_vars
    PROVE  ParentsEligible'
<1>1. ASSUME NEW b \in Advanced' PROVE Parents[b] \subseteq scheduled' \cup confirmed'
    <2>1. Parents[b] \subseteq scheduled \cup confirmed
        <3>1. CASE b \in Advanced
            BY <3>1 DEF ParentsEligible, Advanced
        <3>2. CASE isReady(b)
            BY <3>2 DEF isReady, isEligible
        <3> QED BY <3>1, <3>2, AdvancedAreReady
    <2> QED BY <2>1, EligibleStays
<1> QED
    BY <1>1 DEF ParentsEligible, Advanced

(* Somebody is about to try b. *)
Noticed(b) ==
    \/ \E c \in Caller : <<c, b>> \in trying \cup passed
    \/ \E p \in Parents[b] : p \in accepted \ scheduled

LEMMA ReadyNoticedStep ==
    ASSUME QueuesInv, ReadyNoticed, [Next]_vars
    PROVE  ReadyNoticed'
<1>1. SUFFICES ASSUME NEW b \in submitted', isReady(b)' PROVE Noticed(b)'
    BY DEF ReadyNoticed, Noticed
<1>2. b \in submitted /\ isReady(b) => Noticed(b)
    BY DEF ReadyNoticed, Noticed
<1>3. ASSUME UNCHANGED <<scheduled, confirmed>> PROVE isReady(b)
    BY <1>1, <1>3 DEF isReady, isEligible
<1>4. ASSUME NEW c \in Block, BlockProcessed(c) PROVE Noticed(b)'
    <2>1. UNCHANGED <<scheduled, confirmed, accepted, passed>> /\ trying' = trying \cup {<<"handler", c>>}
        BY <1>4 DEF BlockProcessed
    <2>2. b \in submitted \/ b = c
        BY <1>4 DEF BlockProcessed, Submit
    <2> QED BY <1>2, <1>3, <2>1, <2>2 DEF Noticed, Caller
<1>5. ASSUME NEW k \in Caller, NEW c \in Block, CheckReady(k, c) PROVE Noticed(b)'
    <2>1. UNCHANGED <<scheduled, confirmed, accepted, submitted>>
        BY <1>5 DEF CheckReady, queueVars
    <2>2. isReady(b) /\ Noticed(b)
        BY <1>2, <1>3, <2>1
    <2>3. trying' \cup passed' = trying \cup passed \/ (c # b /\ trying \ {<<k, c>>} \subseteq trying' /\ passed \subseteq passed')
        BY <1>5, <2>2 DEF CheckReady
    <2> QED BY <2>1, <2>2, <2>3 DEF Noticed
<1>6. ASSUME NEW k \in Caller, NEW c \in Block, Ready(k, c) PROVE Noticed(b)'
    <2>1. UNCHANGED <<scheduled, confirmed, accepted, trying>> /\ passed' = passed \ {<<k, c>>} /\ submitted' = submitted \ {c}
        BY <1>6 DEF Ready
    <2>2. Noticed(b) /\ b # c
        BY <1>2, <1>3, <2>1
    <2> QED BY <2>1, <2>2 DEF Noticed
<1>7. ASSUME SetScheduled PROVE Noticed(b)'
    <2>1. /\ UNCHANGED <<confirmed, accepted, passed, submitted>> /\ scheduled' = scheduled \cup {popped}
          /\ trying' = trying \cup ({"loop"} \X Children(popped))
        BY <1>7 DEF SetScheduled, queueVars, ToUpdate
    <2>2. CASE popped \in Parents[b]
        <3>1. b \in Children(popped)
            BY <2>1, <2>2 DEF Children, QueuesInv, SchedulerTypeOK
        <3> QED BY <2>1, <3>1 DEF Noticed, Caller
    <2>3. CASE popped \notin Parents[b]
        <3>1. isReady(b)
            BY <1>1, <2>1, <2>3 DEF isReady, isEligible
        <3>2. Noticed(b)
            BY <1>2, <2>1, <3>1
        <3> QED BY <2>1, <2>3, <3>2 DEF Noticed
    <2> QED BY <2>2, <2>3
<1>8. ASSUME NEW c \in Block, OnBlockConfirmed(c) PROVE Noticed(b)'
    <2>1. UNCHANGED <<scheduled, confirmed, passed>> /\ accepted' = accepted \ {c} /\ submitted' \subseteq submitted
        BY <1>8 DEF OnBlockConfirmed
    <2>2. Noticed(b) /\ b \in Block
        BY <1>2, <1>3, <2>1 DEF QueuesInv, SchedulerTypeOK
    <2>3. CASE c \in scheduled
        <3>1. UNCHANGED trying
            BY <1>8, <2>3 DEF OnBlockConfirmed
        <3> QED BY <2>1, <2>2, <2>3, <3>1 DEF Noticed
    <2>4. CASE c \notin scheduled
        <3>1. trying' = trying \cup ({"handler"} \X Children(c))
            BY <1>8, <2>4 DEF OnBlockConfirmed, ToUpdate
        <3>2. CASE c \in Parents[b]
            <4>1. b \in Children(c)
                BY <2>2, <3>2 DEF Children
            <4> QED BY <3>1, <4>1 DEF Noticed, Caller
        <3>3. CASE c \notin Parents[b]
            BY <2>1, <2>2, <3>1, <3>3 DEF Noticed
        <3> QED BY <3>2, <3>3
    <2> QED BY <2>3, <2>4
<1>9. ASSUME NEW c \in Block, ConfirmBlock(c) PROVE Noticed(b)'
    <2>1. /\ UNCHANGED <<scheduled, passed, trying, submitted>> /\ accepted' = accepted \cup {c}
          /\ confirmed' = confirmed \cup {c}
        BY <1>9 DEF ConfirmBlock, queueVars
    <2>2. CASE c \in Parents[b] /\ c \notin scheduled
        BY <2>1, <2>2 DEF Noticed
    <2>3. CASE ~(c \in Parents[b] /\ c \notin scheduled)
        <3>1. isReady(b)
            BY <1>1, <2>1, <2>3 DEF isReady, isEligible
        <3>2. Noticed(b)
            BY <1>2, <2>1, <3>1
        <3> QED BY <2>1, <3>2 DEF Noticed
    <2> QED BY <2>2, <2>3
<1>10. ASSUME Schedule \/ ExitLoop \/ Tick \/ Shutdown \/ UNCHANGED vars PROVE Noticed(b)'
    <2>1. UNCHANGED <<scheduled, confirmed, accepted, passed, trying, submitted>>
        BY <1>10 DEF Schedule, ExitLoop, Tick, Shutdown, vars, queueVars
    <2> QED BY <1>2, <1>3, <2>1 DEF Noticed
<1> QED
    BY <1>4, <1>5, <1>6, <1>7, <1>8, <1>9, <1>10 DEF Next, LoopStep, HandlerStep, Caller

-----------------------------------------------------------------------------
(* Theorems. *)

(* The inductive invariant of the scheduler's actions. *)
THEOREM SchedulerInvariant == Spec => [](QueuesInv /\ ReadyInv)
<1>1. Init => QueuesInv /\ ReadyInv
    BY InitQueues, InitReady
<1>2. QueuesInv /\ ReadyInv /\ [Next]_vars => QueuesInv' /\ ReadyInv'
    <2> SUFFICES ASSUME QueuesInv, ReadyInv, [Next]_vars PROVE QueuesInv' /\ ReadyInv'
        OBVIOUS
    <2>1. PassedReady /\ ParentsEligible /\ ReadyNoticed
        BY DEF ReadyInv
    <2>2. PassedReady' /\ ParentsEligible' /\ ReadyNoticed'
        BY <2>1, PassedReadyStep, ParentsEligibleStep, ReadyNoticedStep
    <2> QED BY <2>2, QueuesStep DEF ReadyInv
<1> QED
    BY <1>1, <1>2, PTL DEF Spec

(* Type correctness of the scheduler; the deficits never exceed the maximum and never become *)
(* negative, whatever the mana vectors the cache is refreshed with.                            *)
THEOREM SchedulerTypeCorrect == Spec => []SchedulerTypeOK
<1>1. QueuesInv => SchedulerTypeOK
    BY DEF QueuesInv
<1> QED
    BY <1>1, SchedulerInvariant, PTL

(* The counter of BufferQueue is the number of blocks in the queues, no block is in two, and the *)
(* buffer is within its bound after every Submit, Unsubmit, Ready and schedule.                    *)
THEOREM BufferCounted == Spec => []SizeConsistent
<1>1. QueuesInv => SizeConsistent
    BY DEF QueuesInv
<1> QED
    BY <1>1, SchedulerInvariant, PTL

(* updateActiveNodesList and the turns of the round robin leave no queue with blocks outside the *)
(* ring, and no issuer in it twice.                                                                *)
THEOREM QueuesInTheRing == Spec => []RingConsistent
<1>1. QueuesInv => RingConsistent
    BY DEF QueuesInv
<1> QED
    BY <1>1, SchedulerInvariant, PTL

(* A block is ready or scheduled only after its parents were scheduled or confirmed, although    *)
(* tryReady looks at the parents in one step and calls Ready in another.                           *)
THEOREM ScheduledInCausalOrder == Spec => []ParentsEligible
<1>1. ReadyInv => ParentsEligible
    BY DEF ReadyInv
<1> QED
    BY <1>1, SchedulerInvariant, PTL

(* No interleaving of Submit, the parents' transitions and the tryReady calls overlooks a ready block. *)
THEOREM ReadyNotLost == Spec => []NoLostReady
<1>1. ReadyInv => NoLostReady
    BY DEF ReadyInv, ReadyNoticed, NoLostReady
<1> QED
    BY <1>1, SchedulerInvariant, PTL
=============================================================================
