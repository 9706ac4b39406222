------------------------------- MODULE Markers -------------------------------
(***************************************************************************)
(* The sequences of markers: packages/core/markers, as the booker of       *)
(* mesh_old uses it.  A marker <<s, i>> is the index i of the sequence s;  *)
(* Markers, a collection with one index per sequence, is a set of them.    *)
(* A block that extends a sequence, or starts a new one, becomes a marker; *)
(* the other blocks keep the markers they have in their past.              *)
(***************************************************************************)
EXTENDS Mesh, Naturals, FiniteSets, FiniteSetsExt, TLC

CONSTANTS
    StrongParents,         \* their strong parents, {} for the genesis alone
    MaxPastMarkerDistance  \* of the ManagerOptions

ASSUME MarkersAssumption ==
    /\ IsFiniteSet(Block)
    /\ StrongParents \in [Block -> SUBSET Block]
    /\ \A S \in SUBSET Block \ {{}} : \E b \in S : StrongParents[b] \cap S = {}
    /\ MaxPastMarkerDistance \in Nat \ {0}

VARIABLES
    sequences,   \* the Manager's sequenceStore, by SequenceID
    details      \* BlockMetadata.StructureDetails

markerVars == <<sequences, details>>

(* One of the first sequences and blocks, one per index at most. *)
SequenceIDs == 0 .. Cardinality(Block)
MarkerIndex == 0 .. 2 * Cardinality(Block)
Marker == SequenceIDs \X MarkerIndex

(* A StructureDetails; the genesis has the first one, an unbooked block none. *)
NoMarkers == [pastMarkers |-> {}, pastMarkerGap |-> 0, isPastMarker |-> FALSE]

(* A ThresholdMap per other sequence is a set of <<own index, other sequence, other index>>. *)
Sequence == [lowestIndex : Nat, highestIndex : Nat,
             referenced : SUBSET (Nat \X Marker), referencing : SUBSET (Nat \X Marker)]

StructureDetails == [pastMarkers : SUBSET Marker, pastMarkerGap : Nat, isPastMarker : BOOLEAN]

(* Genesis: sequence 0, whose index 0 no block has. *)
InitMarkers ==
    /\ sequences = [s \in {0} |-> [lowestIndex |-> 0, highestIndex |-> 0, referenced |-> {}, referencing |-> {}]]
    /\ details = [b \in Block |-> NoMarkers]

-----------------------------------------------------------------------------
(* Markers and Sequences. *)

HighestIndex(ms) == Max({0} \cup {m[2] : m \in ms})

(* Markers.Merge keeps the highest index of every sequence. *)
Merge(ms) == {m \in ms : \A n \in ms : n[1] = m[1] => n[2] <= m[2]}

(* Sequence.ReferencedMarkers: what the latest index up to i references. *)
ReferencedMarkers(m) ==
    LET upTo == {e \in sequences[m[1]].referenced : e[1] <= m[2]} IN
    {e[2] : e \in {x \in upTo : \A y \in upTo : y[2][1] = x[2][1] => y[1] <= x[1]}}

(* Mutant: takes the threshold the wrong way round. *)
MutantReferencingMarkers(m) == {e[2] : e \in {x \in sequences[m[1]].referencing : x[1] <= m[2]}}

(* Sequence.ReferencingMarkers: what references the first index from i on. *)
ReferencingMarkers(m) ==
    LET from == {e \in sequences[m[1]].referencing : e[1] >= m[2]} IN
    {e[2] : e \in {x \in from : \A y \in from : y[2][1] = x[2][1] => x[1] <= y[1]}}

(* The markers of a walk along ReferencedMarkers, without the first ones. *)
Referenced(ms) ==
    LET next(S) == S \cup UNION {ReferencedMarkers(m) : m \in S}
        walk[n \in 0 .. Cardinality(Block)] ==
            IF n = 0 THEN UNION {ReferencedMarkers(m) : m \in ms} ELSE next(walk[n - 1])
    IN  walk[Cardinality(Block)]

(***************************************************************************)
(* normalizeMarkers; the walk ends early where it cannot find more.  The   *)
(* walker pushes a marker once: one of ms that is referenced with exactly  *)
(* its own index is not visited again, and stays.                          *)
(***************************************************************************)
NormalizeMarkers(ms) == {m \in ms : \A n \in Referenced(ms) : n[1] = m[1] => n[2] <= m[2]}

(* mergeParentStructureDetails, normalizeMarkers; the marker of the genesis if there is none. *)
MergedDetails(b) ==
    LET parents == IF StrongParents[b] = {} THEN {NoMarkers} ELSE {details[p] : p \in StrongParents[b]}
        past    == NormalizeMarkers(Merge(UNION {d.pastMarkers : d \in parents}))
    IN  [NoMarkers EXCEPT !.pastMarkers = IF past = {} THEN {<<0, 0>>} ELSE past,
                          !.pastMarkerGap = Min({d.pastMarkerGap : d \in parents}) + 1]

(* Mutant: also extends a sequence that has gone on. *)
MutantExtendable(past) == {m \in past : sequences[m[1]].highestIndex <= m[2] + 1}

(* The markers at the end of their sequence: TryExtend, with the default callback. *)
Extendable(past) == {m \in past : sequences[m[1]].highestIndex = m[2]}

(***************************************************************************)
(* extendHighestAvailableSequence, else createSequenceIfNecessary: the     *)
(* marker of the block, if it gets one.  A sequence that has gone on will  *)
(* not be extendable again, and what an index references does not change:  *)
(* only the TryExtend that succeeds needs the lock of its sequence.        *)
(***************************************************************************)
AssignedMarker(merged) ==
    LET extendable == Extendable(merged.pastMarkers)
        new        == HighestIndex(merged.pastMarkers) + 1
    IN  IF extendable # {} THEN {<<Max({m[1] : m \in extendable}), new>>}
        ELSE IF merged.pastMarkerGap >= MaxPastMarkerDistance THEN {<<Cardinality(DOMAIN sequences), new>>}
        ELSE {}

(* TryExtend or NewSequence: the sequence of m with the new index. *)
WithMarker(m, past) ==
    LET others == {<<m[2], n>> : n \in {x \in past : x[1] # m[1]}} IN
    IF m[1] \in DOMAIN sequences
    THEN [sequences EXCEPT ![m[1]].highestIndex = m[2], ![m[1]].referenced = @ \cup others]
    ELSE [s \in DOMAIN sequences \cup {m[1]} |->
            IF s \in DOMAIN sequences THEN sequences[s]
            ELSE [lowestIndex |-> m[2], highestIndex |-> m[2], referenced |-> others, referencing |-> {}]]

(* registerReferencingMarker for one referenced marker n. *)
Registered(n, m) ==
    [sequences EXCEPT ![n[1]].referencing =
        {e \in @ : ~(e[1] = n[2] /\ e[2][1] = m[1])} \cup {<<n[2], m>>}]

-----------------------------------------------------------------------------
(* The blocks' past. *)

PastCone[b \in Block] == {b} \cup UNION {PastCone[p] : p \in StrongParents[b]}

StrongChildren(b) == {x \in Block : b \in StrongParents[x]}

(* The markers that a walk from the past markers of b covers include m. *)
Covers(b, m) ==
    \E n \in details[b].pastMarkers \cup Referenced(details[b].pastMarkers) : n[1] = m[1] /\ m[2] <= n[2]

MarkersTypeOK ==
    /\ DOMAIN sequences \subseteq SequenceIDs
    /\ \A s \in DOMAIN sequences : sequences[s] \in Sequence
    /\ details \in [Block -> StructureDetails]
=============================================================================
