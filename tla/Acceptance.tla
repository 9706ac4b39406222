----------------------------- MODULE Acceptance -----------------------------
(***************************************************************************)
(* Acceptance of blocks: the votes on markers of the ApprovalWeightManager *)
(* of mesh_old, and the acceptance gadget's HandleMarker, which accepts    *)
(* the past cone of a marker with enough weight.                           *)
(*                                                                         *)
(* BlockBooked and MarkerWeightChanged are attached: handlers of several   *)
(* blocks vote at the same time, and several workers of the event loop     *)
(* handle weights, in any order, while the votes go on.                    *)
(***************************************************************************)
EXTENDS Markers

CONSTANTS
    WeakParents,    \* the weak (and other not strong) parents of a block
    Voter,          \* identities of the issuers
    Weight,         \* their weights, of the WeightProvider
    Issuer,         \* the issuer of a block
    SequenceNumber, \* Block.SequenceNumber, the VotePower of its votes
    Worker,         \* workers of the event loop that handle weights
    MaxHandlers     \* bound of the model: blocks whose booking is handled at the same time

ASSUME AcceptanceAssumption ==
    /\ IsFiniteSet(Voter) /\ Weight \in [Voter -> Nat] /\ \E v \in Voter : Weight[v] > 0
    /\ WeakParents \in [Block -> SUBSET Block]
    /\ MaxHandlers \in Nat
    /\ \A b \in Block : Issuer[b] \in Voter /\ SequenceNumber[b] \in Nat

VARIABLES
    booked,         \* booked blocks
    votes,          \* LatestMarkerVotes of a sequence and voter: <<index, power>> pairs
    cast,           \* history: all votes that were to be stored
    lastConfirmed,  \* Gadget.lastConfirmedMarkers, 0 where there is none
    accepted,       \* blocks with ConfirmationState Accepted
    thread,         \* the running processBookedBlock calls
    tasks,          \* markers whose MarkerWeightChanged is not handled yet
    worker          \* the running HandleMarker calls

acceptanceVars == <<markerVars, booked, votes, cast, lastConfirmed, accepted, thread, tasks, worker>>

(* A handler: markers to vote for and already pushed, and the indexes whose weights it updates. *)
Idle == [pc |-> "idle", markers |-> {}, pushed |-> {}, sequence |-> 0, from |-> 0, to |-> 0]

Handler == [pc : {"idle", "vote", "weigh"}, markers : SUBSET Marker, pushed : SUBSET Marker,
            sequence : SequenceIDs, from : Nat, to : Nat]

(* A worker: blocks to visit along strong parents, already pushed, and weak parents. *)
Waiting == [pc |-> "idle", queue |-> {}, pushed |-> {}, weak |-> {}]

Walk == [pc : {"idle", "strong", "weak"}, queue : SUBSET Block, pushed : SUBSET Block, weak : SUBSET Block]

AcceptanceTypeOK ==
    /\ MarkersTypeOK
    /\ booked \subseteq Block /\ accepted \subseteq booked
    /\ votes \in [SequenceIDs -> [Voter -> SUBSET (MarkerIndex \X Nat)]]
    /\ cast \subseteq SequenceIDs \X Voter \X MarkerIndex \X Nat
    /\ lastConfirmed \in [SequenceIDs -> Nat]
    /\ \A s \in SequenceIDs : lastConfirmed[s] > 0 =>
            s \in DOMAIN sequences /\ lastConfirmed[s] \in sequences[s].lowestIndex .. sequences[s].highestIndex
    /\ thread \in [Block -> Handler]
    /\ \A b \in Block : /\ thread[b].markers \subseteq thread[b].pushed
                        /\ thread[b].pc # "idle" => b \in booked
    /\ tasks \subseteq UNION {details[b].pastMarkers : b \in booked}
    /\ worker \in [Worker -> Walk]
    /\ \A w \in Worker : worker[w].queue \subseteq worker[w].pushed

InitAcceptance ==
    /\ InitMarkers
    /\ booked = {} /\ cast = {} /\ accepted = {} /\ tasks = {}
    /\ votes = [s \in SequenceIDs |-> [v \in Voter |-> {}]]
    /\ lastConfirmed = [s \in SequenceIDs |-> 0]
    /\ thread = [b \in Block |-> Idle]
    /\ worker = [w \in Worker |-> Waiting]

-----------------------------------------------------------------------------
(* Booking, in one step: module Booker has its races. *)

WeightOf(V) == MapThenSumSet(LAMBDA v : Weight[v], V)

(* MarkersManager.BlockID, as a set: empty for the gaps of a sequence. *)
BlockID(m) == {b \in booked : details[b].isPastMarker /\ m \in details[b].pastMarkers}

(* BookBlock; BlockBooked starts the handler, which ends at once without a relevant voter. *)
BookBlock(b) ==
    LET merged == MergedDetails(b)
        new    == AssignedMarker(merged)
        past   == IF new = {} THEN merged.pastMarkers ELSE new
    IN  /\ b \notin booked
        /\ StrongParents[b] \cup WeakParents[b] \subseteq booked
        /\ Cardinality({x \in Block : thread[x].pc # "idle"}) < MaxHandlers
        /\ booked' = booked \cup {b}
        /\ sequences' = IF new = {} THEN sequences
                        ELSE WithMarker(CHOOSE m \in new : TRUE, merged.pastMarkers)
        /\ details' = [details EXCEPT ![b] =
                IF new = {} THEN merged
                ELSE [pastMarkers |-> new, pastMarkerGap |-> 0, isPastMarker |-> TRUE]]
        /\ thread' = [thread EXCEPT ![b] =
                IF Weight[Issuer[b]] = 0 THEN Idle
                ELSE [Idle EXCEPT !.pc = "vote", !.markers = past, !.pushed = past]]
        /\ UNCHANGED <<votes, cast, lastConfirmed, accepted, tasks, worker>>

-----------------------------------------------------------------------------
(* The gadget as ConfirmationOracle. *)

IsMarkerConfirmed(m) == BlockID(m) \cap accepted # {}

(* The first indexes of a sequence without a known one that are confirmed. *)
ConfirmedPrefix(s) ==
    {i \in sequences[s].lowestIndex .. sequences[s].highestIndex :
        \A j \in sequences[s].lowestIndex .. i : IsMarkerConfirmed(<<s, j>>)}

(* FirstUnconfirmedMarkerIndex, with the lastConfirmedMarkers it leaves. *)
LastConfirmedMarkers(s) ==
    [lastConfirmed EXCEPT ![s] = IF @ > 0 THEN @ ELSE Max({0} \cup ConfirmedPrefix(s))]

FirstUnconfirmedMarkerIndex(s) ==
    LET last == LastConfirmedMarkers(s)[s] IN
    IF last > 0 THEN last + 1 ELSE sequences[s].lowestIndex

-----------------------------------------------------------------------------
(* updateSequenceVoters *)

(* LatestMarkerVotes.Power: the vote with the lowest index from i on. *)
Ceiling(V, i) == {e \in V : e[1] >= i /\ \A f \in V : f[1] >= i => e[1] <= f[1]}

(* The votes that Store keeps beside the new one: no predecessors with less power. *)
Pruned(V, i, power) == {e \in V : e[1] > i \/ (e[1] < i /\ \E f \in V : /\ f[1] < i /\ f[1] >= e[1]
                                                                       /\ f[2] >= power)}

(* Mutant: only a vote for the same index is looked at. *)
MutantRefused(V, i, power) == \E e \in V : e[1] = i /\ power < e[2]

(* LatestMarkerVotes.Store aborts if a vote for a higher index has more power. *)
Refused(V, i, power) == \E e \in Ceiling(V, i) : power < e[2]

(* Mutant: the first index without a vote of this voter is left out. *)
MutantUpdateFrom(s, previous) ==
    IF previous = 0 THEN FirstUnconfirmedMarkerIndex(s) ELSE previous + 2

(* updateMarkerWeights starts after the previous vote, or with what is not confirmed. *)
UpdateFrom(s, previous) ==
    IF previous = 0 THEN FirstUnconfirmedMarkerIndex(s) ELSE previous + 1

AcceptanceThreshold == 67

(* A handler goes on with the next marker, if there is one. *)
Continue(th) ==
    IF th.markers = {} THEN Idle ELSE [th EXCEPT !.pc = "vote", !.sequence = 0, !.from = 0, !.to = 0]

(* addVoteToMarker *)
AddVoteToMarker(b, m) ==
    LET s        == m[1]
        V        == votes[s][Issuer[b]]
        power    == SequenceNumber[b]
        previous == Max({0} \cup {e[1] : e \in V})
        ignored  == FirstUnconfirmedMarkerIndex(s) >= m[2]
        stored   == ~ignored /\ ~Refused(V, m[2], power)
        next     == IF stored THEN ReferencedMarkers(m) ELSE {}
    IN  /\ thread[b].pc = "vote" /\ m \in thread[b].markers
        /\ lastConfirmed' = LastConfirmedMarkers(s)
        /\ cast' = IF ignored THEN cast ELSE cast \cup {<<s, Issuer[b], m[2], power>>}
        /\ votes' = IF stored
                    THEN [votes EXCEPT ![s][Issuer[b]] = Pruned(@, m[2], power) \cup {<<m[2], power>>}]
                    ELSE votes
        /\ thread' = [thread EXCEPT ![b] =
                LET th == [thread[b] EXCEPT !.markers = (@ \ {m}) \cup (next \ thread[b].pushed),
                                            !.pushed = @ \cup next] IN
                IF stored /\ m[2] > previous
                THEN [th EXCEPT !.pc = "weigh", !.sequence = s, !.from = UpdateFrom(s, previous), !.to = m[2]]
                ELSE Continue(th)]
        /\ UNCHANGED <<markerVars, booked, accepted, tasks, worker>>

(* Mutant: a vote counts for the later indexes. *)
MutantMarkerVotes(m) == {v \in Voter : \E e \in votes[m[1]][v] : e[1] <= m[2]}

(* markerVotes: the voters with a vote for the index or a higher one. *)
MarkerVotes(m) == {v \in Voter : Ceiling(votes[m[1]][v], m[2]) # {}}

(* DefaultBlockTranslation; the weight is relative to the total weight. *)
ReachesThreshold(w) == 100 * w >= AcceptanceThreshold * WeightOf(Voter)

(***************************************************************************)
(* updateMarkerWeights, one index after the other; gaps are skipped.  The  *)
(* gadget ignores a weight below the threshold, in whatever order it comes *)
(* to it: the event of such a weight is left out.                          *)
(***************************************************************************)
UpdateMarkerWeight(b) ==
    LET m == <<thread[b].sequence, thread[b].from>> IN
    /\ thread[b].pc = "weigh"
    /\ tasks' = IF BlockID(m) # {} /\ ReachesThreshold(WeightOf(MarkerVotes(m)))
                THEN tasks \cup {m} ELSE tasks
    /\ thread' = [thread EXCEPT ![b] =
            IF @.from = @.to THEN Continue(thread[b]) ELSE [thread[b] EXCEPT !.from = @ + 1]]
    /\ UNCHANGED <<markerVars, booked, votes, cast, lastConfirmed, accepted, worker>>

-----------------------------------------------------------------------------
(* The acceptance gadget. *)

(* setMarkerConfirmed *)
SetMarkerConfirmed(m) == [lastConfirmed EXCEPT ![m[1]] = Max({@, m[2]})]

(* HandleMarker of a weight that reaches the threshold. *)
HandleMarker(w, m) ==
    LET begin == ~IsMarkerConfirmed(m) IN
    /\ worker[w].pc = "idle" /\ m \in tasks
    /\ tasks' = tasks \ {m}
    /\ lastConfirmed' = IF begin THEN SetMarkerConfirmed(m) ELSE lastConfirmed
    /\ worker' = IF begin
                 THEN [worker EXCEPT ![w] = [Waiting EXCEPT !.pc = "strong", !.queue = BlockID(m),
                                                            !.pushed = BlockID(m)]]
                 ELSE worker
    /\ UNCHANGED <<markerVars, booked, votes, cast, accepted, thread>>

(* Mutant: leaves the parents that are no markers to the earlier markers. *)
MutantToVisit(b) == IF b \in accepted THEN {} ELSE {x \in StrongParents[b] : details[x].isPastMarker}

(* A block that is accepted for the first time goes on to its strong parents. *)
ToVisit(b) == IF b \in accepted THEN {} ELSE StrongParents[b]

(* propagateConfirmationStateToBlockPastCone, the walk along the strong parents ... *)
VisitStrong(w, b) ==
    /\ worker[w].pc = "strong" /\ b \in worker[w].queue
    /\ accepted' = accepted \cup {b}
    /\ worker' = [worker EXCEPT
            ![w].queue = (@ \ {b}) \cup (ToVisit(b) \ worker[w].pushed),
            ![w].pushed = @ \cup ToVisit(b),
            ![w].weak = IF b \in accepted THEN @ ELSE @ \cup WeakParents[b]]
    /\ UNCHANGED <<markerVars, booked, votes, cast, lastConfirmed, thread, tasks>>

(* ... and then the weak parents, without their past. *)
VisitWeak(w) ==
    /\ worker[w].pc # "idle" /\ worker[w].queue = {}
    /\ IF worker[w].weak \subseteq worker[w].pushed
       THEN worker' = [worker EXCEPT ![w] = Waiting] /\ UNCHANGED accepted
       ELSE \E b \in worker[w].weak \ worker[w].pushed :
                /\ accepted' = accepted \cup {b}
                /\ worker' = [worker EXCEPT ![w].pc = "weak", ![w].weak = @ \ {b}]
    /\ UNCHANGED <<markerVars, booked, votes, cast, lastConfirmed, thread, tasks>>

NextAcceptance ==
    \/ \E b \in Block : BookBlock(b) \/ UpdateMarkerWeight(b)
    \/ \E b \in Block : \E m \in thread[b].markers : AddVoteToMarker(b, m)
    \/ \E w \in Worker : \/ \E m \in tasks : HandleMarker(w, m)
                         \/ \E b \in worker[w].queue : VisitStrong(w, b)
                         \/ VisitWeak(w)

SpecAcceptance == InitAcceptance /\ [][NextAcceptance]_acceptanceVars

-----------------------------------------------------------------------------
(* Correctness. *)

QuietAcceptance ==
    /\ tasks = {} /\ \A b \in Block : thread[b].pc = "idle"
    /\ \A w \in Worker : worker[w].pc = "idle"

IsQuorum(V) == 100 * WeightOf(V) >= AcceptanceThreshold * WeightOf(Voter)

(***************************************************************************)
(* The votes of an issuer arrive in any order and are pruned: for every    *)
(* index the power that is kept is the highest one of its votes for that   *)
(* index or a later one of the sequence, whatever the order was.           *)
(***************************************************************************)
VotesInAnyOrder ==
    \A s \in DOMAIN sequences, v \in Voter : \A i \in 1 .. sequences[s].highestIndex :
        LET powers == {e[4] : e \in {x \in cast : x[1] = s /\ x[2] = v /\ x[3] >= i}} IN
        {e[2] : e \in Ceiling(votes[s][v], i)} = IF powers = {} THEN {} ELSE {Max(powers)}

(***************************************************************************)
(* Handlers update the weights of the indexes that are new for their voter *)
(* only, and confirmation moves on in the meantime: no marker whose voters *)
(* reach the threshold is left without acceptance.                         *)
(***************************************************************************)
QuorumMarkersAccepted ==
    QuietAcceptance => \A b \in booked : details[b].isPastMarker =>
        \A m \in details[b].pastMarkers : IsQuorum(MarkerVotes(m)) => b \in accepted

(* The blocks with a quorum of issuers whose blocks approve them. *)
Approved == {b \in booked : IsQuorum({Issuer[x] : x \in {y \in booked : b \in PastCone[y]}})}

(***************************************************************************)
(* A vote counts for all lower indexes and, through the referenced         *)
(* markers, for other sequences: yet no block is accepted unless issuers   *)
(* with the threshold of the weight have blocks above it, or above a block *)
(* that references it weakly.                                              *)
(***************************************************************************)
AcceptedByQuorum ==
    LET A == Approved IN accepted \subseteq A \cup UNION {WeakParents[x] : x \in A}

(* The blocks accepted, possibly, as weak parents. *)
AcceptedWeakly == UNION {WeakParents[b] : b \in accepted}

(***************************************************************************)
(* Walks stop at accepted blocks, also at those that another worker has    *)
(* just accepted and not left yet: when the workers are done, the past     *)
(* cone of an accepted block is accepted, except below blocks that were    *)
(* accepted as weak parents, and so is the last confirmed marker of every  *)
(* sequence, from which the oracle counts on.                              *)
(***************************************************************************)
PastConeAccepted ==
    QuietAcceptance =>
        /\ \A s \in DOMAIN sequences : lastConfirmed[s] > 0 => BlockID(<<s, lastConfirmed[s]>>) \cap accepted # {}
        /\ \A b \in accepted : \A x \in PastCone[b] \ accepted :
                \E y \in AcceptedWeakly : x \in PastCone[y]
=============================================================================
