------------------------------- MODULE Booker -------------------------------
(***************************************************************************)
(* The booker of mesh_old: blocks inherit markers and conflicts from their *)
(* strong parents, and a fork of a transaction is propagated to the future *)
(* cone of its attachments, along the markers and block by block.  The     *)
(* conflicts of a block are those of its past markers with the ones that   *)
(* its metadata adds and without the ones it subtracts.                    *)
(*                                                                         *)
(* A booking holds the bookingMutex of its block and, for reading, of its  *)
(* parents; a fork holds that of the block it is at, and the sequenceMutex *)
(* of the marker it changes.  What a booking reads from the markers it     *)
(* reads without a lock.                                                   *)
(***************************************************************************)
EXTENDS Markers

CONSTANTS
    Conflict,       \* transactions that get forked, and so their conflicts
    Attachments,    \* the blocks that contain such a transaction
    ParentConflicts \* the conflicts it was in before (RemovedConflictIDs of the event)

ASSUME BookerAssumption ==
    \A c \in Conflict : Attachments[c] \subseteq Block /\ ParentConflicts[c] \subseteq Conflict

VARIABLES
    mapping,    \* MarkerIndexConflictIDMapping of every sequence
    added,      \* BlockMetadata.AddedConflictIDs
    subtracted, \* BlockMetadata.SubtractedConflictIDs
    booked,     \* blocks whose metadata says so
    booking,    \* the running BookBlock calls
    fork,       \* the running PropagateForkedConflict calls
    panicked    \* the node has crashed

bookerVars == <<markerVars, mapping, added, subtracted, booked, booking, fork, panicked>>

(* A booking: the conflicts it read and the referenced markers it still registers itself at. *)
NotBooking == [pc |-> "idle", inherited |-> {}, register |-> {}]

(* A fork: blocks and markers to visit and already pushed, the block it locks and the mapping it sets. *)
NotForking == [pc |-> "idle", queue |-> {}, pushed |-> {}, locked |-> {},
               markers |-> {}, pushedMarkers |-> {}, setting |-> {}]

BookerTypeOK ==
    /\ MarkersTypeOK
    /\ DOMAIN mapping \subseteq DOMAIN sequences
    /\ \A s \in DOMAIN mapping : \A i \in DOMAIN mapping[s] :
            <<s, i>> \in Marker /\ mapping[s][i] \subseteq Conflict
    /\ added \in [Block -> SUBSET Conflict] /\ subtracted \in [Block -> SUBSET Conflict]
    /\ \A b \in booked : StrongParents[b] \subseteq booked /\ details[b].pastMarkers # {}
    /\ \A b \in Block : /\ booking[b].pc \in {"idle", "inherit", "register", "conflicts"}
                        /\ booking[b].inherited \subseteq Conflict
                        /\ booking[b].register # {} => booking[b].pc = "register"
    /\ \A c \in Conflict :
        /\ fork[c].pc \in {"idle", "walk", "marker", "set", "done"}
        /\ fork[c].queue \subseteq fork[c].pushed /\ fork[c].pushed \subseteq Block
        /\ fork[c].markers \subseteq fork[c].pushedMarkers /\ fork[c].pushedMarkers \subseteq Marker
        /\ fork[c].locked # {} <=> fork[c].pc \in {"marker", "set"}
    /\ panicked \in BOOLEAN

InitBooker ==
    /\ InitMarkers
    /\ mapping = [s \in {0} |-> [i \in {0} |-> {}]]
    /\ added = [b \in Block |-> {}] /\ subtracted = [b \in Block |-> {}]
    /\ booked = {} /\ panicked = FALSE
    /\ booking = [b \in Block |-> NotBooking]
    /\ fork = [c \in Conflict |-> NotForking]

-----------------------------------------------------------------------------
(* The conflicts of markers and blocks. *)

Mapped(m) == m[1] \in DOMAIN mapping /\ \E i \in DOMAIN mapping[m[1]] : i <= m[2]

(* ConflictMarkersMapper.ConflictIDs: the mapping of the highest index up to m. *)
ConflictIDs(m) == mapping[m[1]][Max({i \in DOMAIN mapping[m[1]] : i <= m[2]})]

(* conflictIDsFromStructureDetails *)
PastMarkersConflictIDs(d) == UNION {ConflictIDs(m) : m \in d.pastMarkers}

Known(d) == \A m \in d.pastMarkers : Mapped(m)

(* blockBookingDetails, conflictIDsFromMetadata *)
BlockConflictIDs(b) == (PastMarkersConflictIDs(details[b]) \cup added[b]) \ subtracted[b]

(* PayloadConflictIDs: the ledger has forked the transactions before the booker hears of it. *)
PayloadConflictIDs(b) == {c \in Conflict : b \in Attachments[c] /\ fork[c].pc # "idle"}

(* setConflictIDMapping *)
WithMapping(m, conflictIDs) ==
    LET indexes == {m[2]} \cup IF m[1] \in DOMAIN mapping THEN DOMAIN mapping[m[1]] ELSE {}
    IN  [s \in DOMAIN mapping \cup {m[1]} |->
            IF s = m[1] THEN [i \in indexes |-> IF i = m[2] THEN conflictIDs ELSE mapping[s][i]] ELSE mapping[s]]

(* ConflictMarkersMapper.SetConflictIDs, by the booking that has just created the marker. *)
SetConflictIDs(m, conflictIDs) ==
    IF Mapped(m) /\ ConflictIDs(m) = conflictIDs THEN mapping ELSE WithMapping(m, conflictIDs)

-----------------------------------------------------------------------------
(* bookingMutex and sequenceMutex. *)

(* Mutant: a fork waits for the bookings of the children only. *)
MutantBookingsAt(b) == {x \in StrongChildren(b) : booking[x].pc # "idle"}

BookingsAt(b) == {x \in {b} \cup StrongChildren(b) : booking[x].pc # "idle"}

ForksAt(b) == {c \in Conflict : b \in fork[c].locked}

Bookable(b) == \A x \in {b} \cup StrongParents[b] : ForksAt(x) = {}

SequenceFree(c, s) == \A d \in Conflict \ {c} : \A u \in fork[d].setting : u[1] # s

-----------------------------------------------------------------------------
(* BookBlock *)

(***************************************************************************)
(* The booking details of the strong parents: the conflicts to inherit.    *)
(* The mapping panics when it is asked for a marker that it does not know. *)
(***************************************************************************)
DetermineBookingDetails(b) ==
    /\ booking[b].pc = "idle" /\ b \notin booked
    /\ StrongParents[b] \subseteq booked /\ Bookable(b)
    /\ panicked' = ~\A p \in StrongParents[b] : Known(details[p])
    /\ booking' = [booking EXCEPT ![b] = [NotBooking EXCEPT !.pc = "inherit",
            !.inherited = IF panicked' THEN {} ELSE
                PayloadConflictIDs(b) \cup UNION {BlockConflictIDs(p) : p \in StrongParents[b]}]]
    /\ UNCHANGED <<markerVars, mapping, added, subtracted, booked, fork>>

(* Manager.InheritStructureDetails up to the referencing markers. *)
InheritStructureDetails(b) ==
    LET merged == MergedDetails(b)
        new    == AssignedMarker(merged)
    IN  /\ booking[b].pc = "inherit"
        /\ sequences' = IF new = {} THEN sequences
                        ELSE WithMarker(CHOOSE m \in new : TRUE, merged.pastMarkers)
        /\ details' = [details EXCEPT ![b] =
                IF new = {} THEN merged
                ELSE [pastMarkers |-> new, pastMarkerGap |-> 0, isPastMarker |-> TRUE]]
        /\ booking' = [booking EXCEPT ![b].pc = "register",
                ![b].register = {n \in merged.pastMarkers : new # {} /\ \A m \in new : m[1] # n[1]}]
        /\ UNCHANGED <<mapping, added, subtracted, booked, fork, panicked>>

(* registerReferencingMarker, one referenced sequence after the other. *)
RegisterReferencingMarker(b) ==
    /\ booking[b].pc = "register"
    /\ IF booking[b].register = {}
       THEN booking' = [booking EXCEPT ![b].pc = "conflicts"] /\ UNCHANGED sequences
       ELSE \E n \in booking[b].register, m \in details[b].pastMarkers :
                /\ sequences' = Registered(n, m)
                /\ booking' = [booking EXCEPT ![b].register = @ \ {n}]
    /\ UNCHANGED <<details, mapping, added, subtracted, booked, fork, panicked>>

(***************************************************************************)
(* The rest of inheritConflictIDs, and SetBooked: the marker of a new      *)
(* sequence gets the inherited conflicts; otherwise the conflicts of the   *)
(* past markers are read once more and what differs is stored.             *)
(***************************************************************************)
InheritConflictIDs(b) ==
    LET d         == details[b]
        inherited == booking[b].inherited
        created   == d.isPastMarker /\ \A m \in d.pastMarkers : m[1] \notin DOMAIN mapping
        past      == IF Known(d) THEN PastMarkersConflictIDs(d) ELSE {}
    IN  /\ booking[b].pc = "conflicts"
        /\ panicked' = ~(created \/ Known(d))
        /\ mapping' = IF d.isPastMarker /\ (created \/ past # inherited)
                      THEN SetConflictIDs(CHOOSE m \in d.pastMarkers : TRUE, inherited)
                      ELSE mapping
        /\ added' = [added EXCEPT ![b] = IF d.isPastMarker THEN @ ELSE inherited \ past]
        /\ subtracted' = [subtracted EXCEPT ![b] = IF d.isPastMarker THEN @ ELSE past \ inherited]
        /\ booked' = booked \cup {b}
        /\ booking' = [booking EXCEPT ![b] = NotBooking]
        /\ UNCHANGED <<markerVars, fork>>

-----------------------------------------------------------------------------
(* PropagateForkedConflict *)

StartFork(c) ==
    /\ fork[c].pc = "idle"
    /\ \A p \in ParentConflicts[c] : fork[p].pc = "done"
    /\ fork' = [fork EXCEPT ![c] = [NotForking EXCEPT !.pc = "walk",
                                        !.queue = Attachments[c], !.pushed = Attachments[c]]]
    /\ UNCHANGED <<markerVars, mapping, added, subtracted, booked, booking, panicked>>

(* The next blocks to visit; the walker visits a block once. *)
Push(th, b, S) == [th EXCEPT !.queue = (@ \ {b}) \cup (S \ th.pushed), !.pushed = @ \cup S]

(* updateBlockConflicts: AddConflictID leaves the subtracted conflicts alone. *)
UpdateBlockConflicts(c, b) ==
    LET updated == ParentConflicts[c] \subseteq BlockConflictIDs(b) /\ c \notin added[b] IN
    /\ \A m \in details[b].pastMarkers : SequenceFree(c, m[1])
    /\ added' = [added EXCEPT ![b] = IF updated THEN @ \cup {c} ELSE @]
    /\ fork' = [fork EXCEPT ![c] = Push(@, b, IF updated THEN StrongChildren(b) ELSE {})]

(* propagateForkedConflict of the next block: it is not booked, a marker or another block. *)
PropagateForkedConflict(c, b) ==
    /\ fork[c].pc = "walk" /\ b \in fork[c].queue
    /\ BookingsAt(b) = {} /\ ForksAt(b) = {}
    /\ \/ /\ b \notin booked
          /\ fork' = [fork EXCEPT ![c] = Push(@, b, {})]
          /\ UNCHANGED added
       \/ /\ b \in booked /\ details[b].isPastMarker
          /\ fork' = [fork EXCEPT ![c].pc = "marker", ![c].locked = {b},
                                  ![c].markers = details[b].pastMarkers,
                                  ![c].pushedMarkers = details[b].pastMarkers]
          /\ UNCHANGED added
       \/ b \in booked /\ ~details[b].isPastMarker /\ UpdateBlockConflicts(c, b)
    /\ UNCHANGED <<markerVars, mapping, subtracted, booked, booking, panicked>>

(***************************************************************************)
(* forkSingleMarker: SetConflictIDs deletes the mapping of the marker      *)
(* before it sets the new one.  A sequence that a booking is creating has  *)
(* no mapping yet, and the node panics.                                    *)
(***************************************************************************)
ForkSingleMarker(c, m) ==
    /\ fork[c].pc = "marker" /\ m \in fork[c].markers /\ SequenceFree(c, m[1])
    /\ panicked' = ~Mapped(m)
    /\ IF Mapped(m) /\ ParentConflicts[c] \subseteq ConflictIDs(m) /\ c \notin ConflictIDs(m)
       THEN /\ fork' = [fork EXCEPT ![c].pc = "set", ![c].markers = @ \ {m},
                                    ![c].setting = {<<m[1], m[2], ConflictIDs(m) \cup {c}>>}]
            /\ mapping' = [mapping EXCEPT ![m[1]] = [i \in DOMAIN @ \ {m[2]} |-> @[i]]]
       ELSE /\ fork' = [fork EXCEPT ![c].markers = @ \ {m}]
            /\ UNCHANGED mapping
    /\ UNCHANGED <<markerVars, added, subtracted, booked, booking>>

(* The new mapping, the later ones of the sequence and the referencing markers. *)
SetForkedMarker(c) ==
    /\ fork[c].pc = "set"
    /\ \E u \in fork[c].setting :
        LET m     == <<u[1], u[2]>>
            later == {<<m[1], i>> : i \in {j \in DOMAIN mapping[m[1]] : j > m[2]}}
            next  == later \cup {n \in ReferencingMarkers(m) : n[1] # m[1]}
        IN  /\ mapping' = WithMapping(m, u[3])
            /\ fork' = [fork EXCEPT ![c].pc = "marker", ![c].setting = {},
                                    ![c].markers = @ \cup (next \ fork[c].pushedMarkers),
                                    ![c].pushedMarkers = @ \cup next]
    /\ UNCHANGED <<markerVars, added, subtracted, booked, booking, panicked>>

(* The walk goes on with the children of the marker's block, whatever the markers had already. *)
LeaveMarker(c) ==
    /\ fork[c].pc = "marker" /\ fork[c].markers = {}
    /\ \E b \in fork[c].locked :
        fork' = [fork EXCEPT ![c] = [Push(@, b, StrongChildren(b)) EXCEPT !.pc = "walk", !.locked = {}]]
    /\ UNCHANGED <<markerVars, mapping, added, subtracted, booked, booking, panicked>>

EndFork(c) ==
    /\ fork[c].pc = "walk" /\ fork[c].queue = {}
    /\ fork' = [fork EXCEPT ![c].pc = "done"]
    /\ UNCHANGED <<markerVars, mapping, added, subtracted, booked, booking, panicked>>

NextBooker ==
    /\ ~panicked
    /\ \/ \E b \in Block : \/ DetermineBookingDetails(b) \/ InheritStructureDetails(b)
                           \/ RegisterReferencingMarker(b) \/ InheritConflictIDs(b)
       \/ \E c \in Conflict : StartFork(c) \/ SetForkedMarker(c) \/ LeaveMarker(c) \/ EndFork(c)
       \/ \E c \in Conflict, b \in Block : PropagateForkedConflict(c, b)
       \/ \E c \in Conflict, m \in UNION {fork[d].markers : d \in Conflict} : ForkSingleMarker(c, m)

SpecBooker == InitBooker /\ [][NextBooker]_bookerVars

-----------------------------------------------------------------------------
(* Correctness. *)

(* The conflicts of the transactions that b approves. *)
Approved(b) == {c \in Conflict : PastCone[b] \cap Attachments[c] # {} /\ fork[c].pc # "idle"}

(***************************************************************************)
(* Blocks are booked in any order and race for the next index of a         *)
(* sequence, yet markers never lie: a walk from the past markers of a      *)
(* booked block along the sequences covers a marker exactly if the block   *)
(* of that marker is in the strong past cone.  Votes and forks rely on it. *)
(***************************************************************************)
MarkersFollowPastCone ==
    \A b \in booked, x \in booked : details[x].isPastMarker =>
        \A m \in details[x].pastMarkers : Covers(b, m) <=> x \in PastCone[b]

(***************************************************************************)
(* The mapping of a marker holds for all later indexes of its sequence,    *)
(* and forks walk to the referencing markers: no block gets the conflict   *)
(* of a transaction that it does not approve.                              *)
(***************************************************************************)
OnlyApprovedConflicts ==
    \A b \in booked : Known(details[b]) => BlockConflictIDs(b) \subseteq Approved(b)

QuietBooker ==
    /\ ~panicked
    /\ \A b \in Block : booking[b].pc = "idle"
    /\ \A c \in Conflict : fork[c].pc \in {"idle", "done"}

(* All that is forked below b is c, and no booking below b has stored c as subtracted. *)
Undisturbed(b, c) ==
    /\ Approved(b) = {c} /\ ParentConflicts[c] = {}
    /\ \A x \in PastCone[b] : c \notin subtracted[x]

(***************************************************************************)
(* A booking reads the conflicts of its parents before a fork reaches      *)
(* their markers and sets those of its own marker after that: when fork    *)
(* and bookings are over, every block above the transaction, a marker or   *)
(* not, has its conflict all the same.  What may lose it is a booking that *)
(* reads a marker twice, before and after the fork, and one that reads it  *)
(* while another fork has its mapping deleted.                             *)
(***************************************************************************)
ForkReachesBlocks ==
    QuietBooker => \A b \in booked, c \in Conflict : Undisturbed(b, c) => c \in BlockConflictIDs(b)

(***************************************************************************)
(* booker_test.go, TestMultiThreadedBookingAndForkingParallel, expects of  *)
(* blocks booked while transactions are forked that each has the conflicts *)
(* of all layers below ("Add conflicts of the current layer").             *)
(***************************************************************************)
ForkReachesFutureCone ==
    QuietBooker => \A b \in booked : Approved(b) \subseteq BlockConflictIDs(b)
=============================================================================
