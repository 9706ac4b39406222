----------------------------- MODULE ConflictDAG -----------------------------
(***************************************************************************)
(* The conflict DAG of packages/core/conflictdag: which spends compete for *)
(* which resource, which conflict depends on which, and who has won.       *)
(*                                                                         *)
(* Every operation changes the state under the RWMutex of the ConflictDAG: *)
(* SetConflictAccepted excludes all others, and those that share the read  *)
(* lock write the record and the references of their own conflict only, so *)
(* one action is one critical section.  CreateConflict triggers            *)
(* ConflictCreated only after it has unlocked: the announcement is a step  *)
(* of its own (TriggerConflictCreated), and others may come in between.    *)
(*                                                                         *)
(* The arguments of the operations are chosen by the ledger.  The guards   *)
(* named ...Contract say what the ledger's call sites guarantee; module    *)
(* Ledger calls the same operations with its own arguments.                *)
(***************************************************************************)
EXTENDS Naturals, FiniteSets

CONSTANTS
    ConflictID,     \* identifiers of conflicts (the ledger uses TransactionIDs)
    ResourceID      \* identifiers of conflicting resources (the ledger uses OutputIDs)

VARIABLES
    parents,            \* Conflict.Parents
    conflictSetIDs,     \* Conflict.ConflictSetIDs
    confirmationState,  \* Conflict.ConfirmationState; Undefined: not stored
    childConflicts,     \* ChildConflict references <<parent, child>>
    conflictMembers,    \* ConflictMember references <<resource, conflict>>
    unannounced,        \* created, ConflictCreated not triggered yet
    triggered           \* events of the last operation, see Event

dagVars == <<parents, conflictSetIDs, confirmationState, childConflicts,
             conflictMembers, unannounced, triggered>>

-----------------------------------------------------------------------------
(* confirmation.State of the foundation library, in its order. *)

Undefined == 0
Rejected  == 1
Pending   == 2
Accepted  == 3
Confirmed == 4

State == Undefined .. Confirmed

(***************************************************************************)
(* An event with the conflict whose processing triggered it (at) and the   *)
(* identifier it carries (ID).                                             *)
(***************************************************************************)
EventType == {"Created", "ConflictsUpdated", "ParentsUpdated", "Accepted", "Rejected"}
Event == [type : EventType, at : ConflictID, ID : ConflictID]

NewEvent(type, at, ID) == [type |-> type, at |-> at, ID |-> ID]

Stored == {c \in ConflictID : confirmationState[c] # Undefined}

TypeOK ==
    /\ parents \in [ConflictID -> SUBSET ConflictID]
    /\ conflictSetIDs \in [ConflictID -> SUBSET ResourceID]
    /\ confirmationState \in [ConflictID -> State]
    /\ childConflicts \subseteq ConflictID \X ConflictID
    /\ conflictMembers \subseteq ResourceID \X ConflictID
    /\ unannounced \subseteq Stored
    /\ triggered \subseteq Event

InitDAG ==
    /\ parents = [c \in ConflictID |-> {}]
    /\ conflictSetIDs = [c \in ConflictID |-> {}]
    /\ confirmationState = [c \in ConflictID |-> Undefined]
    /\ childConflicts = {}
    /\ conflictMembers = {}
    /\ unannounced = {}
    /\ triggered = {}

-----------------------------------------------------------------------------
(* Helpers. *)

IsAccepted(s) == s >= Accepted

(***************************************************************************)
(* The elements a walker visits: it starts with S, pushes y when it visits *)
(* x, for every edge <<x, y>>, and never visits an element twice.  That is *)
(* the least set that holds S and that the edges do not leave.             *)
(***************************************************************************)
Walk(S, edges) ==
    LET reach  == ConflictID \cap (S \cup {e[2] : e \in edges})
        closed == {T \in SUBSET reach :
                    S \subseteq T /\ \A e \in edges : e[1] \in T => e[2] \in T}
    IN  {x \in reach : \A T \in closed : x \in T}

(* The members other than c of a set of resources. *)
MembersBeside(members, R, c) ==
    {m \in ConflictID \ {c} : \E r \in R : <<r, m>> \in members}

(* Parents as edges: walking them goes to the ancestors. *)
ParentEdges == {e \in ConflictID \X ConflictID : e[2] \in parents[e[1]]}

(* forEachConflictingConflictID *)
ConflictingConflicts(c) == MembersBeside(conflictMembers, conflictSetIDs[c], c)

(* ForEachConnectedConflictingConflictID (c itself included). *)
ConnectedConflictingConflicts(c) ==
    Walk({c}, {e \in ConflictID \X ConflictID : e[2] \in ConflictingConflicts(e[1])})

(* Mutant: follows the references the wrong way. *)
MutantChildEdges == {<<e[2], e[1]>> : e \in childConflicts}

(* CachedChildConflicts: the references of a parent to its children. *)
ChildEdges == childConflicts

(* addConflictMembers: the references for the resources c is new to. *)
AddedMembers(c, R) == (R \ conflictSetIDs[c]) \X {c}

(* Mutant: asks for all parents instead of any. *)
MutantAnyParentRejected(P) == P # {} /\ \A p \in P : confirmationState[p] = Rejected

anyParentRejected(P) == \E p \in P : confirmationState[p] = Rejected

anyConflictingConflictAccepted(members, R, c) ==
    \E m \in MembersBeside(members, R, c) : IsAccepted(confirmationState[m])

(* UnconfirmedConflicts with mergeToMaster, the default. *)
UnconfirmedConflicts(S) == {c \in S : ~IsAccepted(confirmationState[c])}

(* ConfirmationState of a set of conflicts: Rejected wins over everything,  *)
(* then the smallest state counts; the empty set is Confirmed.              *)
ConfirmationState(S) ==
    IF \E c \in S : confirmationState[c] = Rejected
    THEN Rejected
    ELSE CHOOSE s \in State :
            /\ \A c \in S : s <= confirmationState[c]
            /\ s = Confirmed \/ \E c \in S : s = confirmationState[c]

-----------------------------------------------------------------------------
(* CreateConflict, the part under the lock. *)

CreateContract(id, P, R) ==
    /\ P \subseteq Stored \ {id}
    /\ R # {}

NewState(id, P, R) ==
    LET members == conflictMembers \cup (R \X {id}) IN
    IF anyParentRejected(P) \/ anyConflictingConflictAccepted(members, R, id)
    THEN Rejected
    ELSE Pending

CreateConflict(id, P, R) ==
    /\ id \notin Stored
    /\ parents' = [parents EXCEPT ![id] = P]
    /\ conflictSetIDs' = [conflictSetIDs EXCEPT ![id] = R]
    /\ conflictMembers' = conflictMembers \cup AddedMembers(id, R)
    /\ childConflicts' = childConflicts \cup (P \X {id})
    /\ confirmationState' = [confirmationState EXCEPT ![id] = NewState(id, P, R)]
    /\ unannounced' = unannounced \cup {id}
    /\ triggered' = {}

(* The event of CreateConflict, triggered after the unlock. *)
TriggerConflictCreated(id) ==
    /\ id \in unannounced
    /\ unannounced' = unannounced \ {id}
    /\ triggered' = {NewEvent("Created", id, id)}
    /\ UNCHANGED <<parents, conflictSetIDs, confirmationState, childConflicts, conflictMembers>>

-----------------------------------------------------------------------------
(***************************************************************************)
(* UpdateConflictParents replaces the parents in removed by the freshly    *)
(* forked conflict added.  It does nothing if added is a parent already,   *)
(* and conflicts in removed that are no parents make no difference.  The   *)
(* confirmation states are not looked at: the call is in time while added  *)
(* has not been rejected.                                                  *)
(***************************************************************************)
ReparentContract(id, removed, added) ==
    /\ added \in Stored
    /\ added \notin removed
    /\ id \notin Walk({added}, ParentEdges)

InTime(id, added) == confirmationState[added] = Rejected => confirmationState[id] = Rejected

(* Mutant: the references of the removed parents stay. *)
MutantUpdateConflictParents(id, removed, added) ==
    /\ id \in Stored
    /\ added \notin parents[id]
    /\ parents' = [parents EXCEPT ![id] = (@ \cup {added}) \ removed]
    /\ childConflicts' = childConflicts \cup {<<added, id>>}
    /\ triggered' = {NewEvent("ParentsUpdated", id, id)}
    /\ UNCHANGED <<conflictSetIDs, confirmationState, conflictMembers, unannounced>>

UpdateConflictParents(id, removed, added) ==
    /\ id \in Stored
    /\ added \notin parents[id]
    /\ parents' = [parents EXCEPT ![id] = (@ \cup {added}) \ removed]
    /\ childConflicts' = (childConflicts \ ((parents[id] \cap removed) \X {id}))
                            \cup {<<added, id>>}
    /\ triggered' = {NewEvent("ParentsUpdated", id, id)}
    /\ UNCHANGED <<conflictSetIDs, confirmationState, conflictMembers, unannounced>>

(***************************************************************************)
(* UpdateConflictingResources lets an existing conflict join further       *)
(* resources.  The confirmation states are not looked at.  The returned    *)
(* flag, and with it the event, tells only whether the last resource of    *)
(* the iteration was new.                                                  *)
(***************************************************************************)
JoinContract(id, R) ==
    IsAccepted(confirmationState[id]) => ~anyConflictingConflictAccepted(conflictMembers, R, id)

UpdateConflictingResources(id, R, last) ==
    /\ id \in Stored
    /\ conflictMembers' = conflictMembers \cup AddedMembers(id, R)
    /\ conflictSetIDs' = [conflictSetIDs EXCEPT ![id] = @ \cup R]
    /\ triggered' = IF last \in conflictSetIDs[id]
                    THEN {}
                    ELSE {NewEvent("ConflictsUpdated", id, id)}
    /\ UNCHANGED <<parents, confirmationState, childConflicts, unannounced>>

-----------------------------------------------------------------------------
(***************************************************************************)
(* SetConflictAccepted.  The first walk goes up from id through the        *)
(* conflicts that are not Accepted yet; the second walk starts at          *)
(* everything that conflicts with a newly accepted one and goes down       *)
(* through the conflicts that are not Rejected yet.  A conflict may change *)
(* in both walks, and the second one decides.                              *)
(***************************************************************************)
(* Mutant: accepts the conflict without its ancestors. *)
MutantNewlyAccepted(id) == {c \in Stored : c = id /\ confirmationState[c] # Accepted}

NewlyAccepted(id) ==
    LET Open(c) == c \in Stored /\ confirmationState[c] # Accepted IN
    {c \in Walk({id}, {e \in ParentEdges : Open(e[1])}) : Open(c)}

(* Mutant: the second walk treats accepted conflicts as final. *)
MutantNewlyRejected(A) ==
    LET StopsAt(x) == x \notin Stored \/ confirmationState[x] \in {Rejected, Accepted} IN
    {c \in Walk(UNION {ConflictingConflicts(a) : a \in A},
                {e \in ChildEdges : ~StopsAt(e[1])}) : ~StopsAt(c)}

NewlyRejected(A) ==
    LET StopsAt(x) == x \notin Stored \/ (confirmationState[x] = Rejected /\ x \notin A) IN
    {c \in Walk(UNION {ConflictingConflicts(a) : a \in A},
                {e \in ChildEdges : ~StopsAt(e[1])}) : ~StopsAt(c)}

(* The identifier in the ConflictAccepted event of c. *)
AcceptedEventID(id, c) == id

SetConflictAccepted(id) ==
    LET A == NewlyAccepted(id)
        R == NewlyRejected(A)
    IN  /\ confirmationState' = [c \in ConflictID |->
                IF c \in R THEN Rejected
                ELSE IF c \in A THEN Accepted
                ELSE confirmationState[c]]
        /\ triggered' = {NewEvent("Accepted", c, AcceptedEventID(id, c)) : c \in A}
                            \cup {NewEvent("Rejected", c, c) : c \in R}
        /\ UNCHANGED <<parents, conflictSetIDs, childConflicts, conflictMembers, unannounced>>

-----------------------------------------------------------------------------
NextDAG ==
    \/ \E id \in ConflictID \ Stored : \E P \in SUBSET Stored, R \in SUBSET ResourceID :
            CreateContract(id, P, R) /\ CreateConflict(id, P, R)
    \/ \E id \in ConflictID : TriggerConflictCreated(id)
    \/ \E id \in ConflictID : \E added \in ConflictID \ parents[id], removed \in SUBSET parents[id] :
            /\ ReparentContract(id, removed, added) /\ InTime(id, added)
            /\ UpdateConflictParents(id, removed, added)
    \/ \E id \in ConflictID, R \in SUBSET ResourceID : \E last \in R :
            JoinContract(id, R) /\ UpdateConflictingResources(id, R, last)
    \/ \E id \in ConflictID : SetConflictAccepted(id)

SpecDAG == InitDAG /\ [][NextDAG]_dagVars

-----------------------------------------------------------------------------
(* Correctness. *)

(***************************************************************************)
(* The reverse indexes agree with the conflicts: SetConflictAccepted walks *)
(* down the ChildConflict and across the ConflictMember references, and    *)
(* what they miss is never rejected.                                       *)
(***************************************************************************)
ReferencesConsistent ==
    /\ childConflicts = {e \in ConflictID \X ConflictID : e[1] \in parents[e[2]]}
    /\ conflictMembers = {e \in ResourceID \X ConflictID : e[1] \in conflictSetIDs[e[2]]}
    /\ \A c \in ConflictID : c \notin Stored => parents[c] = {} /\ conflictSetIDs[c] = {}

(***************************************************************************)
(* Two conflicts over the same resource are never both accepted, whatever  *)
(* is accepted in which order and whenever the conflicts arrive.           *)
(***************************************************************************)
NoConflictingAccepted ==
    \A c, d \in ConflictID : \A r \in conflictSetIDs[c] \cap conflictSetIDs[d] :
        IsAccepted(confirmationState[c]) /\ IsAccepted(confirmationState[d]) => c = d

(***************************************************************************)
(* Whatever depends on a rejected conflict is rejected: the second walk of *)
(* SetConflictAccepted may stop at a conflict that is Rejected already.    *)
(***************************************************************************)
RejectionInherited ==
    \A c \in ConflictID : \A p \in parents[c] :
        confirmationState[p] = Rejected => confirmationState[c] = Rejected

(***************************************************************************)
(* A step that accepts a conflict leaves all of its parents accepted.      *)
(***************************************************************************)
AcceptedWithParents ==
    [][\A c \in ConflictID :
        ~IsAccepted(confirmationState[c]) /\ IsAccepted(confirmationState'[c])
            => \A p \in parents[c] : IsAccepted(confirmationState'[p])]_dagVars

(***************************************************************************)
(* A conflict that was still in the race is rejected only by a step that   *)
(* accepts a competitor of it or of one of its ancestors.                  *)
(***************************************************************************)
LosesOnlyToWinner ==
    [][\A c \in Stored :
        confirmationState[c] # Rejected /\ confirmationState'[c] = Rejected
            => \E x \in Walk({c}, ParentEdges) : \E w \in ConflictingConflicts(x) :
                    \E e \in triggered' : e.type = "Accepted" /\ e.at = w]_dagVars

(***************************************************************************)
(* The inductive invariant of the proofs.  SetConflictAccepted compares    *)
(* with Accepted, everything else asks IsAccepted: they agree because no   *)
(* operation stores Confirmed.  A conflict that is not stored has no       *)
(* parents and no resources, so its first appearance disturbs nobody.      *)
(***************************************************************************)
DAGInv ==
    /\ TypeOK
    /\ ReferencesConsistent
    /\ NoConflictingAccepted
    /\ RejectionInherited
    /\ \A c \in ConflictID : confirmationState[c] # Confirmed
    /\ \A c \in ConflictID : parents[c] \subseteq Stored

=============================================================================
