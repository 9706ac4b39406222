-------------------------- MODULE ConflictDAGProofs --------------------------
(***************************************************************************)
(* Proofs about ConflictDAG, for any sets of conflicts and resources.      *)
(***************************************************************************)
EXTENDS ConflictDAG, TLAPS

-----------------------------------------------------------------------------
(* What a walker visits. *)

(* A walker visits every element it starts with. *)
LEMMA WalkStart ==
  ASSUME NEW S \in SUBSET ConflictID, NEW edges
  PROVE  S \subseteq Walk(S, edges) /\ Walk(S, edges) \subseteq ConflictID
  BY DEF Walk

(* A walker visits everything it pushes. *)
LEMMA WalkPush ==
  ASSUME NEW S, NEW edges, NEW x \in Walk(S, edges), NEW y \in ConflictID, <<x, y>> \in edges
  PROVE  y \in Walk(S, edges)
  BY DEF Walk

(* A walker visits nothing outside a set that its edges do not leave. *)
LEMMA WalkLeast ==
  ASSUME NEW S, NEW edges, NEW T \in SUBSET ConflictID,
         S \subseteq T, \A e \in edges : e[1] \in T => e[2] \in T
  PROVE  Walk(S, edges) \subseteq T
<1> DEFINE reach == ConflictID \cap (S \cup {e[2] : e \in edges})
<1>1. /\ T \cap reach \in SUBSET reach /\ S \subseteq T \cap reach
      /\ \A e \in edges : e[1] \in T \cap reach => e[2] \in T \cap reach
  OBVIOUS
<1> QED
  BY <1>1 DEF Walk

-----------------------------------------------------------------------------
(* The two walks of SetConflictAccepted. *)

(* The first walk accepts the parents of whatever it accepts. *)
LEMMA AcceptedUpwards ==
  ASSUME TypeOK, NEW id \in ConflictID
  PROVE  /\ NewlyAccepted(id) \subseteq {c \in Stored : confirmationState[c] # Accepted}
         /\ \A c \in NewlyAccepted(id) : \A p \in parents[c] :
                p \in Stored => p \in NewlyAccepted(id) \/ confirmationState[p] = Accepted
<1> DEFINE Open(c) == c \in Stored /\ confirmationState[c] # Accepted
           edges == {e \in ParentEdges : Open(e[1])}
<1>1. NewlyAccepted(id) = {c \in Walk({id}, edges) : Open(c)}
  BY DEF NewlyAccepted
<1>2. ASSUME NEW c \in NewlyAccepted(id), NEW p \in parents[c], p \in Stored
      PROVE  p \in NewlyAccepted(id) \/ confirmationState[p] = Accepted
  <2>1. c \in Walk({id}, edges) /\ Open(c)
    BY <1>1
  <2>2. c \in ConflictID /\ p \in ConflictID
    BY <2>1, <1>2 DEF Stored
  <2>3. <<c, p>> \in edges
    BY <2>1, <2>2 DEF ParentEdges
  <2> HIDE DEF edges
  <2>4. p \in Walk({id}, edges)
    BY <2>1, <2>2, <2>3, WalkPush
  <2> QED
    BY <2>4, <1>1, <1>2
<1> HIDE DEF edges
<1> QED
  BY <1>1, <1>2 DEF Stored

(***************************************************************************)
(* The second walk rejects every competitor of a newly accepted conflict,  *)
(* unless it is Rejected already, and the children of all it rejects.      *)
(***************************************************************************)
LEMMA RejectedDownwards ==
  ASSUME TypeOK, NEW A \in SUBSET Stored
  PROVE  /\ NewlyRejected(A) \subseteq Stored
         /\ \A c \in NewlyRejected(A) : confirmationState[c] # Rejected \/ c \in A
         /\ \A a \in A : \A c \in ConflictingConflicts(a) :
                c \in Stored =>
                    (c \in NewlyRejected(A) \/ (confirmationState[c] = Rejected /\ c \notin A))
         /\ \A c \in NewlyRejected(A), d \in Stored :
                <<c, d>> \in childConflicts =>
                    (d \in NewlyRejected(A) \/ (confirmationState[d] = Rejected /\ d \notin A))
<1> DEFINE StopsAt(x) == x \notin Stored \/ (confirmationState[x] = Rejected /\ x \notin A)
           edges == {e \in ChildEdges : ~StopsAt(e[1])}
           start == UNION {ConflictingConflicts(a) : a \in A}
<1>1. start \in SUBSET ConflictID
  BY DEF ConflictingConflicts, MembersBeside
<1>2. NewlyRejected(A) = {c \in Walk(start, edges) : ~StopsAt(c)}
  BY DEF NewlyRejected
<1> HIDE DEF edges, start
<1>3. start \subseteq Walk(start, edges)
  BY <1>1, WalkStart
<1>4. ASSUME NEW a \in A, NEW c \in ConflictingConflicts(a)
      PROVE  c \in Walk(start, edges)
  BY <1>3, <1>4 DEF start
<1>5. ASSUME NEW c \in NewlyRejected(A), NEW d \in Stored, <<c, d>> \in childConflicts
      PROVE  d \in Walk(start, edges)
  <2>1. c \in Walk(start, edges) /\ ~StopsAt(c) /\ d \in ConflictID
    BY <1>2 DEF Stored
  <2>2. <<c, d>> \in edges
    BY <2>1, <1>5 DEF edges, ChildEdges
  <2> QED
    BY <2>1, <2>2, WalkPush
<1>6. \A c \in NewlyRejected(A) : c \in Stored /\ (confirmationState[c] # Rejected \/ c \in A)
  BY <1>2
<1>7. \A c \in Stored : c \in Walk(start, edges) =>
            c \in NewlyRejected(A) \/ (confirmationState[c] = Rejected /\ c \notin A)
  BY <1>2
<1> QED
  BY <1>4, <1>5, <1>6, <1>7

-----------------------------------------------------------------------------
(* The invariant. *)

LEMMA InitEstablishes == InitDAG => DAGInv
  BY DEF InitDAG, DAGInv, TypeOK, ReferencesConsistent, NoConflictingAccepted,
         RejectionInherited, Stored, State, IsAccepted,
         Undefined, Rejected, Pending, Accepted, Confirmed

(* The part of the invariant that a re-parenting which comes too late leaves intact. *)
DAGCore ==
  /\ TypeOK
  /\ ReferencesConsistent
  /\ NoConflictingAccepted
  /\ \A c \in ConflictID : confirmationState[c] # Confirmed
  /\ \A c \in ConflictID : parents[c] \subseteq Stored

LEMMA CoreAndInheritance ==
  /\ DAGInv <=> DAGCore /\ RejectionInherited
  /\ DAGInv' <=> DAGCore' /\ RejectionInherited'
  BY DEF DAGInv, DAGCore

LEMMA CreateConflictCore ==
  ASSUME DAGCore, NEW id \in ConflictID, NEW P \in SUBSET ConflictID,
         NEW R \in SUBSET ResourceID, CreateContract(id, P, R), CreateConflict(id, P, R)
  PROVE  DAGCore' /\ (RejectionInherited => RejectionInherited')
<1> USE DEF DAGCore, CreateConflict, CreateContract
<1>0. NewState(id, P, R) \in {Rejected, Pending}
  BY DEF NewState
<1>1. /\ confirmationState'[id] = NewState(id, P, R)
      /\ \A c \in ConflictID \ {id} : confirmationState'[c] = confirmationState[c]
      /\ parents'[id] = P /\ conflictSetIDs'[id] = R
      /\ \A c \in ConflictID \ {id} : /\ parents'[c] = parents[c]
                                     /\ conflictSetIDs'[c] = conflictSetIDs[c]
  BY DEF TypeOK
<1>2. TypeOK'
  BY <1>0, <1>1 DEF TypeOK, AddedMembers, Stored, State, Undefined, Rejected, Pending, Confirmed
<1>3. ReferencesConsistent'
  BY <1>0, <1>1 DEF ReferencesConsistent, AddedMembers, Stored, TypeOK,
                    Undefined, Rejected, Pending
<1>4. NoConflictingAccepted'
  <2>1. ~IsAccepted(confirmationState'[id])
    BY <1>0, <1>1 DEF IsAccepted, Rejected, Pending, Accepted
  <2> QED
    BY <2>1, <1>1 DEF NoConflictingAccepted
<1>5. RejectionInherited => RejectionInherited'
  <2>1. \A c \in ConflictID \ {id} : id \notin parents[c]
    BY DEF Stored
  <2>2. (\E p \in P : confirmationState[p] = Rejected) => NewState(id, P, R) = Rejected
    BY DEF NewState, anyParentRejected
  <2> QED
    BY <1>1, <2>1, <2>2 DEF RejectionInherited
<1>6. (\A c \in ConflictID : confirmationState[c] # Confirmed)'
  BY <1>0, <1>1 DEF Rejected, Pending, Confirmed
<1>7. (\A c \in ConflictID : parents[c] \subseteq Stored)'
  BY <1>0, <1>1 DEF Stored, Undefined, Rejected, Pending
<1> QED
  BY <1>2, <1>3, <1>4, <1>5, <1>6, <1>7

LEMMA CreateConflictPreserves ==
  ASSUME DAGInv, NEW id \in ConflictID, NEW P \in SUBSET ConflictID,
         NEW R \in SUBSET ResourceID, CreateContract(id, P, R), CreateConflict(id, P, R)
  PROVE  DAGInv'
  BY CoreAndInheritance, CreateConflictCore

LEMMA UpdateConflictParentsCore ==
  ASSUME DAGCore, NEW id \in ConflictID, NEW removed \in SUBSET ConflictID,
         NEW added \in ConflictID, ReparentContract(id, removed, added),
         UpdateConflictParents(id, removed, added)
  PROVE  DAGCore' /\ (RejectionInherited /\ InTime(id, added) => RejectionInherited')
<1> USE DEF DAGCore, UpdateConflictParents
<1>1. /\ parents'[id] = (parents[id] \cup {added}) \ removed
      /\ \A c \in ConflictID \ {id} : parents'[c] = parents[c]
  BY DEF TypeOK
<1>2. TypeOK'
  BY <1>1 DEF TypeOK, Event, EventType, NewEvent, Stored
<1>3. ReferencesConsistent'
  <2>1. childConflicts' = {e \in ConflictID \X ConflictID : e[1] \in parents'[e[2]]}
    BY <1>1 DEF ReferencesConsistent, ReparentContract, TypeOK
  <2> QED
    BY <1>1, <2>1 DEF ReferencesConsistent, Stored
<1>4. RejectionInherited /\ InTime(id, added) => RejectionInherited'
  BY <1>1 DEF RejectionInherited, InTime
<1>5. NoConflictingAccepted'
  BY DEF NoConflictingAccepted
<1>6. (\A c \in ConflictID : parents[c] \subseteq Stored)'
  BY <1>1 DEF Stored, ReparentContract
<1> QED
  BY <1>2, <1>3, <1>4, <1>5, <1>6

LEMMA UpdateConflictParentsPreserves ==
  ASSUME DAGInv, NEW id \in ConflictID, NEW removed \in SUBSET ConflictID,
         NEW added \in ConflictID, ReparentContract(id, removed, added), InTime(id, added),
         UpdateConflictParents(id, removed, added)
  PROVE  DAGInv'
  BY CoreAndInheritance, UpdateConflictParentsCore

LEMMA UpdateConflictingResourcesCore ==
  ASSUME DAGCore, NEW id \in ConflictID, NEW R \in SUBSET ResourceID, NEW last \in R,
         JoinContract(id, R), UpdateConflictingResources(id, R, last)
  PROVE  DAGCore' /\ (RejectionInherited => RejectionInherited')
<1> USE DEF DAGCore, UpdateConflictingResources
<1>1. /\ conflictSetIDs'[id] = conflictSetIDs[id] \cup R
      /\ \A c \in ConflictID \ {id} : conflictSetIDs'[c] = conflictSetIDs[c]
  BY DEF TypeOK
<1>2. TypeOK'
  BY <1>1 DEF TypeOK, Event, EventType, NewEvent, Stored, AddedMembers
<1>3. ReferencesConsistent'
  <2>1. conflictMembers' = {e \in ResourceID \X ConflictID : e[1] \in conflictSetIDs'[e[2]]}
    BY <1>1 DEF ReferencesConsistent, AddedMembers, TypeOK
  <2> QED
    BY <1>1, <2>1 DEF ReferencesConsistent, Stored
<1>4. NoConflictingAccepted'
  <2>1. ASSUME NEW c \in ConflictID \ {id}, NEW r \in R, r \in conflictSetIDs[c],
               IsAccepted(confirmationState[id]), IsAccepted(confirmationState[c])
        PROVE  FALSE
    <3>1. <<r, c>> \in conflictMembers
      BY <2>1 DEF ReferencesConsistent
    <3> QED
      BY <3>1, <2>1 DEF JoinContract, anyConflictingConflictAccepted, MembersBeside
  <2> QED
    BY <1>1, <2>1 DEF NoConflictingAccepted
<1>5. RejectionInherited => RejectionInherited'
  BY DEF RejectionInherited
<1>6. (\A c \in ConflictID : parents[c] \subseteq Stored)'
  BY DEF Stored
<1> QED
  BY <1>2, <1>3, <1>4, <1>5, <1>6

LEMMA UpdateConflictingResourcesPreserves ==
  ASSUME DAGInv, NEW id \in ConflictID, NEW R \in SUBSET ResourceID, NEW last \in R,
         JoinContract(id, R), UpdateConflictingResources(id, R, last)
  PROVE  DAGInv'
  BY CoreAndInheritance, UpdateConflictingResourcesCore

LEMMA TriggerCore ==
  ASSUME DAGCore, NEW id \in ConflictID, TriggerConflictCreated(id)
  PROVE  DAGCore' /\ (RejectionInherited => RejectionInherited')
  BY DEF DAGCore, TriggerConflictCreated, TypeOK, ReferencesConsistent, NoConflictingAccepted,
         RejectionInherited, Stored, Event, EventType, NewEvent

LEMMA TriggerPreserves ==
  ASSUME DAGInv, NEW id \in ConflictID, TriggerConflictCreated(id)
  PROVE  DAGInv'
  BY CoreAndInheritance, TriggerCore

(***************************************************************************)
(* Accepting a conflict.  A competitor of a newly accepted conflict ends   *)
(* Rejected, so exclusion follows from the state before the step for the   *)
(* pairs the step does not accept.  A child of a rejected conflict cannot  *)
(* be accepted without its parent, so inheritance survives although        *)
(* Rejected conflicts may be accepted and the second walk stops early.     *)
(***************************************************************************)
LEMMA SetConflictAcceptedCore ==
  ASSUME DAGCore, NEW id \in ConflictID, SetConflictAccepted(id)
  PROVE  DAGCore' /\ (RejectionInherited => RejectionInherited')
<1> DEFINE A == NewlyAccepted(id)
           R == NewlyRejected(A)
<1> USE DEF DAGCore
<1>1. /\ A \subseteq {c \in Stored : confirmationState[c] # Accepted}
      /\ \A c \in A : \A p \in parents[c] : p \in A \/ confirmationState[p] = Accepted
  BY AcceptedUpwards DEF Stored
<1>2. /\ R \subseteq Stored
      /\ \A a \in A : \A c \in ConflictingConflicts(a) :
            c \in Stored => c \in R \/ (confirmationState[c] = Rejected /\ c \notin A)
      /\ \A c \in R, d \in Stored : <<c, d>> \in childConflicts =>
            d \in R \/ (confirmationState[d] = Rejected /\ d \notin A)
  BY <1>1, RejectedDownwards
<1>3. confirmationState' = [c \in ConflictID |->
            IF c \in R THEN Rejected ELSE IF c \in A THEN Accepted ELSE confirmationState[c]]
  BY DEF SetConflictAccepted
<1>4. UNCHANGED <<parents, conflictSetIDs, childConflicts, conflictMembers, unannounced>>
  BY DEF SetConflictAccepted
<1>5. triggered' = {NewEvent("Accepted", c, id) : c \in A} \cup {NewEvent("Rejected", c, c) : c \in R}
  BY DEF SetConflictAccepted, AcceptedEventID
<1> HIDE DEF A, R
<1>6. \A c \in ConflictID :
        /\ c \in R => confirmationState'[c] = Rejected
        /\ c \in A \ R => confirmationState'[c] = Accepted
        /\ c \notin A \cup R => confirmationState'[c] = confirmationState[c]
  BY <1>3
<1>7. Stored' = Stored
  BY <1>1, <1>2, <1>6 DEF Stored, Undefined, Rejected, Accepted
<1>8. TypeOK'
  <2>1. triggered' \subseteq Event
    BY <1>1, <1>2, <1>5 DEF Event, EventType, NewEvent, Stored
  <2>2. confirmationState' \in [ConflictID -> State]
    BY <1>3 DEF TypeOK, State, Undefined, Rejected, Accepted, Confirmed
  <2> QED
    BY <2>1, <2>2, <1>4, <1>7 DEF TypeOK
<1>9. ReferencesConsistent'
  BY <1>4, <1>7 DEF ReferencesConsistent
<1>10. NoConflictingAccepted'
  <2> SUFFICES ASSUME NEW c \in ConflictID, NEW d \in ConflictID,
                      NEW r \in ResourceID, r \in conflictSetIDs[c] \cap conflictSetIDs[d],
                      IsAccepted(confirmationState'[c]), IsAccepted(confirmationState'[d]),
                      c # d
               PROVE  FALSE
    BY <1>4 DEF NoConflictingAccepted, TypeOK
  <2>1. c \notin R /\ d \notin R
    BY <1>6 DEF IsAccepted, Rejected, Accepted
  <2>2. c \in Stored /\ d \in Stored
    BY DEF ReferencesConsistent
  <2>3. c \in ConflictingConflicts(d) /\ d \in ConflictingConflicts(c)
    BY DEF ConflictingConflicts, MembersBeside, ReferencesConsistent
  <2>4. c \notin A /\ d \notin A
    <3>1. ASSUME NEW x \in A, NEW y \in ConflictingConflicts(x), y \in Stored, y \notin R
          PROVE  ~IsAccepted(confirmationState'[y])
      <4>1. confirmationState[y] = Rejected /\ y \notin A /\ y \in ConflictID
        BY <3>1, <1>2 DEF ConflictingConflicts, MembersBeside
      <4> QED
        BY <4>1, <3>1, <1>6 DEF IsAccepted, Rejected, Accepted
    <3> QED
      BY <3>1, <2>1, <2>2, <2>3
  <2> QED
    BY <2>1, <2>4, <1>6 DEF NoConflictingAccepted
<1>11. RejectionInherited => RejectionInherited'
  <2> SUFFICES ASSUME RejectionInherited, NEW c \in ConflictID, NEW p \in parents[c],
                      confirmationState'[p] = Rejected
               PROVE  confirmationState'[c] = Rejected
    BY <1>4 DEF RejectionInherited
  <2>1. p \in ConflictID /\ p \in Stored /\ c \in Stored
    BY DEF TypeOK, ReferencesConsistent, Stored
  <2>2. <<p, c>> \in childConflicts
    BY <2>1 DEF ReferencesConsistent
  <2>3. CASE p \in R
    BY <2>1, <2>2, <2>3, <1>2, <1>6
  <2>4. CASE p \notin R
    <3>1. p \notin A /\ confirmationState[p] = Rejected
      BY <2>1, <2>4, <1>6 DEF Rejected, Accepted
    <3>2. c \notin A
      BY <3>1, <1>1 DEF Rejected, Accepted
    <3> QED
      BY <3>1, <3>2, <1>6 DEF RejectionInherited
  <2> QED
    BY <2>3, <2>4
<1>12. (\A c \in ConflictID : confirmationState[c] # Confirmed)'
  BY <1>6 DEF Rejected, Accepted, Confirmed
<1>13. (\A c \in ConflictID : parents[c] \subseteq Stored)'
  BY <1>4, <1>7
<1> QED
  BY <1>8, <1>9, <1>10, <1>11, <1>12, <1>13

LEMMA SetConflictAcceptedPreserves ==
  ASSUME DAGInv, NEW id \in ConflictID, SetConflictAccepted(id)
  PROVE  DAGInv'
  BY CoreAndInheritance, SetConflictAcceptedCore

(***************************************************************************)
(* The indexes agree with the conflicts, competitors are never both        *)
(* accepted and rejection reaches every descendant, in every reachable     *)
(* state of the conflict DAG.                                              *)
(***************************************************************************)
THEOREM DAGInvariant == SpecDAG => []DAGInv
<1>1. InitDAG => DAGInv
  BY InitEstablishes
<1>2. DAGInv /\ [NextDAG]_dagVars => DAGInv'
  <2> SUFFICES ASSUME DAGInv, [NextDAG]_dagVars
               PROVE  DAGInv'
    OBVIOUS
  <2>1. CASE UNCHANGED dagVars
    BY <2>1 DEF dagVars, DAGInv, TypeOK, ReferencesConsistent, NoConflictingAccepted,
                RejectionInherited, Stored
  <2>2. CASE NextDAG
    <3>1. /\ \A id \in ConflictID : SUBSET parents[id] \subseteq SUBSET ConflictID
          /\ SUBSET Stored \subseteq SUBSET ConflictID
      BY DEF DAGInv, TypeOK, Stored
    <3> QED
      BY <2>2, <3>1, CreateConflictPreserves, TriggerPreserves, UpdateConflictParentsPreserves,
         UpdateConflictingResourcesPreserves, SetConflictAcceptedPreserves DEF NextDAG
  <2> QED
    BY <2>1, <2>2
<1> QED
  BY <1>1, <1>2, PTL DEF SpecDAG

(* Type correctness of the conflict DAG. *)
THEOREM TypeCorrect == SpecDAG => []TypeOK
  BY DAGInvariant, PTL DEF DAGInv

(***************************************************************************)
(* The ChildConflict and ConflictMember references always mirror the       *)
(* parents and the conflict sets of the stored conflicts.                  *)
(***************************************************************************)
THEOREM ReferencesAlwaysConsistent == SpecDAG => []ReferencesConsistent
  BY DAGInvariant, PTL DEF DAGInv

(* At most one of the conflicts over a resource is accepted. *)
THEOREM ExclusiveAcceptance == SpecDAG => []NoConflictingAccepted
  BY DAGInvariant, PTL DEF DAGInv

(* Whatever depends on a rejected conflict is rejected. *)
THEOREM RejectionReachesDescendants == SpecDAG => []RejectionInherited
  BY DAGInvariant, PTL DEF DAGInv

(***************************************************************************)
(* A step that accepts a conflict leaves its parents accepted: a parent    *)
(* that the second walk rejects takes the conflict with it.                *)
(***************************************************************************)
THEOREM ParentsAcceptedToo == SpecDAG => AcceptedWithParents
<1> DEFINE Goal == \A c \in ConflictID :
        ~IsAccepted(confirmationState[c]) /\ IsAccepted(confirmationState'[c])
            => \A p \in parents[c] : IsAccepted(confirmationState'[p])
<1>1. DAGInv /\ [NextDAG]_dagVars => [Goal]_dagVars
  <2> SUFFICES ASSUME DAGInv, NextDAG, NEW c \in ConflictID, NEW p \in parents[c],
                      ~IsAccepted(confirmationState[c]), IsAccepted(confirmationState'[c])
               PROVE  IsAccepted(confirmationState'[p])
    OBVIOUS
  <2> USE DEF DAGInv
  <2>1. ASSUME NEW x \in ConflictID, NEW P, NEW R, CreateConflict(x, P, R)
        PROVE  FALSE
    <3>1. confirmationState'[c] \in {confirmationState[c], Rejected, Pending}
      BY <2>1 DEF CreateConflict, NewState, TypeOK
    <3> QED
      BY <3>1 DEF IsAccepted, Rejected, Pending, Accepted
  <2>2. CASE confirmationState' = confirmationState
    BY <2>2
  <2>3. ASSUME NEW id \in ConflictID, SetConflictAccepted(id)
        PROVE  IsAccepted(confirmationState'[p])
    <3> DEFINE A == NewlyAccepted(id)
               R == NewlyRejected(A)
    <3>1. /\ A \subseteq {x \in Stored : confirmationState[x] # Accepted}
          /\ \A x \in A : \A q \in parents[x] : q \in A \/ confirmationState[q] = Accepted
      BY AcceptedUpwards DEF Stored
    <3>2. /\ R \subseteq Stored
          /\ \A x \in R, d \in Stored : <<x, d>> \in childConflicts =>
                d \in R \/ (confirmationState[d] = Rejected /\ d \notin A)
      BY <3>1, RejectedDownwards
    <3>3. \A x \in ConflictID :
            /\ x \in R => confirmationState'[x] = Rejected
            /\ x \in A \ R => confirmationState'[x] = Accepted
            /\ x \notin A \cup R => confirmationState'[x] = confirmationState[x]
      BY <2>3 DEF SetConflictAccepted
    <3> HIDE DEF A, R
    <3>4. c \in A /\ c \notin R
      BY <3>3 DEF IsAccepted, Rejected, Accepted
    <3>5. p \in A \/ confirmationState[p] = Accepted
      BY <3>4, <3>1
    <3>6. p \in ConflictID /\ c \in Stored
      BY <3>4, <3>1 DEF TypeOK
    <3>7. <<p, c>> \in childConflicts
      BY <3>6 DEF ReferencesConsistent
    <3>8. p \notin R
      BY <3>4, <3>6, <3>7, <3>2
    <3> QED
      BY <3>3, <3>5, <3>6, <3>8 DEF IsAccepted, Accepted
  <2> QED
    BY <2>1, <2>2, <2>3 DEF NextDAG, TriggerConflictCreated, UpdateConflictParents,
                            UpdateConflictingResources
<1> QED
  BY <1>1, DAGInvariant, PTL DEF SpecDAG, AcceptedWithParents

(* Walking up from a conflict includes walking up from its parents. *)
LEMMA WalkUp ==
  ASSUME NEW c \in ConflictID, NEW p \in ConflictID, p \in parents[c]
  PROVE  Walk({p}, ParentEdges) \subseteq Walk({c}, ParentEdges)
<1> DEFINE W == Walk({c}, ParentEdges)
<1>1. c \in W /\ W \subseteq ConflictID
  BY WalkStart
<1>2. \A e \in ParentEdges : e[1] \in W => e[2] \in W
  BY WalkPush DEF ParentEdges
<1>3. p \in W
  <2>1. <<c, p>> \in ParentEdges
    BY DEF ParentEdges
  <2> QED
    BY <1>1, <2>1, WalkPush
<1> HIDE DEF W
<1>4. {p} \subseteq W /\ W \in SUBSET ConflictID
  BY <1>1, <1>3
<1>5. Walk({p}, ParentEdges) \subseteq W
  BY <1>2, <1>4, WalkLeast
<1> QED
  BY <1>5 DEF W

(***************************************************************************)
(* Whatever the second walk rejects has an ancestor, or is itself, in      *)
(* conflict with one of the newly accepted conflicts.                      *)
(***************************************************************************)
LEMMA RejectedByWinner ==
  ASSUME DAGInv, NEW A \in SUBSET Stored, NEW c \in NewlyRejected(A)
  PROVE  \E x \in Walk({c}, ParentEdges) : \E w \in ConflictingConflicts(x) : w \in A
<1> DEFINE Lost(d) == \E x \in Walk({d}, ParentEdges) : \E w \in ConflictingConflicts(x) : w \in A
           T == {d \in ConflictID : Lost(d)}
           StopsAt(x) == x \notin Stored \/ (confirmationState[x] = Rejected /\ x \notin A)
           edges == {e \in ChildEdges : ~StopsAt(e[1])}
           start == UNION {ConflictingConflicts(a) : a \in A}
<1> USE DEF DAGInv
<1>1. start \subseteq T
  <2> SUFFICES ASSUME NEW a \in A, NEW d \in ConflictingConflicts(a)
               PROVE  d \in T
    OBVIOUS
  <2>1. d \in ConflictID /\ a \in ConflictID
    BY DEF ConflictingConflicts, MembersBeside, Stored
  <2>2. a \in ConflictingConflicts(d)
    BY <2>1 DEF ConflictingConflicts, MembersBeside, ReferencesConsistent
  <2>3. d \in Walk({d}, ParentEdges)
    BY <2>1, WalkStart
  <2> QED
    BY <2>1, <2>2, <2>3
<1>2. ASSUME NEW e \in edges, e[1] \in T
      PROVE  e[2] \in T
  <2>1. e \in childConflicts /\ e[1] \in ConflictID /\ e[2] \in ConflictID /\ e[1] \in parents[e[2]]
    BY <1>2 DEF ChildEdges, ReferencesConsistent
  <2>2. Walk({e[1]}, ParentEdges) \subseteq Walk({e[2]}, ParentEdges)
    BY <2>1, WalkUp
  <2> QED
    BY <1>2, <2>1, <2>2
<1>3. c \in Walk(start, edges)
  BY DEF NewlyRejected
<1> HIDE DEF edges, start
<1>4. Walk(start, edges) \subseteq T
  <2> HIDE DEF T
  <2>1. T \in SUBSET ConflictID
    BY DEF T
  <2> QED
    BY <2>1, <1>1, <1>2, WalkLeast
<1> QED
  BY <1>3, <1>4

(***************************************************************************)
(* A conflict is rejected only by the acceptance of a competitor of its    *)
(* own or of an ancestor.                                                  *)
(***************************************************************************)
THEOREM RejectionHasWinner == SpecDAG => LosesOnlyToWinner
<1> DEFINE Goal == \A c \in Stored :
        confirmationState[c] # Rejected /\ confirmationState'[c] = Rejected
            => \E x \in Walk({c}, ParentEdges) : \E w \in ConflictingConflicts(x) :
                    \E e \in triggered' : e.type = "Accepted" /\ e.at = w
<1>1. DAGInv /\ [NextDAG]_dagVars => [Goal]_dagVars
  <2> SUFFICES ASSUME DAGInv, NextDAG, NEW c \in Stored,
                      confirmationState[c] # Rejected, confirmationState'[c] = Rejected
               PROVE  \E x \in Walk({c}, ParentEdges) : \E w \in ConflictingConflicts(x) :
                        \E e \in triggered' : e.type = "Accepted" /\ e.at = w
    OBVIOUS
  <2> USE DEF DAGInv
  <2>1. ASSUME NEW id \in ConflictID, NEW P, NEW R, CreateConflict(id, P, R)
        PROVE  FALSE
    BY <2>1 DEF CreateConflict, TypeOK, Stored
  <2>2. CASE confirmationState' = confirmationState
    BY <2>2
  <2>3. ASSUME NEW id \in ConflictID, SetConflictAccepted(id)
        PROVE  \E x \in Walk({c}, ParentEdges) : \E w \in ConflictingConflicts(x) :
                    \E e \in triggered' : e.type = "Accepted" /\ e.at = w
    <3> DEFINE A == NewlyAccepted(id)
    <3>1. A \in SUBSET Stored
      BY AcceptedUpwards
    <3>2. c \in NewlyRejected(A)
      BY <2>3 DEF SetConflictAccepted, Stored, Rejected, Accepted
    <3>3. \A w \in A : NewEvent("Accepted", w, id) \in triggered'
      BY <2>3 DEF SetConflictAccepted, AcceptedEventID
    <3> HIDE DEF A
    <3>4. PICK x \in Walk({c}, ParentEdges) : \E w \in ConflictingConflicts(x) : w \in A
      BY <3>1, <3>2, RejectedByWinner
    <3> QED
      BY <3>3, <3>4 DEF NewEvent
  <2> QED
    BY <2>1, <2>2, <2>3 DEF NextDAG, TriggerConflictCreated, UpdateConflictParents,
                            UpdateConflictingResources
<1> QED
  BY <1>1, DAGInvariant, PTL DEF SpecDAG, LosesOnlyToWinner

=============================================================================
