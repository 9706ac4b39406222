---------------------------- MODULE LedgerProofs ----------------------------
(***************************************************************************)
(* Proofs about the ledger, for all transactions and outputs and however   *)
(* the threads that book them interleave: every double spend is a pair of  *)
(* conflicts, no transaction with causally related inputs is booked,       *)
(* nothing that is booked is ever pruned, the calls of the ledger are      *)
(* legal operations of the conflict DAG, acceptance is final, and every    *)
(* transaction inherits the conflicts that it depends on and no others,    *)
(* through the forks that spread while it was booked.  That everything     *)
(* solid is booked is liveness and is model-checked.                       *)
(***************************************************************************)
EXTENDS Ledger, ConflictDAGProofs, TLAPS

-----------------------------------------------------------------------------
(* The inductive invariant, part by part. *)

(* The checks have been passed: the transaction will be booked. *)
Checked(t) == thread[t].pc \in {"register", "fork", "update", "walk"}

(* What the consumers of an output are known by.  A transaction is booked once. *)
ConsumersKnown ==
    /\ \A t \in stored : Inputs[t] \X {t} \subseteq consumers
    /\ \A o \in OutputID : firstConsumer[o] # None => o \in Inputs[firstConsumer[o]]
    /\ \A t \in TransactionID : thread[t].pc # "idle" => t \in submitted \ booked
    /\ \A c \in ConflictID : c \notin Stored => conflictSetIDs[c] = {}

(* An input of a booked transaction is its own, or contested by it and by the first consumer. *)
OwnOrContested(t) ==
    \A o \in Inputs[t] :
        /\ firstConsumer[o] # None
        /\ firstConsumer[o] = t \/ o \in conflictSetIDs[t] \cap conflictSetIDs[firstConsumer[o]]

(* The same for what a thread has registered: contested inputs are known to the thread, then to  *)
(* its conflict, and then, one after the other, to the conflicts of the first consumers.         *)
RegisteredInputs(t) ==
    LET th == thread[t] IN
    /\ th.register \subseteq Inputs[t]
    /\ \A o \in Inputs[t] \ th.register : firstConsumer[o] = t \/ o \in th.conflicting
    /\ \A o \in th.conflicting :
            /\ o \in Inputs[t] /\ firstConsumer[o] # None
            /\ firstConsumer[o] \in th.fork \/ o \in conflictSetIDs[firstConsumer[o]]
    /\ th.pc \in {"fork", "update", "walk"} => th.register = {} /\ th.conflicting \subseteq conflictSetIDs[t]
    /\ th.pc \in {"update", "walk"} =>
            th.forked \in TransactionID /\ Inputs[th.forked] \cap th.conflicting \subseteq conflictSetIDs[th.forked]

DoubleSpendsKnown ==
    /\ \A t \in booked : OwnOrContested(t)
    /\ \A t \in TransactionID : Checked(t) => RegisteredInputs(t)
    /\ \A t \in TransactionID : thread[t].pc = "check" => thread[t].conflicting = {}

(* Pruned transactions and those to be pruned fail the checks, whenever they are made again. *)
Doomed(t) == t \in Invalid \/ OutputsCausallyRelated(t)

PrunedDoomed ==
    \A t \in TransactionID : t \in submitted \ stored \/ <<"Invalid", t>> \in tasks =>
        t \in submitted \ booked /\ ~Checked(t) /\ Doomed(t)

(* The edges from a booked transaction to the booked consumers of its outputs. *)
BookedEdges == {e \in booked \X booked : \E i \in Inputs[e[2]] : Creator[i] = e[1]}

(* No input of t was created in the future cone of another one. *)
NotRelated(t) ==
    \A o, p \in Inputs[t] : Creator[o] \notin Walk({d \in booked \ {t} : p \in Inputs[d]}, BookedEdges)

InputsUnrelated == \A t \in TransactionID : t \in booked \/ Checked(t) => IsSolid(t) /\ NotRelated(t)

LedgerInv ==
    /\ LedgerTypeOK
    /\ ConsumersKnown
    /\ DoubleSpendsKnown
    /\ PrunedDoomed
    /\ InputsUnrelated

-----------------------------------------------------------------------------
(* Types. *)

(* The fields of a thread. *)
LEMMA ThreadFields ==
    ASSUME LedgerTypeOK, NEW t \in TransactionID
    PROVE  /\ thread[t] \in Thread
           /\ thread[t].pc \in {"idle", "check", "register", "fork", "update", "walk"}
           /\ thread[t].own \in BOOLEAN
           /\ thread[t].inherited \in SUBSET TransactionID /\ thread[t].register \in SUBSET OutputID
           /\ thread[t].conflicting \in SUBSET OutputID /\ thread[t].fork \in SUBSET TransactionID
           /\ thread[t].forked \in TransactionID \cup {None} /\ thread[t].previous \in SUBSET TransactionID
           /\ thread[t].outputs \in SUBSET OutputID /\ thread[t].visit \in SUBSET TransactionID
           /\ thread[t].seen \in SUBSET TransactionID
<1>1. thread[t] \in Thread
    BY DEF LedgerTypeOK
<1> QED
    BY <1>1 DEF Thread

(* A thread that has not begun. *)
LEMMA IdleTyped == Idle \in Thread /\ Idle.pc = "idle"
    BY DEF Idle, Thread

LEMMA InputsTyped ==
    ASSUME NEW t \in TransactionID
    PROVE  /\ Inputs[t] \in SUBSET OutputID /\ None \notin TransactionID /\ Genesis \notin TransactionID
           /\ \A o \in Inputs[t] : Creator[o] \in TransactionID \cup {Genesis}
    BY LedgerAssumption DEF TransactionID, OutputID

(* The conflict DAG keeps its types, whatever arguments of the right types it is called with. *)
LEMMA CreateConflictTyped ==
    ASSUME TypeOK, NEW id \in ConflictID, NEW P \in SUBSET ConflictID, NEW R \in SUBSET ResourceID,
           CreateConflict(id, P, R)
    PROVE  /\ TypeOK' /\ Stored' = Stored \cup {id} /\ id \notin Stored
           /\ conflictSetIDs' = [conflictSetIDs EXCEPT ![id] = R]
<1>1. NewState(id, P, R) \in {Rejected, Pending}
    BY DEF NewState
<1>2. confirmationState' = [confirmationState EXCEPT ![id] = NewState(id, P, R)]
    BY DEF CreateConflict
<1>3. Stored' = Stored \cup {id}
    BY <1>1, <1>2 DEF TypeOK, Stored, Undefined, Rejected, Pending
<1>4. confirmationState' \in [ConflictID -> State]
    BY <1>1, <1>2 DEF TypeOK, State, Undefined, Rejected, Pending, Confirmed
<1> QED
    BY <1>3, <1>4 DEF CreateConflict, TypeOK, AddedMembers

LEMMA UpdateConflictParentsTyped ==
    ASSUME TypeOK, NEW id \in ConflictID, NEW removed \in SUBSET ConflictID, NEW added \in ConflictID,
           UpdateConflictParents(id, removed, added)
    PROVE  TypeOK' /\ Stored' = Stored /\ conflictSetIDs' = conflictSetIDs
<1>1. Stored' = Stored
    BY DEF UpdateConflictParents, Stored
<1> QED
    BY <1>1 DEF UpdateConflictParents, TypeOK, NewEvent, Event, EventType

LEMMA UpdateConflictingResourcesTyped ==
    ASSUME TypeOK, NEW id \in ConflictID, NEW R \in SUBSET ResourceID, NEW last \in R,
           UpdateConflictingResources(id, R, last)
    PROVE  /\ TypeOK' /\ Stored' = Stored /\ id \in Stored
           /\ conflictSetIDs' = [conflictSetIDs EXCEPT ![id] = @ \cup R]
<1>1. Stored' = Stored
    BY DEF UpdateConflictingResources, Stored
<1> QED
    BY <1>1 DEF UpdateConflictingResources, TypeOK, NewEvent, Event, EventType, AddedMembers

LEMMA TriggerTyped ==
    ASSUME TypeOK, NEW id \in ConflictID, TriggerConflictCreated(id)
    PROVE  TypeOK' /\ Stored' = Stored /\ conflictSetIDs' = conflictSetIDs
<1>1. Stored' = Stored
    BY DEF TriggerConflictCreated, Stored
<1> QED
    BY <1>1 DEF TriggerConflictCreated, TypeOK, NewEvent, Event, EventType

LEMMA SetConflictAcceptedTyped ==
    ASSUME TypeOK, NEW id \in ConflictID, SetConflictAccepted(id)
    PROVE  /\ TypeOK' /\ Stored' = Stored /\ conflictSetIDs' = conflictSetIDs
           /\ {<<e.type, e.ID>> : e \in triggered'} \subseteq {"Accepted", "Rejected"} \X ConflictID
<1> DEFINE A == NewlyAccepted(id)
           R == NewlyRejected(A)
<1>1. A \in SUBSET Stored
    BY AcceptedUpwards
<1>2. R \in SUBSET Stored
    BY <1>1, RejectedDownwards
<1>3. /\ confirmationState' = [c \in ConflictID |->
            IF c \in R THEN Rejected ELSE IF c \in A THEN Accepted ELSE confirmationState[c]]
      /\ triggered' = {NewEvent("Accepted", c, AcceptedEventID(id, c)) : c \in A}
                        \cup {NewEvent("Rejected", c, c) : c \in R}
      /\ UNCHANGED <<parents, conflictSetIDs, childConflicts, conflictMembers, unannounced>>
    BY DEF SetConflictAccepted
<1> HIDE DEF A, R
<1>4. confirmationState' \in [ConflictID -> State]
    BY <1>3 DEF TypeOK, State, Undefined, Rejected, Accepted, Confirmed
<1>5. Stored' = Stored
    BY <1>1, <1>2, <1>3 DEF TypeOK, Stored, Undefined, Rejected, Accepted
<1>6. \A e \in triggered' : e \in Event /\ e.type \in {"Accepted", "Rejected"} /\ e.ID \in ConflictID
    BY <1>1, <1>2, <1>3 DEF NewEvent, Event, EventType, AcceptedEventID, Stored
<1> QED
    BY <1>3, <1>4, <1>5, <1>6 DEF TypeOK

-----------------------------------------------------------------------------
(* What is known stays known. *)

(* Conflicts keep their resources and outputs their first consumers. *)
Grows ==
    /\ \A c \in TransactionID : conflictSetIDs[c] \subseteq conflictSetIDs'[c]
    /\ \A o \in OutputID : firstConsumer[o] # None => firstConsumer'[o] = firstConsumer[o]

LEMMA ContestedStays ==
    ASSUME LedgerTypeOK, Grows, NEW t \in TransactionID, OwnOrContested(t)
    PROVE  OwnOrContested(t)'
<1>1. ASSUME NEW o \in Inputs[t]
      PROVE  /\ firstConsumer'[o] # None
             /\ firstConsumer'[o] = t \/ o \in conflictSetIDs'[t] \cap conflictSetIDs'[firstConsumer'[o]]
    <2>1. o \in OutputID /\ firstConsumer[o] # None /\ firstConsumer'[o] = firstConsumer[o]
        BY InputsTyped DEF OwnOrContested, Grows
    <2>2. firstConsumer[o] \in TransactionID
        BY <2>1 DEF LedgerTypeOK
    <2> QED
        BY <2>1, <2>2 DEF OwnOrContested, Grows
<1> QED
    BY <1>1 DEF OwnOrContested

(* t goes on with the same inputs registered and the same consumers to fork. *)
SameInputs(t) ==
    /\ thread'[t].register = thread[t].register /\ thread'[t].conflicting = thread[t].conflicting
    /\ thread'[t].fork = thread[t].fork
    /\ thread'[t].pc \in {"fork", "update", "walk"} => thread[t].pc \in {"fork", "update", "walk"}
    /\ thread'[t].pc \in {"update", "walk"} =>
            thread[t].pc \in {"update", "walk"} /\ thread'[t].forked = thread[t].forked

LEMMA RegisteredStays ==
    ASSUME LedgerTypeOK, Grows, NEW t \in TransactionID, SameInputs(t), RegisteredInputs(t)
    PROVE  RegisteredInputs(t)'
<1> DEFINE th == thread[t]
<1> USE DEF SameInputs
<1>0. th.register \in SUBSET OutputID /\ th.conflicting \in SUBSET OutputID /\ t \in TransactionID
    BY ThreadFields
<1>1. /\ th.register \subseteq Inputs[t]
      /\ \A o \in Inputs[t] \ th.register : firstConsumer'[o] = t \/ o \in th.conflicting
    BY InputsTyped DEF RegisteredInputs, Grows
<1>2. ASSUME NEW o \in th.conflicting
      PROVE  /\ o \in Inputs[t] /\ firstConsumer'[o] # None
             /\ firstConsumer'[o] \in th.fork \/ o \in conflictSetIDs'[firstConsumer'[o]]
    <2>1. o \in OutputID /\ firstConsumer[o] # None /\ firstConsumer'[o] = firstConsumer[o]
        BY <1>0 DEF RegisteredInputs, Grows
    <2>2. firstConsumer[o] \in TransactionID
        BY <2>1 DEF LedgerTypeOK
    <2> QED
        BY <2>1, <2>2 DEF RegisteredInputs, Grows
<1>3. th.pc \in {"fork", "update", "walk"} => th.register = {} /\ th.conflicting \subseteq conflictSetIDs'[t]
    BY DEF RegisteredInputs, Grows
<1>4. th.pc \in {"update", "walk"} =>
            th.forked \in TransactionID /\ Inputs[th.forked] \cap th.conflicting \subseteq conflictSetIDs'[th.forked]
    BY DEF RegisteredInputs, Grows
<1> QED
    BY <1>1, <1>2, <1>3, <1>4 DEF RegisteredInputs

(* What fails the checks goes on to fail them: the walk from the spent inputs goes over booked    *)
(* transactions, and these keep their outputs and their references.                               *)
LEMMA DoomedStays ==
    ASSUME NEW t \in TransactionID, Doomed(t), booked \subseteq booked',
           \A o \in OutputID : firstConsumer[o] # None => firstConsumer'[o] # None,
           \A ref \in consumers : ref[2] \in booked => ref \in consumers'
    PROVE  Doomed(t)'
<1>1. CASE t \in Invalid
    BY <1>1 DEF Doomed
<1>2. CASE OutputsCausallyRelated(t)
    <2> DEFINE spent == {o \in Inputs[t] : firstConsumer[o] # None}
               start == ConsumersOf(spent)
               cone  == Walk(start, ConsumerEdges)
               spentNow == {o \in Inputs[t] : firstConsumer'[o] # None}
               startNow == {d \in TransactionID : \E o \in spentNow : <<o, d>> \in consumers'}
               edgesNow == ConsumerEdges'
               coneNow  == Walk(startNow, edgesNow)
    <2>1. PICK x \in cone : OutputIDs(x) \cap Inputs[t] # {}
        BY <1>2 DEF OutputsCausallyRelated
    <2>2. x \in booked
        BY <2>1 DEF OutputIDs
    <2>3. spent \subseteq spentNow
        BY InputsTyped
    <2>4. startNow \in SUBSET ConflictID /\ start \in SUBSET ConflictID
        BY DEF ConsumersOf, TransactionID
    <2>5. \A c \in start : c \in booked => c \in startNow
        BY <2>3 DEF ConsumersOf
    <2>6. \A e \in ConsumerEdges : /\ e \in ConflictID \X ConflictID /\ e[1] \in booked
                                   /\ e[2] \in booked => e \in edgesNow
        BY DEF ConsumerEdges, ConsumingTransactions, ConsumersOf, OutputIDs, TransactionID
    <2> HIDE DEF start, startNow, edgesNow
    <2>7. startNow \subseteq coneNow /\ coneNow \subseteq ConflictID
        BY <2>4, WalkStart
    <2>8. \A y, z \in ConflictID : y \in coneNow /\ <<y, z>> \in edgesNow => z \in coneNow
        BY WalkPush
    <2> DEFINE T == coneNow \cup (ConflictID \ booked)
    <2>9. T \in SUBSET ConflictID /\ start \subseteq T
        BY <2>4, <2>5, <2>7
    <2>10. ASSUME NEW e \in ConsumerEdges, e[1] \in T
           PROVE  e[2] \in T
        <3>1. e[1] \in ConflictID /\ e[2] \in ConflictID /\ e = <<e[1], e[2]>> /\ e[1] \in coneNow
            BY <2>6, <2>10
        <3> QED
            BY <3>1, <2>6, <2>8
    <2>11. cone \subseteq T
        <3> HIDE DEF T
        <3> QED
            BY <2>9, <2>10, WalkLeast
    <2>12. x \in coneNow /\ OutputIDs(x)' \cap Inputs[t] # {}
        BY <2>1, <2>2, <2>11 DEF OutputIDs
    <2>13. OutputsCausallyRelated(t)'
        BY <2>12 DEF ConsumersOf, OutputsCausallyRelated, startNow, edgesNow
    <2> QED
        BY <2>13 DEF Doomed
<1> QED
    BY <1>1, <1>2 DEF Doomed

-----------------------------------------------------------------------------
(* The steps. *)

LEMMA InitEstablishesLedger == InitLedger => LedgerInv
<1> SUFFICES ASSUME InitLedger PROVE LedgerInv
    OBVIOUS
<1>0. /\ \A t \in TransactionID : thread[t] = Idle
      /\ booked = Loaded /\ stored = Loaded /\ submitted = Loaded /\ tasks = {}
      /\ Loaded \subseteq TransactionID
    BY LedgerAssumption DEF InitLedger, TransactionID
<1>1. \A t \in TransactionID : thread[t].pc = "idle" /\ ~Checked(t)
    BY <1>0, IdleTyped DEF Checked
<1>2. TypeOK /\ Stored = {} /\ \A c \in ConflictID : conflictSetIDs[c] = {}
    BY DEF InitLedger, InitDAG, TypeOK, State, Stored, Undefined, Confirmed
<1>3. ASSUME NEW t \in Loaded, NEW o \in Inputs[t]
      PROVE  firstConsumer[o] = t
    <2>1. t \in TransactionID /\ o \in OutputID
        BY <1>0, InputsTyped
    <2>2. firstConsumer[o] = CHOOSE u \in Loaded : o \in Inputs[u]
        BY <2>1 DEF InitLedger
    <2>3. \A u \in Loaded : o \in Inputs[u] => u = t
        BY LedgerAssumption
    <2> QED
        BY <2>2, <2>3
<1>4. ASSUME NEW o \in OutputID
      PROVE  /\ firstConsumer[o] \in TransactionID \cup {None}
             /\ firstConsumer[o] # None => o \in Inputs[firstConsumer[o]]
    <2>1. CASE \E t \in Loaded : o \in Inputs[t]
        BY <2>1, <1>0, <1>3
    <2>2. CASE ~\E t \in Loaded : o \in Inputs[t]
        BY <2>2 DEF InitLedger
    <2> QED
        BY <2>1, <2>2
<1>5. LedgerTypeOK
    <2>1. firstConsumer \in [OutputID -> TransactionID \cup {None}]
        BY <1>4 DEF InitLedger
    <2> QED
        BY <1>0, <1>2, <2>1, IdleTyped DEF InitLedger, LedgerTypeOK, Rejected, Pending, Accepted
<1>6. ConsumersKnown
    <2>1. \A t \in stored : Inputs[t] \X {t} \subseteq consumers
        BY <1>0, InputsTyped DEF InitLedger
    <2> QED
        BY <2>1, <1>1, <1>2, <1>4 DEF ConsumersKnown
<1>7. DoubleSpendsKnown
    BY <1>0, <1>1, <1>3, InputsTyped DEF DoubleSpendsKnown, OwnOrContested
<1>8. PrunedDoomed
    BY <1>0 DEF PrunedDoomed
<1>9. ASSUME NEW t \in booked
      PROVE  IsSolid(t) /\ NotRelated(t)
    <2>1. IsSolid(t)
        BY <1>0, LedgerAssumption DEF IsSolid
    <2>2. \A p \in Inputs[t] : {d \in booked \ {t} : p \in Inputs[d]} = {}
        BY <1>0, LedgerAssumption
    <2>3. \A e \in BookedEdges : e[1] \notin {}
        OBVIOUS
    <2>4. Walk({}, BookedEdges) = {}
        BY <2>3, WalkLeast
    <2> QED
        BY <2>1, <2>2, <2>4 DEF NotRelated
<1>10. InputsUnrelated
    BY <1>1, <1>9 DEF InputsUnrelated
<1> QED
    BY <1>5, <1>6, <1>7, <1>8, <1>10 DEF LedgerInv

(* A step of thread t that neither stores, books nor prunes cares for the inputs of t, *)
(* and announces t as invalid only if it is.                                           *)
CaresFor(t) ==
    Checked(t)' => RegisteredInputs(t)' /\ (Checked(t) \/ (IsSolid(t) /\ NotRelated(t) /\ ~Doomed(t)))

Announces(t) ==
    \A u \in TransactionID : <<"Invalid", u>> \in tasks' =>
        \/ <<"Invalid", u>> \in tasks
        \/ u = t /\ Doomed(t) /\ thread'[t].pc = "idle" /\ t \in submitted \ booked

Runs(t) ==
    /\ UNCHANGED <<submitted, stored, booked, consumers>>
    /\ \A o \in OutputID : firstConsumer'[o] # None => o \in Inputs[firstConsumer'[o]]
    /\ \A c \in ConflictID : c \notin Stored' => conflictSetIDs'[c] = {}
    /\ \A u \in TransactionID \ {t} : thread'[u] = thread[u]
    /\ thread'[t].pc # "idle" => t \in submitted \ booked
    /\ thread'[t].pc = "check" => thread'[t].conflicting = {}

LEMMA RunStep ==
    ASSUME LedgerInv, LedgerTypeOK', Grows, NEW t \in TransactionID, Runs(t), Announces(t), CaresFor(t)
    PROVE  LedgerInv'
<1> USE DEF Runs, Announces, CaresFor
<1> USE DEF LedgerInv
<1>0. /\ \A u \in TransactionID \ {t} : Checked(u)' <=> Checked(u)
      /\ Checked(t)' => thread'[t].pc # "idle"
    BY DEF Checked
<1>1. ConsumersKnown'
    BY DEF ConsumersKnown
<1>2. DoubleSpendsKnown'
    <2>1. \A u \in booked : OwnOrContested(u)'
        BY ContestedStays DEF DoubleSpendsKnown, LedgerTypeOK
    <2>2. \A u \in TransactionID \ {t} : Checked(u)' => RegisteredInputs(u)'
        BY <1>0, RegisteredStays DEF DoubleSpendsKnown, SameInputs
    <2>3. \A u \in TransactionID : thread'[u].pc = "check" => thread'[u].conflicting = {}
        BY DEF DoubleSpendsKnown
    <2> QED
        BY <2>1, <2>2, <2>3 DEF DoubleSpendsKnown
<1>3. ASSUME NEW u \in TransactionID
      PROVE  Doomed(u) => Doomed(u)'
    <2>1. \A o \in OutputID : firstConsumer[o] # None => firstConsumer'[o] # None
        BY DEF Grows
    <2> QED
        BY <2>1, DoomedStays
<1>4. PrunedDoomed'
    <2> SUFFICES ASSUME NEW u \in TransactionID, u \in submitted \ stored \/ <<"Invalid", u>> \in tasks'
                 PROVE  u \in submitted \ booked /\ ~Checked(u)' /\ Doomed(u)'
        BY DEF PrunedDoomed
    <2>1. CASE u \in submitted \ stored \/ <<"Invalid", u>> \in tasks
        BY <2>1, <1>0, <1>3 DEF PrunedDoomed
    <2>2. CASE u = t /\ Doomed(t) /\ thread'[t].pc = "idle" /\ t \in submitted \ booked
        BY <2>2, <1>0, <1>3
    <2> QED
        BY <2>1, <2>2
<1>5. InputsUnrelated'
    <2>1. \A u \in TransactionID : (IsSolid(u)' <=> IsSolid(u)) /\ (NotRelated(u)' <=> NotRelated(u))
        BY DEF IsSolid, NotRelated, BookedEdges
    <2> QED
        BY <2>1, <1>0 DEF InputsUnrelated
<1> QED
    BY <1>1, <1>2, <1>4, <1>5

(* A step of the event handlers and of consensus, which the threads do not notice. *)
LEMMA HandlerRuns ==
    ASSUME LedgerInv, NEW t \in TransactionID,
           UNCHANGED <<submitted, bookVars>>,
           TypeOK', Stored' = Stored, conflictSetIDs' = conflictSetIDs,
           included' \subseteq booked, txState' \in [TransactionID -> {Rejected, Pending, Accepted}],
           tasks' \subseteq Task,
           \A u \in TransactionID : <<"Invalid", u>> \in tasks' => <<"Invalid", u>> \in tasks
    PROVE  LedgerInv'
<1> USE DEF bookVars, LedgerInv
<1>1. LedgerTypeOK'
    BY DEF LedgerTypeOK
<1>2. Grows
    BY DEF Grows
<1>3. Checked(t)' => RegisteredInputs(t)' /\ Checked(t)
    BY <1>2, RegisteredStays DEF DoubleSpendsKnown, Checked, SameInputs
<1>4. Runs(t)
    BY DEF ConsumersKnown, DoubleSpendsKnown, Runs
<1>5. Announces(t)
    BY DEF Announces
<1>6. CaresFor(t)
    BY <1>3 DEF CaresFor
<1> HIDE DEF bookVars, LedgerInv
<1> QED
    BY <1>1, <1>2, <1>4, <1>5, <1>6, RunStep

LEMMA TriggerStep ==
    ASSUME LedgerInv, NEW t \in TransactionID, TriggerConflictCreated(t), UNCHANGED ledgerVars
    PROVE  LedgerInv'
<1>1. TypeOK' /\ Stored' = Stored /\ conflictSetIDs' = conflictSetIDs
    BY TriggerTyped DEF TransactionID, LedgerInv, LedgerTypeOK
<1> QED
    BY <1>1, HandlerRuns DEF LedgerInv, LedgerTypeOK, ledgerVars

(* The handlers of events and the inclusion of a transaction leave the conflict DAG alone ... *)
LEMMA HandlerSteps ==
    ASSUME LedgerInv, NEW t \in TransactionID,
           \/ ProcessConsumingTransactions(t) \/ PropagateAcceptance(t) \/ PropagateRejection(t)
           \/ SetTransactionInclusionTime(t)
    PROVE  LedgerInv'
<1>0. UNCHANGED <<submitted, bookVars, dagVars>>
    BY DEF ProcessConsumingTransactions, PropagateAcceptance, PropagateRejection, SetTransactionInclusionTime
<1>1. TypeOK' /\ Stored' = Stored /\ conflictSetIDs' = conflictSetIDs
    BY <1>0 DEF LedgerInv, LedgerTypeOK, dagVars, TypeOK, Stored
<1>2. CASE ProcessConsumingTransactions(t)
    <2>1. tasks' \subseteq Task /\ UNCHANGED <<included, txState>>
        BY <1>2 DEF ProcessConsumingTransactions, UnprocessedConsumingTransactions, LedgerInv, LedgerTypeOK, Task
    <2>2. \A u \in TransactionID : <<"Invalid", u>> \in tasks' => <<"Invalid", u>> \in tasks
        BY <1>2 DEF ProcessConsumingTransactions, UnprocessedConsumingTransactions
    <2> QED
        BY <1>0, <1>1, <2>1, <2>2, HandlerRuns DEF LedgerInv, LedgerTypeOK
<1>3. CASE PropagateAcceptance(t) \/ PropagateRejection(t)
    <2>1. tasks' \subseteq tasks /\ included' = included
        BY <1>3 DEF PropagateAcceptance, PropagateRejection
    <2>2. txState' \in [TransactionID -> {Rejected, Pending, Accepted}]
        BY <1>3 DEF PropagateAcceptance, PropagateRejection, LedgerInv, LedgerTypeOK
    <2> QED
        BY <1>0, <1>1, <2>1, <2>2, HandlerRuns DEF LedgerInv, LedgerTypeOK
<1>4. CASE SetTransactionInclusionTime(t)
    <2>1. tasks' = tasks /\ included' \subseteq booked
        BY <1>4 DEF SetTransactionInclusionTime, LedgerInv, LedgerTypeOK
    <2>2. txState' \in [TransactionID -> {Rejected, Pending, Accepted}]
        BY <1>4 DEF SetTransactionInclusionTime, StateAfterInclusion, LedgerInv, LedgerTypeOK
    <2> QED
        BY <1>0, <1>1, <2>1, <2>2, HandlerRuns DEF LedgerInv, LedgerTypeOK
<1> QED
    BY <1>2, <1>3, <1>4

(* ... and acceptance changes the states of conflicts only. *)
LEMMA AcceptConflictStep ==
    ASSUME LedgerInv, NEW t \in TransactionID, AcceptConflict(t)
    PROVE  LedgerInv'
<1>1. TypeOK' /\ Stored' = Stored /\ conflictSetIDs' = conflictSetIDs
      /\ {<<e.type, e.ID>> : e \in triggered'} \subseteq {"Accepted", "Rejected"} \X ConflictID
    BY SetConflictAcceptedTyped DEF AcceptConflict, TransactionID, LedgerInv, LedgerTypeOK
<1>2. tasks' = tasks \cup {<<e.type, e.ID>> : e \in triggered'} /\ UNCHANGED <<submitted, bookVars, included, txState>>
    BY DEF AcceptConflict
<1>3. tasks' \subseteq Task
    BY <1>1, <1>2 DEF LedgerInv, LedgerTypeOK, Task, TransactionID
<1>4. \A u \in TransactionID : <<"Invalid", u>> \in tasks' => <<"Invalid", u>> \in tasks
    BY <1>1, <1>2
<1> QED
    BY <1>1, <1>2, <1>3, <1>4, HandlerRuns DEF LedgerInv, LedgerTypeOK

(* The types of a step of t that changes its record to r. *)
LEMMA ThreadTyped ==
    ASSUME LedgerInv, NEW t \in TransactionID, NEW r \in Thread, thread' = [thread EXCEPT ![t] = r],
           UNCHANGED <<submitted, stored, booked, consumers, bookedRefs, included, txState>>, TypeOK',
           conflictIDs' \in [TransactionID -> SUBSET TransactionID],
           firstConsumer' \in [OutputID -> TransactionID \cup {None}],
           lock' \in [TransactionID -> TransactionID \cup {None}], tasks' \subseteq Task
    PROVE  LedgerTypeOK' /\ thread'[t] = r /\ \A u \in TransactionID \ {t} : thread'[u] = thread[u]
    BY DEF LedgerInv, LedgerTypeOK

LEMMA UnlockTyped ==
    ASSUME LedgerTypeOK, NEW S
    PROVE  Unlock(S) \in [TransactionID -> TransactionID \cup {None}]
    BY DEF LedgerTypeOK, Unlock

LEMMA DAGUntouched ==
    ASSUME LedgerInv, UNCHANGED dagVars
    PROVE  /\ TypeOK' /\ Stored' = Stored
           /\ \A c \in ConflictID : c \notin Stored' => conflictSetIDs'[c] = {}
           /\ firstConsumer' = firstConsumer => Grows
<1>1. Stored' = Stored
    BY DEF dagVars, Stored
<1> QED
    BY <1>1 DEF dagVars, TypeOK, Grows, LedgerInv, LedgerTypeOK, ConsumersKnown, TransactionID

(* Starting and ending without having registered anything. *)
LEMMA ProcessTransactionStep ==
    ASSUME LedgerInv, NEW t \in TransactionID, ProcessTransaction(t)
    PROVE  LedgerInv'
<1>1. /\ tasks' \subseteq tasks
      /\ UNCHANGED <<dagVars, submitted, stored, booked, conflictIDs, firstConsumer, consumers, bookedRefs,
                     included, txState>>
    BY DEF ProcessTransaction
<1>2. Announces(t) /\ tasks' \subseteq Task
    BY <1>1 DEF Announces, LedgerInv, LedgerTypeOK
<1>3. CASE t \in stored \ booked
    <2> DEFINE r == [Idle EXCEPT !.pc = "check"]
    <2>1. thread' = [thread EXCEPT ![t] = r] /\ lock' = [lock EXCEPT ![t] = t]
        BY <1>3 DEF ProcessTransaction
    <2>2. r \in Thread /\ r.pc = "check" /\ r.conflicting = {}
        BY DEF Thread, Idle
    <2>3. LedgerTypeOK' /\ thread'[t] = r /\ \A u \in TransactionID \ {t} : thread'[u] = thread[u]
        <3> HIDE DEF r
        <3> QED
            BY <1>1, <1>2, <2>1, <2>2, ThreadTyped, DAGUntouched DEF LedgerInv, LedgerTypeOK
    <2>4. CaresFor(t)
        BY <2>2, <2>3 DEF CaresFor, Checked
    <2>5. Runs(t)
        BY <1>1, <1>3, <2>2, <2>3, DAGUntouched DEF Runs, LedgerInv, LedgerTypeOK, ConsumersKnown
    <2> QED
        BY <1>1, <1>2, <2>3, <2>4, <2>5, DAGUntouched, RunStep
<1>4. CASE t \notin stored \ booked
    <2>1. UNCHANGED <<lock, thread>>
        BY <1>4 DEF ProcessTransaction
    <2> QED
        BY <1>1, <1>2, <2>1, DAGUntouched, HandlerRuns DEF bookVars, dagVars, Announces, LedgerInv, LedgerTypeOK,
            ProcessTransaction
<1> QED
    BY <1>3, <1>4

LEMMA AbortProcessingStep ==
    ASSUME LedgerInv, NEW t \in TransactionID, AbortProcessing(t)
    PROVE  LedgerInv'
<1>1. /\ UNCHANGED <<dagVars, submitted, stored, booked, conflictIDs, firstConsumer, consumers, bookedRefs,
                     included, txState>>
      /\ thread' = [thread EXCEPT ![t] = Idle] /\ lock' = Unlock({t})
      /\ thread[t].pc = "check"
    BY DEF AbortProcessing, Running
<1>2. tasks' \subseteq Task
    BY DEF AbortProcessing, LedgerInv, LedgerTypeOK, Task
<1>3. LedgerTypeOK' /\ thread'[t] = Idle /\ \A u \in TransactionID \ {t} : thread'[u] = thread[u]
    BY <1>1, <1>2, ThreadTyped, DAGUntouched, IdleTyped, UnlockTyped DEF LedgerInv, LedgerTypeOK
<1>4. CaresFor(t)
    BY <1>3, IdleTyped DEF CaresFor, Checked
<1>5. Announces(t)
    <2>1. t \in submitted \ booked
        BY <1>1 DEF LedgerInv, ConsumersKnown
    <2> QED
        BY <2>1, <1>3, IdleTyped DEF Announces, AbortProcessing, Doomed
<1>6. Runs(t)
    BY <1>1, <1>3, IdleTyped, DAGUntouched DEF Runs, LedgerInv, ConsumersKnown
<1> QED
    BY <1>1, <1>3, <1>4, <1>5, <1>6, DAGUntouched, RunStep

LEMMA InheritConflictIDsStep ==
    ASSUME LedgerInv, NEW t \in TransactionID, InheritConflictIDs(t)
    PROVE  LedgerInv'
<1> DEFINE r == [thread[t] EXCEPT !.pc = "register", !.register = Inputs[t],
                                  !.inherited = UnconfirmedConflicts(InputConflictIDs(t))]
<1>1. /\ UNCHANGED <<dagVars, submitted, stored, booked, conflictIDs, firstConsumer, consumers, bookedRefs,
                     lock, included, txState, tasks>>
      /\ thread[t].pc = "check" /\ IsSolid(t) /\ ~Doomed(t)
    BY DEF InheritConflictIDs, Running, Doomed
<1>2. thread' = [thread EXCEPT ![t] = r]
    BY DEF InheritConflictIDs, LedgerInv, LedgerTypeOK
<1>3. UnconfirmedConflicts(InputConflictIDs(t)) \in SUBSET TransactionID
    <2>1. \A o \in {i \in Inputs[t] : Creator[i] # Genesis} : conflictIDs[Creator[o]] \in SUBSET TransactionID
        BY InputsTyped DEF LedgerInv, LedgerTypeOK
    <2> QED
        BY <2>1 DEF UnconfirmedConflicts, InputConflictIDs
<1>4. /\ r \in Thread /\ r.pc = "register" /\ r.register = Inputs[t] /\ r.conflicting = thread[t].conflicting
    <2>1. thread[t] \in Thread /\ Inputs[t] \in SUBSET OutputID
        BY ThreadFields, InputsTyped DEF LedgerInv
    <2> QED
        BY <1>3, <2>1 DEF Thread
<1> HIDE DEF r
<1>5. LedgerTypeOK' /\ thread'[t] = r /\ \A u \in TransactionID \ {t} : thread'[u] = thread[u]
    BY <1>1, <1>2, <1>4, ThreadTyped, DAGUntouched DEF LedgerInv, LedgerTypeOK
<1>6. NotRelated(t)
    <2> SUFFICES ASSUME NEW o \in Inputs[t], NEW q \in Inputs[t]
                 PROVE  Creator[o] \notin Walk({d \in booked \ {t} : q \in Inputs[d]}, BookedEdges)
        BY DEF NotRelated
    <2> DEFINE start == {d \in booked \ {t} : q \in Inputs[d]}
               spent == {i \in Inputs[t] : firstConsumer[i] # None}
               first == ConsumersOf(spent)
               cone  == Walk(first, ConsumerEdges)
    <2>1. ASSUME NEW x \in cone PROVE OutputIDs(x) \cap Inputs[t] = {}
        BY <1>1 DEF Doomed, OutputsCausallyRelated
    <2>2. first \in SUBSET ConflictID
        BY DEF ConsumersOf, TransactionID
    <2>3. start \subseteq first
        <3> SUFFICES ASSUME NEW d \in start PROVE d \in first
            OBVIOUS
        <3>1. d \in booked /\ q \in Inputs[d] /\ d \in TransactionID /\ d \in stored
            BY DEF LedgerInv, LedgerTypeOK
        <3>2. q \in spent /\ <<q, d>> \in consumers
            BY <3>1 DEF LedgerInv, DoubleSpendsKnown, OwnOrContested, ConsumersKnown
        <3> QED
            BY <3>1, <3>2 DEF ConsumersOf
    <2> HIDE DEF first
    <2>4. first \subseteq cone /\ cone \in SUBSET ConflictID
        BY <2>2, WalkStart
    <2>5. ASSUME NEW e \in BookedEdges, e[1] \in cone
          PROVE  e[2] \in cone
        <3>1. e[1] \in booked /\ e[2] \in booked /\ e = <<e[1], e[2]>>
            BY DEF BookedEdges
        <3>2. e[1] \in ConflictID /\ e[2] \in ConflictID /\ e[2] \in TransactionID /\ e[2] \in stored
            BY <3>1 DEF LedgerInv, LedgerTypeOK, TransactionID
        <3>3. PICK i \in Inputs[e[2]] : Creator[i] = e[1]
            BY DEF BookedEdges
        <3>4. i \in OutputIDs(e[1]) /\ <<i, e[2]>> \in consumers
            BY <3>1, <3>2, <3>3, InputsTyped DEF OutputIDs, LedgerInv, ConsumersKnown
        <3>5. <<e[1], e[2]>> \in ConsumerEdges
            BY <3>2, <3>4 DEF ConsumerEdges, ConsumingTransactions, ConsumersOf, TransactionID
        <3> QED
            BY <2>5, <3>2, <3>5, WalkPush
    <2>6. Walk(start, BookedEdges) \subseteq cone
        <3> HIDE DEF start, cone
        <3> QED
            BY <2>3, <2>4, <2>5, WalkLeast
    <2>7. CASE Creator[o] = Genesis
        BY <2>4, <2>6, <2>7, InputsTyped DEF TransactionID
    <2>8. CASE Creator[o] \in booked
        <3>1. o \in OutputIDs(Creator[o])
            BY <2>8, InputsTyped DEF OutputIDs
        <3> QED
            BY <3>1, <2>1, <2>6
    <2> QED
        BY <2>7, <2>8, <1>1 DEF IsSolid
<1>7. CaresFor(t)
    <2>1. r.conflicting = {}
        BY <1>1, <1>4 DEF LedgerInv, DoubleSpendsKnown
    <2>2. RegisteredInputs(t)'
        BY <1>4, <1>5, <2>1 DEF RegisteredInputs
    <2> QED
        BY <1>1, <1>6, <2>2 DEF CaresFor
<1>8. Runs(t)
    BY <1>1, <1>4, <1>5, DAGUntouched DEF Runs, LedgerInv, ConsumersKnown
<1>9. Announces(t)
    BY <1>1 DEF Announces
<1> QED
    BY <1>1, <1>5, <1>7, <1>8, <1>9, DAGUntouched, RunStep

(* An input is registered: it is the transaction's own, or contested with its first consumer. *)
LEMMA RegisterStep ==
    ASSUME LedgerInv, NEW t \in TransactionID, NEW o \in OutputID, RegisterBookedConsumer(t, o)
    PROVE  LedgerInv'
<1> DEFINE th == thread[t]
           r  == Registered(t, o)
           fc == firstConsumer[o]
<1>1. /\ UNCHANGED <<dagVars, submitted, stored, booked, conflictIDs, consumers, bookedRefs, lock,
                     included, txState, tasks>>
      /\ firstConsumer' = [firstConsumer EXCEPT ![o] = IF @ = None THEN t ELSE @]
      /\ thread' = [thread EXCEPT ![t] = r]
      /\ th.pc = "register" /\ o \in th.register
    BY DEF RegisterBookedConsumer, Running
<1>2. RegisteredInputs(t) /\ t \in submitted \ booked /\ Checked(t)
    BY <1>1 DEF LedgerInv, DoubleSpendsKnown, Checked, ConsumersKnown
<1>3. o \in Inputs[t] /\ fc \in TransactionID \cup {None}
    BY <1>1, <1>2 DEF RegisteredInputs, LedgerInv, LedgerTypeOK
<1>4. /\ firstConsumer'[o] = IF fc = None THEN t ELSE fc
      /\ \A q \in OutputID \ {o} : firstConsumer'[q] = firstConsumer[q]
      /\ firstConsumer' \in [OutputID -> TransactionID \cup {None}]
    BY <1>1, <1>3 DEF LedgerInv, LedgerTypeOK
<1>5. /\ r \in Thread /\ r.pc = "register" /\ r.register = th.register \ {o}
      /\ r.conflicting = IF fc = None THEN th.conflicting ELSE th.conflicting \cup {o}
      /\ r.fork = IF fc = None THEN th.fork ELSE th.fork \cup {fc}
    <2>1. th \in Thread
        BY ThreadFields DEF LedgerInv
    <2>2. CASE fc = None
        BY <2>1, <2>2, <1>1 DEF Registered, Thread
    <2>3. CASE fc # None
        BY <2>1, <2>3, <1>1, <1>3 DEF Registered, Thread
    <2> QED
        BY <2>2, <2>3
<1> HIDE DEF r
<1>6. LedgerTypeOK' /\ thread'[t] = r /\ \A u \in TransactionID \ {t} : thread'[u] = thread[u]
    BY <1>1, <1>4, <1>5, ThreadTyped, DAGUntouched DEF LedgerInv, LedgerTypeOK
<1>7. Grows
    BY <1>1, <1>4 DEF Grows, dagVars
<1>8. RegisteredInputs(t)'
    <2>1. ASSUME NEW q \in Inputs[t] \ r.register PROVE firstConsumer'[q] = t \/ q \in r.conflicting
        <3>1. q \in OutputID
            BY InputsTyped
        <3>2. CASE q = o
            BY <3>2, <1>4, <1>5
        <3>3. CASE q # o
            BY <3>1, <3>3, <1>2, <1>4, <1>5 DEF RegisteredInputs
        <3> QED
            BY <3>2, <3>3
    <2>2. ASSUME NEW q \in r.conflicting
          PROVE  /\ q \in Inputs[t] /\ firstConsumer'[q] # None
                 /\ firstConsumer'[q] \in r.fork \/ q \in conflictSetIDs'[firstConsumer'[q]]
        <3>1. CASE q = o /\ fc # None
            BY <3>1, <1>3, <1>4, <1>5
        <3>2. CASE q \in th.conflicting
            <4>1. q \in Inputs[t] /\ q \in OutputID /\ firstConsumer[q] # None
                BY <3>2, <1>2, InputsTyped DEF RegisteredInputs
            <4>2. firstConsumer'[q] = firstConsumer[q] /\ conflictSetIDs' = conflictSetIDs
                BY <4>1, <1>1, <1>7 DEF Grows, dagVars
            <4> QED
                BY <3>2, <4>1, <4>2, <1>2, <1>5 DEF RegisteredInputs
        <3> QED
            BY <3>1, <3>2, <1>5
    <2> QED
        BY <2>1, <2>2, <1>2, <1>5, <1>6 DEF RegisteredInputs
<1>9. CaresFor(t)
    BY <1>2, <1>8 DEF CaresFor
<1>10. Runs(t)
    <2>1. ASSUME NEW q \in OutputID, firstConsumer'[q] # None PROVE q \in Inputs[firstConsumer'[q]]
        BY <2>1, <1>3, <1>4 DEF LedgerInv, ConsumersKnown
    <2> QED
        BY <2>1, <1>1, <1>2, <1>5, <1>6, DAGUntouched DEF Runs
<1>11. Announces(t)
    BY <1>1 DEF Announces
<1> QED
    BY <1>6, <1>7, <1>9, <1>10, <1>11, RunStep

(* A transaction becomes a conflict over its contested inputs, which are all registered. *)
LEMMA BookConflictStep ==
    ASSUME LedgerInv, NEW t \in TransactionID, BookConflict(t)
    PROVE  LedgerInv'
<1> DEFINE th == thread[t]
           r  == [th EXCEPT !.pc = "fork"]
<1>1. /\ CreateConflict(t, th.inherited, th.conflicting)
      /\ UNCHANGED <<submitted, stored, booked, conflictIDs, firstConsumer, consumers, bookedRefs, lock,
                     included, txState, tasks>>
      /\ thread' = [thread EXCEPT ![t] = r]
      /\ th.pc = "register" /\ th.register = {}
    BY DEF BookConflict, Running, LedgerInv, LedgerTypeOK
<1>2. RegisteredInputs(t) /\ t \in submitted \ booked /\ Checked(t)
    BY <1>1 DEF LedgerInv, DoubleSpendsKnown, Checked, ConsumersKnown
<1>3. /\ TypeOK' /\ Stored' = Stored \cup {t} /\ t \notin Stored
      /\ conflictSetIDs' = [conflictSetIDs EXCEPT ![t] = th.conflicting]
    <2>1. th.inherited \in SUBSET ConflictID /\ th.conflicting \in SUBSET ResourceID /\ t \in ConflictID /\ TypeOK
        BY ThreadFields DEF LedgerInv, LedgerTypeOK, TransactionID, OutputID
    <2> QED
        BY <2>1, <1>1, CreateConflictTyped
<1>4. /\ conflictSetIDs[t] = {} /\ conflictSetIDs'[t] = th.conflicting
      /\ \A c \in TransactionID \ {t} : conflictSetIDs'[c] = conflictSetIDs[c]
    BY <1>3 DEF LedgerInv, LedgerTypeOK, ConsumersKnown, TypeOK, TransactionID
<1>5. /\ r \in Thread /\ r.pc = "fork" /\ r.register = {} /\ r.conflicting = th.conflicting /\ r.fork = th.fork
    <2>1. th \in Thread
        BY ThreadFields DEF LedgerInv
    <2> QED
        BY <2>1, <1>1 DEF Thread
<1> HIDE DEF r
<1>6. LedgerTypeOK' /\ thread'[t] = r /\ \A u \in TransactionID \ {t} : thread'[u] = thread[u]
    BY <1>1, <1>3, <1>5, ThreadTyped DEF LedgerInv, LedgerTypeOK
<1>7. Grows
    BY <1>1, <1>4 DEF Grows
<1>8. RegisteredInputs(t)'
    <2>1. ASSUME NEW q \in th.conflicting
          PROVE  /\ q \in Inputs[t] /\ firstConsumer[q] # None
                 /\ firstConsumer[q] \in th.fork \/ q \in conflictSetIDs'[firstConsumer[q]]
        <3>1. /\ q \in Inputs[t] /\ q \in OutputID /\ firstConsumer[q] # None
              /\ firstConsumer[q] \in th.fork \/ q \in conflictSetIDs[firstConsumer[q]]
            BY <1>2, InputsTyped DEF RegisteredInputs
        <3>2. firstConsumer[q] \in TransactionID
            BY <3>1 DEF LedgerInv, LedgerTypeOK
        <3> QED
            BY <3>1, <3>2, <1>7 DEF Grows
    <2> QED
        BY <2>1, <1>1, <1>2, <1>4, <1>5, <1>6 DEF RegisteredInputs
<1>9. CaresFor(t)
    BY <1>2, <1>8 DEF CaresFor
<1>10. Runs(t)
    BY <1>1, <1>2, <1>3, <1>4, <1>5, <1>6 DEF Runs, LedgerInv, ConsumersKnown, TransactionID
<1>11. Announces(t)
    BY <1>1 DEF Announces
<1> QED
    BY <1>6, <1>7, <1>9, <1>10, <1>11, RunStep

(* The consumer f of contested inputs becomes a conflict over them ... *)
LEMMA ForkTransactionStep ==
    ASSUME LedgerInv, NEW t \in TransactionID, NEW f \in TransactionID, ForkTransaction(t, f)
    PROVE  LedgerInv'
<1> DEFINE th == thread[t]
           r  == [th EXCEPT !.pc = "update", !.forked = f, !.previous = conflictIDs[f]]
           R  == ConflictingInputs(t, f)
<1>1. /\ CreateConflict(f, conflictIDs[f], R)
      /\ UNCHANGED <<submitted, stored, booked, conflictIDs, firstConsumer, consumers, bookedRefs,
                     included, txState, tasks>>
      /\ thread' = [thread EXCEPT ![t] = r] /\ lock' = [lock EXCEPT ![f] = t]
      /\ th.pc = "fork" /\ f \in th.fork
    BY DEF ForkTransaction, Running, LedgerInv, LedgerTypeOK
<1>2. RegisteredInputs(t) /\ t \in submitted \ booked /\ Checked(t)
    BY <1>1 DEF LedgerInv, DoubleSpendsKnown, Checked, ConsumersKnown
<1>3. /\ TypeOK' /\ Stored' = Stored \cup {f} /\ f \notin Stored
      /\ conflictSetIDs' = [conflictSetIDs EXCEPT ![f] = R]
    <2>1. conflictIDs[f] \in SUBSET ConflictID /\ R \in SUBSET ResourceID /\ f \in ConflictID /\ TypeOK
        BY InputsTyped DEF LedgerInv, LedgerTypeOK, TransactionID, OutputID, ConflictingInputs
    <2> HIDE DEF R
    <2> QED
        BY <2>1, <1>1, CreateConflictTyped
<1>4. /\ conflictSetIDs[f] = {} /\ conflictSetIDs'[f] = R
      /\ \A c \in TransactionID \ {f} : conflictSetIDs'[c] = conflictSetIDs[c]
    BY <1>3 DEF LedgerInv, LedgerTypeOK, ConsumersKnown, TypeOK, TransactionID
<1>5. /\ r \in Thread /\ r.pc = "update" /\ r.register = th.register /\ r.conflicting = th.conflicting
      /\ r.fork = th.fork /\ r.forked = f
    <2>1. th \in Thread /\ conflictIDs[f] \in SUBSET TransactionID
        BY ThreadFields DEF LedgerInv, LedgerTypeOK
    <2> QED
        BY <2>1 DEF Thread
<1> HIDE DEF r
<1>6. LedgerTypeOK' /\ thread'[t] = r /\ \A u \in TransactionID \ {t} : thread'[u] = thread[u]
    BY <1>1, <1>3, <1>5, ThreadTyped DEF LedgerInv, LedgerTypeOK
<1>7. Grows
    BY <1>1, <1>4 DEF Grows
<1>8. RegisteredInputs(t)'
    <2>1. ASSUME NEW q \in th.conflicting
          PROVE  /\ q \in Inputs[t] /\ firstConsumer[q] # None
                 /\ firstConsumer[q] \in th.fork \/ q \in conflictSetIDs'[firstConsumer[q]]
        <3>1. /\ q \in Inputs[t] /\ q \in OutputID /\ firstConsumer[q] # None
              /\ firstConsumer[q] \in th.fork \/ q \in conflictSetIDs[firstConsumer[q]]
            BY <1>2, InputsTyped DEF RegisteredInputs
        <3>2. firstConsumer[q] \in TransactionID
            BY <3>1 DEF LedgerInv, LedgerTypeOK
        <3> QED
            BY <3>1, <3>2, <1>7 DEF Grows
    <2>2. th.conflicting \subseteq conflictSetIDs'[t]
        BY <1>1, <1>2, <1>7 DEF RegisteredInputs, Grows
    <2>3. Inputs[f] \cap th.conflicting \subseteq conflictSetIDs'[f]
        BY <1>4 DEF ConflictingInputs
    <2> QED
        BY <2>1, <2>2, <2>3, <1>1, <1>2, <1>5, <1>6 DEF RegisteredInputs
<1>9. CaresFor(t)
    BY <1>2, <1>8 DEF CaresFor
<1>10. Runs(t)
    BY <1>1, <1>2, <1>3, <1>4, <1>5, <1>6 DEF Runs, LedgerInv, ConsumersKnown, TransactionID
<1>11. Announces(t)
    BY <1>1 DEF Announces
<1> QED
    BY <1>6, <1>7, <1>9, <1>10, <1>11, RunStep

(* ... or joins them as the conflict that it is. *)
LEMMA ForkConflictingStep ==
    ASSUME LedgerInv, NEW t \in TransactionID, NEW f \in TransactionID, ForkConflicting(t, f)
    PROVE  LedgerInv'
<1> DEFINE th == thread[t]
           r  == [th EXCEPT !.fork = @ \ {f}]
           R  == ConflictingInputs(t, f)
<1>1. /\ UNCHANGED <<submitted, stored, booked, conflictIDs, firstConsumer, consumers, bookedRefs, lock,
                     included, txState, tasks>>
      /\ thread' = [thread EXCEPT ![t] = r]
      /\ th.pc = "fork" /\ f \in th.fork
    BY DEF ForkConflicting, Running, LedgerInv, LedgerTypeOK
<1>2. RegisteredInputs(t) /\ t \in submitted \ booked /\ Checked(t)
    BY <1>1 DEF LedgerInv, DoubleSpendsKnown, Checked, ConsumersKnown
<1>3. /\ TypeOK' /\ Stored' = Stored
      /\ conflictSetIDs' = [conflictSetIDs EXCEPT ![f] = @ \cup R]
    <2>1. R \in SUBSET ResourceID /\ f \in ConflictID /\ TypeOK
        BY InputsTyped DEF LedgerInv, LedgerTypeOK, TransactionID, OutputID, ConflictingInputs
    <2>2. PICK last \in R : UpdateConflictingResources(f, R, last)
        BY DEF ForkConflicting
    <2> HIDE DEF R
    <2> QED
        BY <2>1, <2>2, UpdateConflictingResourcesTyped
<1>4. /\ conflictSetIDs'[f] = conflictSetIDs[f] \cup R
      /\ \A c \in TransactionID \ {f} : conflictSetIDs'[c] = conflictSetIDs[c]
      /\ \A c \in ConflictID : c \notin Stored' => conflictSetIDs'[c] = {}
    <2>1. f \in Stored
        BY DEF ForkConflicting, UpdateConflictingResources
    <2> QED
        BY <2>1, <1>3 DEF LedgerInv, LedgerTypeOK, ConsumersKnown, TypeOK, TransactionID
<1>5. /\ r \in Thread /\ r.pc = "fork" /\ r.register = th.register /\ r.conflicting = th.conflicting
      /\ r.fork = th.fork \ {f}
    <2>1. th \in Thread
        BY ThreadFields DEF LedgerInv
    <2> QED
        BY <2>1, <1>1 DEF Thread
<1> HIDE DEF r
<1>6. LedgerTypeOK' /\ thread'[t] = r /\ \A u \in TransactionID \ {t} : thread'[u] = thread[u]
    BY <1>1, <1>3, <1>5, ThreadTyped DEF LedgerInv, LedgerTypeOK
<1>7. Grows
    BY <1>1, <1>4 DEF Grows
<1>8. RegisteredInputs(t)'
    <2>1. ASSUME NEW q \in th.conflicting
          PROVE  /\ q \in Inputs[t] /\ firstConsumer[q] # None
                 /\ firstConsumer[q] \in th.fork \ {f} \/ q \in conflictSetIDs'[firstConsumer[q]]
        <3>1. /\ q \in Inputs[t] /\ q \in OutputID /\ firstConsumer[q] # None
              /\ firstConsumer[q] \in th.fork \/ q \in conflictSetIDs[firstConsumer[q]]
            BY <1>2, InputsTyped DEF RegisteredInputs
        <3>2. firstConsumer[q] \in TransactionID /\ q \in Inputs[firstConsumer[q]]
            BY <3>1 DEF LedgerInv, LedgerTypeOK, ConsumersKnown
        <3>3. CASE firstConsumer[q] = f
            BY <3>1, <3>2, <3>3, <1>4 DEF ConflictingInputs
        <3>4. CASE firstConsumer[q] # f
            BY <3>1, <3>2, <3>4, <1>4
        <3> QED
            BY <3>3, <3>4
    <2>2. th.conflicting \subseteq conflictSetIDs'[t]
        BY <1>1, <1>2, <1>7 DEF RegisteredInputs, Grows
    <2> QED
        BY <2>1, <2>2, <1>1, <1>2, <1>5, <1>6 DEF RegisteredInputs
<1>9. CaresFor(t)
    BY <1>2, <1>8 DEF CaresFor
<1>10. Runs(t)
    BY <1>1, <1>2, <1>4, <1>5, <1>6 DEF Runs, LedgerInv, ConsumersKnown
<1>11. Announces(t)
    BY <1>1 DEF Announces
<1> QED
    BY <1>6, <1>7, <1>9, <1>10, <1>11, RunStep

(* Spreading the fork changes the conflicts of transactions and conflicts, and no resources. *)
LEMMA WalksOn ==
    ASSUME LedgerInv, LedgerTypeOK', NEW t \in TransactionID, thread[t].pc \in {"update", "walk"},
           thread'[t].pc = "walk", SameInputs(t), \A u \in TransactionID \ {t} : thread'[u] = thread[u],
           UNCHANGED <<submitted, stored, booked, consumers, firstConsumer, tasks, conflictSetIDs>>,
           Stored' = Stored
    PROVE  LedgerInv'
<1>1. Grows
    BY DEF Grows
<1>2. RegisteredInputs(t) /\ t \in submitted \ booked /\ Checked(t)
    BY DEF LedgerInv, DoubleSpendsKnown, Checked, ConsumersKnown
<1>3. RegisteredInputs(t)'
    BY <1>1, <1>2, RegisteredStays DEF LedgerInv
<1>4. CaresFor(t)
    BY <1>2, <1>3 DEF CaresFor
<1>5. Runs(t)
    BY <1>2 DEF Runs, LedgerInv, ConsumersKnown
<1>6. Announces(t)
    BY DEF Announces
<1> QED
    BY <1>1, <1>4, <1>5, <1>6, RunStep

(* The ConflictIDs of updateConflictsAfterFork. *)
LEMMA AfterForkTyped ==
    ASSUME LedgerInv, NEW t \in TransactionID, thread[t].pc \in {"update", "walk"}, NEW d \in TransactionID
    PROVE  /\ thread[t].forked \in TransactionID
           /\ ConflictIDsAfterFork(d, thread[t].forked, thread[t].previous) \in SUBSET TransactionID
<1>1. thread[t].forked \in TransactionID
    BY DEF LedgerInv, DoubleSpendsKnown, RegisteredInputs, Checked
<1> QED
    BY <1>1 DEF ConflictIDsAfterFork, UnconfirmedConflicts, LedgerInv, LedgerTypeOK

LEMMA UpdateForkedStep ==
    ASSUME LedgerInv, NEW t \in TransactionID, UpdateForked(t)
    PROVE  LedgerInv'
<1> DEFINE th  == thread[t]
           f   == th.forked
           r   == [th EXCEPT !.pc = "walk", !.outputs = OutputIDs(f)]
           ids == ConflictIDsAfterFork(f, f, th.previous)
<1>1. /\ UNCHANGED <<dagVars, submitted, stored, booked, firstConsumer, consumers, bookedRefs,
                     included, txState, tasks>>
      /\ conflictIDs' = [conflictIDs EXCEPT ![f] = ids] /\ lock' = Unlock({f})
      /\ thread' = [thread EXCEPT ![t] = r] /\ th.pc = "update"
    BY DEF UpdateForked, Running, LedgerInv, LedgerTypeOK
<1>2. f \in TransactionID /\ ids \in SUBSET TransactionID
    BY <1>1, AfterForkTyped
<1>3. /\ r \in Thread /\ r.pc = "walk" /\ r.register = th.register /\ r.conflicting = th.conflicting
      /\ r.fork = th.fork /\ r.forked = f
    <2>1. th \in Thread /\ OutputIDs(f) \in SUBSET OutputID
        BY ThreadFields DEF LedgerInv, OutputIDs
    <2> QED
        BY <2>1 DEF Thread
<1> HIDE DEF r, ids
<1>4. conflictIDs' \in [TransactionID -> SUBSET TransactionID]
    BY <1>1, <1>2 DEF LedgerInv, LedgerTypeOK
<1>5. LedgerTypeOK' /\ thread'[t] = r /\ \A u \in TransactionID \ {t} : thread'[u] = thread[u]
    BY <1>1, <1>3, <1>4, ThreadTyped, DAGUntouched, UnlockTyped DEF LedgerInv, LedgerTypeOK
<1>6. SameInputs(t)
    BY <1>1, <1>3, <1>5 DEF SameInputs
<1> QED
    BY <1>1, <1>3, <1>5, <1>6, DAGUntouched, WalksOn DEF dagVars

LEMMA WalkOutputStep ==
    ASSUME LedgerInv, NEW t \in TransactionID, NEW o \in OutputID, WalkOutput(t, o)
    PROVE  LedgerInv'
<1> DEFINE th == thread[t]
           r  == [th EXCEPT !.outputs = @ \ {o}, !.visit = ConsumersOf({o}) \ th.seen]
<1>1. /\ UNCHANGED <<dagVars, submitted, stored, booked, conflictIDs, firstConsumer, consumers, bookedRefs,
                     lock, included, txState, tasks>>
      /\ thread' = [thread EXCEPT ![t] = r] /\ th.pc = "walk"
    BY DEF WalkOutput, Running, LedgerInv, LedgerTypeOK
<1>2. /\ r \in Thread /\ r.pc = "walk" /\ r.register = th.register /\ r.conflicting = th.conflicting
      /\ r.fork = th.fork /\ r.forked = th.forked
    <2>1. th \in Thread /\ ConsumersOf({o}) \in SUBSET TransactionID
        BY ThreadFields DEF LedgerInv, ConsumersOf
    <2> QED
        BY <2>1, <1>1 DEF Thread
<1> HIDE DEF r
<1>3. LedgerTypeOK' /\ thread'[t] = r /\ \A u \in TransactionID \ {t} : thread'[u] = thread[u]
    BY <1>1, <1>2, ThreadTyped, DAGUntouched DEF LedgerInv, LedgerTypeOK
<1>4. SameInputs(t)
    BY <1>1, <1>2, <1>3 DEF SameInputs
<1> QED
    BY <1>1, <1>2, <1>3, <1>4, DAGUntouched, WalksOn DEF dagVars

LEMMA PropagateForkedConflictStep ==
    ASSUME LedgerInv, NEW t \in TransactionID, NEW d \in TransactionID, PropagateForkedConflict(t, d)
    PROVE  LedgerInv'
<1> DEFINE th  == thread[t]
           ids == ConflictIDsAfterFork(d, th.forked, th.previous)
           r(pushed) == [th EXCEPT !.visit = @ \ {d}, !.seen = @ \cup {d}, !.outputs = @ \cup pushed]
<1>1. /\ UNCHANGED <<submitted, stored, booked, firstConsumer, consumers, bookedRefs, lock, included,
                     txState, tasks>>
      /\ th.pc = "walk"
    BY DEF PropagateForkedConflict, Running
<1>2. PICK pushed \in {{}, OutputIDs(d)} : thread' = [thread EXCEPT ![t] = r(pushed)]
    BY DEF PropagateForkedConflict, LedgerInv, LedgerTypeOK
<1>3. /\ r(pushed) \in Thread /\ r(pushed).pc = "walk" /\ r(pushed).register = th.register
      /\ r(pushed).conflicting = th.conflicting /\ r(pushed).fork = th.fork /\ r(pushed).forked = th.forked
    <2>1. th \in Thread /\ pushed \in SUBSET OutputID
        BY ThreadFields DEF LedgerInv, OutputIDs
    <2> QED
        BY <2>1, <1>1 DEF Thread
<1>4. th.forked \in TransactionID /\ ids \in SUBSET TransactionID
    BY <1>1, AfterForkTyped
<1>5. conflictIDs' = conflictIDs \/ conflictIDs' = [conflictIDs EXCEPT ![d] = ids]
    BY DEF PropagateForkedConflict
<1> HIDE DEF r, ids
<1>6. conflictIDs' \in [TransactionID -> SUBSET TransactionID]
    BY <1>4, <1>5 DEF LedgerInv, LedgerTypeOK
<1>7. TypeOK' /\ Stored' = Stored /\ conflictSetIDs' = conflictSetIDs
    <2>1. CASE UNCHANGED dagVars
        BY <2>1, DAGUntouched DEF dagVars
    <2>2. CASE UpdateConflictParents(d, th.previous, th.forked)
        <3>1. th.previous \in SUBSET ConflictID /\ th.forked \in ConflictID /\ d \in ConflictID /\ TypeOK
            BY <1>4, ThreadFields DEF LedgerInv, LedgerTypeOK, TransactionID
        <3> QED
            BY <3>1, <2>2, UpdateConflictParentsTyped
    <2> QED
        BY <2>1, <2>2 DEF PropagateForkedConflict
<1>8. LedgerTypeOK' /\ thread'[t] = r(pushed) /\ \A u \in TransactionID \ {t} : thread'[u] = thread[u]
    BY <1>1, <1>2, <1>3, <1>6, <1>7, ThreadTyped DEF LedgerInv, LedgerTypeOK
<1>9. SameInputs(t)
    BY <1>1, <1>3, <1>8 DEF SameInputs
<1> QED
    BY <1>1, <1>3, <1>7, <1>8, <1>9, WalksOn

(* The conflict of the forked transaction has its share of the contested inputs. *)
LEMMA EndPropagationStep ==
    ASSUME LedgerInv, NEW t \in TransactionID, EndPropagation(t)
    PROVE  LedgerInv'
<1> DEFINE th == thread[t]
           f  == th.forked
           r  == [th EXCEPT !.pc = "fork", !.fork = @ \ {f}, !.forked = None, !.previous = {}, !.seen = {}]
<1>1. /\ UNCHANGED <<dagVars, submitted, stored, booked, conflictIDs, firstConsumer, consumers, bookedRefs,
                     lock, included, txState, tasks>>
      /\ thread' = [thread EXCEPT ![t] = r] /\ th.pc = "walk"
    BY DEF EndPropagation, Running, LedgerInv, LedgerTypeOK
<1>2. RegisteredInputs(t) /\ t \in submitted \ booked /\ Checked(t)
    BY <1>1 DEF LedgerInv, DoubleSpendsKnown, Checked, ConsumersKnown
<1>3. /\ r \in Thread /\ r.pc = "fork" /\ r.register = th.register /\ r.conflicting = th.conflicting
      /\ r.fork = th.fork \ {f}
    <2>1. th \in Thread
        BY ThreadFields DEF LedgerInv
    <2> QED
        BY <2>1 DEF Thread
<1> HIDE DEF r
<1>4. LedgerTypeOK' /\ thread'[t] = r /\ \A u \in TransactionID \ {t} : thread'[u] = thread[u]
    BY <1>1, <1>3, ThreadTyped, DAGUntouched DEF LedgerInv, LedgerTypeOK
<1>5. Grows
    BY <1>1, DAGUntouched
<1>6. RegisteredInputs(t)'
    <2>1. ASSUME NEW q \in th.conflicting
          PROVE  /\ q \in Inputs[t] /\ firstConsumer[q] # None
                 /\ firstConsumer[q] \in th.fork \ {f} \/ q \in conflictSetIDs[firstConsumer[q]]
        <3>1. /\ q \in Inputs[t] /\ q \in OutputID /\ firstConsumer[q] # None
              /\ firstConsumer[q] \in th.fork \/ q \in conflictSetIDs[firstConsumer[q]]
            BY <1>2, InputsTyped DEF RegisteredInputs
        <3>2. q \in Inputs[firstConsumer[q]]
            BY <3>1 DEF LedgerInv, ConsumersKnown
        <3> QED
            BY <3>1, <3>2, <1>1, <1>2 DEF RegisteredInputs
    <2>2. firstConsumer' = firstConsumer /\ conflictSetIDs' = conflictSetIDs
        BY <1>1 DEF dagVars
    <2> QED
        BY <2>1, <2>2, <1>1, <1>2, <1>3, <1>4 DEF RegisteredInputs
<1>7. CaresFor(t)
    BY <1>2, <1>6 DEF CaresFor
<1>8. Runs(t)
    BY <1>1, <1>2, <1>3, <1>4, DAGUntouched DEF Runs, LedgerInv, ConsumersKnown
<1>9. Announces(t)
    BY <1>1 DEF Announces
<1> QED
    BY <1>4, <1>5, <1>7, <1>8, <1>9, RunStep

(* A booked transaction comes behind all others: what it consumes has been booked before, *)
(* and nothing booked consumes its outputs.                                                *)
LEMMA BookedLast ==
    ASSUME LedgerInv, NEW t \in TransactionID, Checked(t), booked' = booked \cup {t},
           NEW u \in TransactionID, u \in booked \/ Checked(u)
    PROVE  IsSolid(u)' /\ NotRelated(u)'
<1>1. /\ \A x \in booked \cup {t, u} : IsSolid(x)
      /\ NotRelated(u) /\ t \notin booked /\ t # Genesis
    BY InputsTyped DEF LedgerInv, LedgerTypeOK, InputsUnrelated, ConsumersKnown, Checked
<1>2. IsSolid(u)'
    BY <1>1 DEF IsSolid
<1>3. ASSUME NEW o \in Inputs[u], NEW q \in Inputs[u]
      PROVE  Creator[o] \notin Walk({d \in booked' \ {u} : q \in Inputs[d]}, BookedEdges')
    <2> DEFINE start    == {d \in booked \ {u} : q \in Inputs[d]}
               startNow == {d \in booked' \ {u} : q \in Inputs[d]}
               edges    == BookedEdges
               edgesNow == BookedEdges'
               cone     == Walk(start, edges)
               T        == cone \cup {t}
    <2>1. start \in SUBSET ConflictID /\ startNow \subseteq start \cup {t} /\ t \in ConflictID
        BY DEF LedgerInv, LedgerTypeOK, TransactionID
    <2>2. \A e \in edgesNow : /\ e = <<e[1], e[2]>> /\ e[1] \in ConflictID /\ e[2] \in ConflictID
                              /\ e[1] # t /\ (e[2] # t => e \in edges)
        <3> SUFFICES ASSUME NEW e \in edgesNow
                     PROVE  /\ e = <<e[1], e[2]>> /\ e[1] \in ConflictID /\ e[2] \in ConflictID
                            /\ e[1] # t /\ (e[2] # t => e \in edges)
            OBVIOUS
        <3>1. e[1] \in booked \cup {t} /\ e[2] \in booked \cup {t} /\ e = <<e[1], e[2]>>
            BY DEF BookedEdges
        <3>2. PICK i \in Inputs[e[2]] : Creator[i] = e[1]
            BY DEF BookedEdges
        <3>3. e[1] # t
            BY <3>1, <3>2, <1>1 DEF IsSolid
        <3>4. e[2] # t => e \in edges
            BY <3>1, <3>2, <3>3 DEF BookedEdges
        <3> QED
            BY <3>1, <3>3, <3>4 DEF LedgerInv, LedgerTypeOK, TransactionID
    <2> HIDE DEF start, startNow, edges, edgesNow
    <2>3. start \subseteq cone /\ cone \in SUBSET ConflictID
        BY <2>1, WalkStart
    <2>4. ASSUME NEW e \in edgesNow, e[1] \in T
          PROVE  e[2] \in T
        <3>1. CASE e[2] = t
            BY <3>1
        <3>2. CASE e[2] # t
            <4>1. e[1] \in cone /\ <<e[1], e[2]>> \in edges /\ e[2] \in ConflictID
                BY <2>2, <2>4, <3>2
            <4> QED
                BY <4>1, WalkPush
        <3> QED
            BY <3>1, <3>2
    <2>5. startNow \subseteq T /\ T \in SUBSET ConflictID
        BY <2>1, <2>3
    <2>6. Walk(startNow, edgesNow) \subseteq T
        <3> HIDE DEF T
        <3> QED
            BY <2>4, <2>5, WalkLeast
    <2>7. Creator[o] \notin cone
        BY <1>1 DEF NotRelated, start, edges
    <2>8. Creator[o] # t
        BY <1>1 DEF IsSolid
    <2> QED
        BY <2>6, <2>7, <2>8 DEF startNow, edgesNow
<1> QED
    BY <1>2, <1>3 DEF NotRelated

LEMMA BookStep ==
    ASSUME LedgerInv, NEW t \in TransactionID, NEW ids \in SUBSET TransactionID, Book(t, ids),
           Checked(t), OwnOrContested(t)
    PROVE  LedgerInv'
<1>1. /\ conflictIDs' = [conflictIDs EXCEPT ![t] = ids] /\ booked' = booked \cup {t}
      /\ bookedRefs' \subseteq bookedRefs \cup (Inputs[t] \X {t})
      /\ tasks' = tasks \cup {<<"Booked", t>>} /\ lock' = Unlock({t})
      /\ thread' = [thread EXCEPT ![t] = Idle]
      /\ UNCHANGED <<dagVars, submitted, stored, firstConsumer, consumers, included, txState>>
    BY DEF Book
<1>2. t \in stored /\ t \in submitted \ booked /\ <<"Invalid", t>> \notin tasks
    BY DEF LedgerInv, LedgerTypeOK, PrunedDoomed, ConsumersKnown, Checked
<1>3. /\ thread'[t] = Idle /\ \A u \in TransactionID \ {t} : thread'[u] = thread[u]
      /\ thread' \in [TransactionID -> Thread]
    BY <1>1, IdleTyped DEF LedgerInv, LedgerTypeOK
<1>4. ~Checked(t)' /\ \A u \in TransactionID \ {t} : Checked(u)' <=> Checked(u)
    BY <1>3, IdleTyped DEF Checked
<1>5. LedgerTypeOK'
    <2>1. bookedRefs' \subseteq consumers
        BY <1>1, <1>2 DEF LedgerInv, LedgerTypeOK, ConsumersKnown
    <2>2. tasks' \subseteq Task /\ conflictIDs' \in [TransactionID -> SUBSET TransactionID]
        BY <1>1 DEF LedgerInv, LedgerTypeOK, Task
    <2> QED
        BY <1>1, <1>2, <1>3, <2>1, <2>2, UnlockTyped, DAGUntouched DEF LedgerInv, LedgerTypeOK
<1>6. ConsumersKnown'
    BY <1>1, <1>3, IdleTyped, DAGUntouched DEF LedgerInv, ConsumersKnown
<1>7. Grows
    BY <1>1, DAGUntouched
<1>8. DoubleSpendsKnown'
    <2>1. \A u \in booked' : OwnOrContested(u)'
        BY <1>1, <1>7, ContestedStays DEF LedgerInv, LedgerTypeOK, DoubleSpendsKnown
    <2>2. \A u \in TransactionID : Checked(u)' => RegisteredInputs(u)'
        BY <1>3, <1>4, <1>7, RegisteredStays DEF LedgerInv, DoubleSpendsKnown, SameInputs
    <2>3. \A u \in TransactionID : thread'[u].pc = "check" => thread'[u].conflicting = {}
        BY <1>3, IdleTyped DEF LedgerInv, DoubleSpendsKnown
    <2> QED
        BY <2>1, <2>2, <2>3 DEF DoubleSpendsKnown
<1>9. PrunedDoomed'
    <2> SUFFICES ASSUME NEW u \in TransactionID, u \in submitted \ stored \/ <<"Invalid", u>> \in tasks
                 PROVE  u \in submitted \ booked' /\ ~Checked(u)' /\ Doomed(u)'
        BY <1>1 DEF PrunedDoomed
    <2>1. u \in submitted \ booked /\ ~Checked(u) /\ Doomed(u)
        BY DEF LedgerInv, PrunedDoomed
    <2>2. Doomed(u)'
        BY <1>1, <2>1, DoomedStays
    <2> QED
        BY <1>1, <1>4, <2>1, <2>2
<1>10. InputsUnrelated'
    <2> SUFFICES ASSUME NEW u \in TransactionID, u \in booked' \/ Checked(u)'
                 PROVE  IsSolid(u)' /\ NotRelated(u)'
        BY DEF InputsUnrelated
    <2>1. u \in booked \/ Checked(u)
        BY <1>1, <1>4
    <2> QED
        BY <1>1, <2>1, BookedLast
<1> QED
    BY <1>5, <1>6, <1>8, <1>9, <1>10 DEF LedgerInv

(* A transaction is booked without a conflict, or when all first consumers have been forked. *)
LEMMA BookSteps ==
    ASSUME LedgerInv, NEW t \in TransactionID, BookWithoutConflict(t) \/ BookForked(t)
    PROVE  LedgerInv'
<1>1. Checked(t) /\ RegisteredInputs(t)
    BY DEF LedgerInv, DoubleSpendsKnown, Checked, BookWithoutConflict, BookForked, Running
<1>2. CASE BookWithoutConflict(t)
    <2>1. OwnOrContested(t)
        BY <1>1, <1>2, InputsTyped DEF BookWithoutConflict, RegisteredInputs, OwnOrContested
    <2> QED
        BY <1>1, <1>2, <2>1, BookStep, ThreadFields DEF BookWithoutConflict, LedgerInv
<1>3. CASE BookForked(t)
    <2>1. OwnOrContested(t)
        <3>1. thread[t].pc = "fork" /\ thread[t].fork = {}
            BY <1>3 DEF BookForked, Running
        <3> QED
            BY <1>1, <3>1, InputsTyped DEF RegisteredInputs, OwnOrContested
    <2> QED
        BY <1>1, <1>3, <2>1, BookStep DEF BookForked
<1> QED
    BY <1>2, <1>3

(* A step that books nothing, and adds or removes references of other transactions. *)
LEMMA NothingBooked ==
    ASSUME LedgerInv, booked' = booked, UNCHANGED <<conflictSetIDs, firstConsumer>>,
           \A ref \in consumers : ref[2] \in booked => ref \in consumers',
           \A u \in TransactionID : thread'[u] = thread[u] \/ (thread'[u].pc = "check" /\ thread'[u].conflicting = {})
    PROVE  /\ DoubleSpendsKnown' /\ InputsUnrelated'
           /\ \A u \in TransactionID : (Checked(u)' => Checked(u)) /\ (Doomed(u) => Doomed(u)')
<1>1. Grows
    BY DEF Grows
<1>2. \A u \in TransactionID : Checked(u)' => Checked(u) /\ thread'[u] = thread[u]
    BY DEF Checked
<1>3. DoubleSpendsKnown'
    <2>1. \A u \in booked' : OwnOrContested(u)'
        BY <1>1, ContestedStays DEF LedgerInv, LedgerTypeOK, DoubleSpendsKnown
    <2>2. \A u \in TransactionID : Checked(u)' => RegisteredInputs(u)'
        BY <1>1, <1>2, RegisteredStays DEF LedgerInv, DoubleSpendsKnown, SameInputs
    <2>3. \A u \in TransactionID : thread'[u].pc = "check" => thread'[u].conflicting = {}
        BY DEF LedgerInv, DoubleSpendsKnown
    <2> QED
        BY <2>1, <2>2, <2>3 DEF DoubleSpendsKnown
<1>4. InputsUnrelated'
    <2>1. \A u \in TransactionID : (IsSolid(u)' <=> IsSolid(u)) /\ (NotRelated(u)' <=> NotRelated(u))
        BY DEF IsSolid, NotRelated, BookedEdges
    <2> QED
        BY <2>1, <1>2 DEF LedgerInv, InputsUnrelated
<1>5. \A u \in TransactionID : Doomed(u) => Doomed(u)'
    BY DoomedStays
<1> QED
    BY <1>2, <1>3, <1>4, <1>5

LEMMA StoreTransactionStep ==
    ASSUME LedgerInv, NEW t \in TransactionID, StoreTransaction(t)
    PROVE  LedgerInv'
<1> DEFINE r == [Idle EXCEPT !.pc = "check", !.own = TRUE]
<1>1. /\ t \notin submitted /\ submitted' = submitted \cup {t} /\ stored' = stored \cup {t}
      /\ consumers' = consumers \cup (Inputs[t] \X {t})
      /\ lock' = [lock EXCEPT ![t] = t] /\ thread' = [thread EXCEPT ![t] = r]
      /\ UNCHANGED <<dagVars, booked, conflictIDs, firstConsumer, bookedRefs, included, txState, tasks>>
    BY DEF StoreTransaction
<1>2. r \in Thread /\ r.pc = "check" /\ r.conflicting = {}
    BY DEF Idle, Thread
<1> HIDE DEF r
<1>3. /\ thread'[t] = r /\ \A u \in TransactionID \ {t} : thread'[u] = thread[u]
      /\ thread' \in [TransactionID -> Thread]
    BY <1>1, <1>2 DEF LedgerInv, LedgerTypeOK
<1>4. LedgerTypeOK'
    <2>1. consumers' \subseteq OutputID \X TransactionID /\ bookedRefs' \subseteq consumers'
        BY <1>1, InputsTyped DEF LedgerInv, LedgerTypeOK
    <2> QED
        BY <1>1, <1>3, <2>1, DAGUntouched DEF LedgerInv, LedgerTypeOK
<1>5. ConsumersKnown'
    <2>1. t \notin booked
        BY <1>1 DEF LedgerInv, LedgerTypeOK
    <2> QED
        BY <1>1, <1>3, <2>1, DAGUntouched DEF LedgerInv, ConsumersKnown
<1>6. /\ DoubleSpendsKnown' /\ InputsUnrelated'
      /\ \A u \in TransactionID : (Checked(u)' => Checked(u)) /\ (Doomed(u) => Doomed(u)')
    BY <1>1, <1>2, <1>3, NothingBooked DEF dagVars
<1>7. PrunedDoomed'
    <2> SUFFICES ASSUME NEW u \in TransactionID, u \in submitted' \ stored' \/ <<"Invalid", u>> \in tasks
                 PROVE  u \in submitted' \ booked /\ ~Checked(u)' /\ Doomed(u)'
        BY <1>1 DEF PrunedDoomed
    <2>1. u \in submitted \ stored \/ <<"Invalid", u>> \in tasks
        BY <1>1
    <2>2. u \in submitted \ booked /\ ~Checked(u) /\ Doomed(u)
        BY <2>1 DEF LedgerInv, PrunedDoomed
    <2> QED
        BY <1>1, <1>6, <2>2
<1> QED
    BY <1>4, <1>5, <1>6, <1>7 DEF LedgerInv

(* What is pruned has no outputs, so that its future cone is empty: only t itself goes. *)
LEMMA OnlyUnbookedPruned ==
    ASSUME LedgerInv, NEW t \in TransactionID, PruneTransaction(t)
    PROVE  /\ t \in submitted \ booked /\ ~Checked(t) /\ Doomed(t)
           /\ Pruned(t) \subseteq {t} /\ booked' = booked
<1>1. <<"Invalid", t>> \in tasks /\ booked' = booked \ Pruned(t)
    BY DEF PruneTransaction
<1>2. t \in submitted \ booked /\ ~Checked(t) /\ Doomed(t)
    BY <1>1 DEF LedgerInv, PrunedDoomed
<1> DEFINE edges == {e \in ConsumerEdges : e[1] \in stored}
<1>3. \A e \in edges : e[1] \notin {t}
    BY <1>2 DEF ConsumerEdges, ConsumingTransactions, ConsumersOf, OutputIDs
<1>4. {t} \in SUBSET ConflictID
    BY DEF TransactionID
<1> HIDE DEF edges
<1>5. Walk({t}, edges) \subseteq {t}
    BY <1>3, <1>4, WalkLeast
<1>6. Pruned(t) \subseteq {t}
    BY <1>5 DEF Pruned, edges
<1> QED
    BY <1>1, <1>2, <1>6

LEMMA PruneTransactionStep ==
    ASSUME LedgerInv, NEW t \in TransactionID, PruneTransaction(t)
    PROVE  LedgerInv'
<1> DEFINE pruned == Pruned(t)
<1>1. /\ tasks' = tasks \ {<<"Invalid", t>>} /\ <<"Invalid", t>> \in tasks
      /\ stored' = stored \ pruned /\ booked' = booked \ pruned /\ included' = included \ pruned
      /\ consumers' = {ref \in consumers : ref[2] \notin pruned}
      /\ bookedRefs' = {ref \in bookedRefs : ref[2] \notin pruned}
      /\ conflictIDs' = [x \in TransactionID |-> IF x \in pruned THEN {} ELSE conflictIDs[x]]
      /\ txState' = [x \in TransactionID |-> IF x \in pruned THEN Pending ELSE txState[x]]
      /\ UNCHANGED <<dagVars, submitted, firstConsumer, lock, thread>>
    BY DEF PruneTransaction
<1>2. t \in submitted \ booked /\ ~Checked(t) /\ Doomed(t) /\ pruned \subseteq {t}
    BY OnlyUnbookedPruned
<1> HIDE DEF pruned
<1>3. booked' = booked /\ included' = included
    BY <1>1, <1>2 DEF LedgerInv, LedgerTypeOK
<1>4. LedgerTypeOK'
    <2>1. /\ conflictIDs' \in [TransactionID -> SUBSET TransactionID]
          /\ txState' \in [TransactionID -> {Rejected, Pending, Accepted}]
        BY <1>1 DEF LedgerInv, LedgerTypeOK
    <2>2. bookedRefs' \subseteq consumers' /\ consumers' \subseteq OutputID \X TransactionID /\ tasks' \subseteq Task
        BY <1>1 DEF LedgerInv, LedgerTypeOK
    <2>3. booked \subseteq stored'
        BY <1>1, <1>2 DEF LedgerInv, LedgerTypeOK
    <2> QED
        BY <1>1, <1>3, <2>1, <2>2, <2>3, DAGUntouched DEF LedgerInv, LedgerTypeOK
<1>5. ConsumersKnown'
    <2>1. \A u \in stored' : Inputs[u] \X {u} \subseteq consumers'
        BY <1>1 DEF LedgerInv, ConsumersKnown
    <2> QED
        BY <1>1, <1>3, <2>1, DAGUntouched DEF LedgerInv, ConsumersKnown
<1>6. /\ DoubleSpendsKnown' /\ InputsUnrelated'
      /\ \A u \in TransactionID : (Checked(u)' => Checked(u)) /\ (Doomed(u) => Doomed(u)')
    BY <1>1, <1>2, <1>3, NothingBooked DEF dagVars
<1>7. PrunedDoomed'
    <2> SUFFICES ASSUME NEW u \in TransactionID, u \in submitted \ stored' \/ <<"Invalid", u>> \in tasks'
                 PROVE  u \in submitted \ booked /\ ~Checked(u)' /\ Doomed(u)'
        BY <1>1, <1>3 DEF PrunedDoomed
    <2>1. u = t \/ u \in submitted \ stored \/ <<"Invalid", u>> \in tasks
        BY <1>1, <1>2
    <2>2. u \in submitted \ booked /\ ~Checked(u) /\ Doomed(u)
        BY <1>2, <2>1 DEF LedgerInv, PrunedDoomed
    <2> QED
        BY <1>6, <2>2
<1> QED
    BY <1>4, <1>5, <1>6, <1>7 DEF LedgerInv

LEMMA StepPreservesLedger ==
    ASSUME LedgerInv, [NextLedger]_vars
    PROVE  LedgerInv'
<1>1. CASE UNCHANGED vars
    <2>1. UNCHANGED dagVars /\ UNCHANGED <<submitted, bookVars, included, txState, tasks>>
        BY <1>1 DEF vars, ledgerVars
    <2>2. TypeOK' /\ Stored' = Stored /\ conflictSetIDs' = conflictSetIDs
        BY <2>1, DAGUntouched DEF dagVars
    <2>3. ASSUME NEW t \in TransactionID PROVE LedgerInv'
        BY <2>1, <2>2, HandlerRuns DEF LedgerInv, LedgerTypeOK
    <2>4. CASE TransactionID = {}
        <3>1. /\ LedgerTypeOK' /\ ConsumersKnown'
            BY <2>1, <2>2 DEF LedgerInv, LedgerTypeOK, ConsumersKnown, bookVars
        <3> QED
            BY <2>1, <2>2, <2>4, <3>1 DEF LedgerInv, LedgerTypeOK, DoubleSpendsKnown, PrunedDoomed, InputsUnrelated, bookVars
    <2> QED
        BY <2>3, <2>4
<1>2. ASSUME NEW t \in TransactionID, ThreadStep(t) PROVE LedgerInv'
    <2>1. CASE AbortProcessing(t)
        BY <2>1, AbortProcessingStep
    <2>2. CASE InheritConflictIDs(t)
        BY <2>2, InheritConflictIDsStep
    <2>3. ASSUME NEW o \in OutputID, RegisterBookedConsumer(t, o) PROVE LedgerInv'
        BY <2>3, RegisterStep
    <2>4. ASSUME NEW o \in OutputID, WalkOutput(t, o) PROVE LedgerInv'
        BY <2>4, WalkOutputStep
    <2>5. CASE BookWithoutConflict(t) \/ BookForked(t)
        BY <2>5, BookSteps
    <2>6. CASE BookConflict(t)
        BY <2>6, BookConflictStep
    <2>7. ASSUME NEW f \in TransactionID, ForkTransaction(t, f) PROVE LedgerInv'
        BY <2>7, ForkTransactionStep
    <2>8. ASSUME NEW f \in TransactionID, ForkConflicting(t, f) PROVE LedgerInv'
        BY <2>8, ForkConflictingStep
    <2>9. CASE UpdateForked(t)
        BY <2>9, UpdateForkedStep
    <2>10. CASE EndPropagation(t)
        BY <2>10, EndPropagationStep
    <2>11. ASSUME NEW d \in TransactionID, PropagateForkedConflict(t, d) PROVE LedgerInv'
        BY <2>11, PropagateForkedConflictStep
    <2>12. CASE TriggerConflictCreated(t) /\ UNCHANGED ledgerVars
        BY <2>12, TriggerStep
    <2> QED
        BY <1>2, <2>1, <2>2, <2>3, <2>4, <2>5, <2>6, <2>7, <2>8, <2>9, <2>10, <2>11, <2>12 DEF ThreadStep
<1>3. ASSUME NEW t \in TransactionID, HandlerStep(t) PROVE LedgerInv'
    BY <1>3, ProcessTransactionStep, HandlerSteps, PruneTransactionStep DEF HandlerStep
<1>4. ASSUME NEW t \in TransactionID, StoreTransaction(t) PROVE LedgerInv'
    BY <1>4, StoreTransactionStep
<1>5. ASSUME NEW t \in TransactionID, SetTransactionInclusionTime(t) \/ AcceptConflict(t) PROVE LedgerInv'
    BY <1>5, HandlerSteps, AcceptConflictStep
<1> QED
    BY <1>1, <1>2, <1>3, <1>4, <1>5 DEF NextLedger, Booking, Progress, Consensus

-----------------------------------------------------------------------------

(* The invariant holds in every reachable state, for any transactions and outputs. *)
THEOREM LedgerInvariant == SpecLedger => []LedgerInv
<1>1. InitLedger => LedgerInv
    BY InitEstablishesLedger
<1>2. LedgerInv /\ [NextLedger]_vars => LedgerInv'
    BY StepPreservesLedger
<1> QED
    BY <1>1, <1>2, PTL DEF SpecLedger

(* The ledger is type correct: in particular, what is booked stays stored. *)
THEOREM LedgerTypeCorrect == SpecLedger => []LedgerTypeOK
<1>1. LedgerInv => LedgerTypeOK
    BY DEF LedgerInv
<1> QED
    BY <1>1, LedgerInvariant, PTL

(* Two booked transactions that spend the same output are conflicts over it, however the threads *)
(* that book them, and those that fork, interleave.                                              *)
THEOREM EveryDoubleSpendConflicts == SpecLedger => []DoubleSpendsConflict
<1>1. LedgerInv => DoubleSpendsConflict
    <2> SUFFICES ASSUME LedgerInv, NEW t \in booked, NEW u \in booked, t # u,
                        NEW o \in Inputs[t] \cap Inputs[u]
                 PROVE  o \in conflictSetIDs[t] \cap conflictSetIDs[u]
        BY DEF DoubleSpendsConflict
    <2>1. OwnOrContested(t) /\ OwnOrContested(u)
        BY DEF LedgerInv, DoubleSpendsKnown
    <2> QED
        BY <2>1 DEF OwnOrContested
<1> QED
    BY <1>1, LedgerInvariant, PTL

(* No booked transaction spends an output together with one from its future cone: the check      *)
(* before booking cannot be overtaken, as what it would have to know of has been booked by then. *)
THEOREM CausallyUnrelatedInputs == SpecLedger => []NoCausallyRelatedInputs
<1>1. LedgerInv => NoCausallyRelatedInputs
    BY DEF LedgerInv, LedgerTypeOK, InputsUnrelated, NotRelated, NoCausallyRelatedInputs, BookedEdges
<1> QED
    BY <1>1, LedgerInvariant, PTL

-----------------------------------------------------------------------------
(* Past cones.  They are known before anything is booked, and they have no cycles. *)

LEMMA CreatorKnown ==
    ASSUME NEW t \in TransactionID, NEW o \in Inputs[t], Creator[o] # Genesis
    PROVE  Creator[o] \in TransactionID /\ <<t, Creator[o]>> \in CreatorEdges
    BY InputsTyped DEF CreatorEdges

LEMMA PastSelf ==
    ASSUME NEW t \in TransactionID
    PROVE  t \in PastCone(t) /\ PastCone(t) \in SUBSET TransactionID
<1>1. {t} \in SUBSET ConflictID
    BY DEF TransactionID
<1> QED
    BY <1>1, WalkStart DEF PastCone, TransactionID

LEMMA PastClosed ==
    ASSUME NEW t \in TransactionID, NEW x \in PastCone(t), NEW o \in Inputs[x], Creator[o] # Genesis
    PROVE  Creator[o] \in PastCone(t)
<1>1. x \in TransactionID
    BY PastSelf
<1>2. Creator[o] \in ConflictID /\ <<x, Creator[o]>> \in CreatorEdges
    BY <1>1, CreatorKnown DEF TransactionID
<1> QED
    BY <1>2, WalkPush DEF PastCone

LEMMA PastLeast ==
    ASSUME NEW t \in TransactionID, NEW T \in SUBSET TransactionID, t \in T,
           \A x \in T : \A o \in Inputs[x] : Creator[o] # Genesis => Creator[o] \in T
    PROVE  PastCone(t) \subseteq T
<1>1. \A e \in CreatorEdges : e[1] \in T => e[2] \in T
    BY LedgerAssumption DEF CreatorEdges, TransactionID
<1>2. T \in SUBSET ConflictID /\ {t} \subseteq T
    BY DEF TransactionID
<1> QED
    BY <1>1, <1>2, WalkLeast DEF PastCone

LEMMA PastTransitive ==
    ASSUME NEW t \in TransactionID, NEW u \in PastCone(t)
    PROVE  u \in TransactionID /\ PastCone(u) \subseteq PastCone(t)
<1>1. PastCone(t) \in SUBSET TransactionID /\ u \in TransactionID
    BY PastSelf
<1>2. \A x \in PastCone(t) : \A o \in Inputs[x] : Creator[o] # Genesis => Creator[o] \in PastCone(t)
    BY PastClosed
<1> QED
    BY <1>1, <1>2, PastLeast

(* The creator of an input is in the past cone, with its own. *)
LEMMA CreatorPast ==
    ASSUME NEW t \in TransactionID, NEW o \in Inputs[t], Creator[o] # Genesis
    PROVE  Creator[o] \in TransactionID /\ Creator[o] \in PastCone(t) /\ PastCone(Creator[o]) \subseteq PastCone(t)
<1>1. Creator[o] \in PastCone(t)
    BY PastSelf, PastClosed
<1> QED
    BY <1>1, PastTransitive

(* Whatever else t builds on, it builds on through the creator of one of its inputs. *)
LEMMA PastOfCreators ==
    ASSUME NEW t \in TransactionID, NEW x \in PastCone(t), x # t
    PROVE  \E o \in Inputs[t] : Creator[o] # Genesis /\ x \in PastCone(Creator[o])
<1> DEFINE Through(y) == \E o \in Inputs[t] : Creator[o] # Genesis /\ y \in PastCone(Creator[o])
           T == {y \in TransactionID : y = t \/ Through(y)}
<1>1. ASSUME NEW y \in T, NEW i \in Inputs[y], Creator[i] # Genesis
      PROVE  Creator[i] \in T
    <2>1. Creator[i] \in TransactionID /\ Creator[i] \in PastCone(Creator[i])
        BY <1>1, CreatorKnown, PastSelf
    <2>2. CASE y = t
        BY <1>1, <2>1, <2>2
    <2>3. CASE Through(y)
        <3>1. PICK o \in Inputs[t] : Creator[o] # Genesis /\ y \in PastCone(Creator[o])
            BY <2>3
        <3>2. Creator[o] \in TransactionID
            BY <3>1, CreatorKnown
        <3>3. Creator[i] \in PastCone(Creator[o])
            BY <1>1, <3>1, <3>2, PastClosed
        <3> QED
            BY <2>1, <3>1, <3>3
    <2> QED
        BY <2>2, <2>3
<1>2. T \in SUBSET TransactionID /\ t \in T
    OBVIOUS
<1>3. PastCone(t) \subseteq T
    <2> HIDE DEF T
    <2> QED
        BY <1>1, <1>2, PastLeast
<1> QED
    BY <1>3

(* A transaction does not build on itself. *)
LEMMA CreatorsBefore ==
    ASSUME NEW t \in TransactionID, NEW o \in Inputs[t], Creator[o] # Genesis
    PROVE  t \notin PastCone(Creator[o])
<1> SUFFICES ASSUME t \in PastCone(Creator[o]) PROVE FALSE
    OBVIOUS
<1> DEFINE S == {x \in PastCone(t) : t \in PastCone(x)}
<1>1. S \in SUBSET ConflictID /\ t \in S
    BY PastSelf DEF TransactionID
<1>2. PICK m \in S : \A i \in Inputs[m] : Creator[i] \notin S
    <2> HIDE DEF S
    <2> QED
        BY <1>1, LedgerAssumption
<1>3. m \in TransactionID /\ m \in PastCone(t) /\ t \in PastCone(m)
    BY PastSelf
<1>4. ASSUME NEW i \in Inputs[m], Creator[i] # Genesis, t \in PastCone(Creator[i])
      PROVE  FALSE
    BY <1>2, <1>3, <1>4, PastClosed
<1>5. CASE m # t
    BY <1>3, <1>4, <1>5, PastOfCreators
<1>6. CASE m = t
    BY <1>4, <1>6
<1> QED
    BY <1>5, <1>6

(* Nor do two build on each other. *)
LEMMA PastAcyclic ==
    ASSUME NEW t \in TransactionID, NEW u \in PastCone(t), t \in PastCone(u)
    PROVE  u = t
<1> SUFFICES ASSUME u # t PROVE FALSE
    OBVIOUS
<1>1. PICK o \in Inputs[t] : Creator[o] # Genesis /\ u \in PastCone(Creator[o])
    BY PastOfCreators
<1>2. PastCone(u) \subseteq PastCone(Creator[o])
    BY <1>1, CreatorKnown, PastTransitive
<1> QED
    BY <1>1, <1>2, CreatorsBefore

-----------------------------------------------------------------------------
(* The ledger implements the conflict DAG. *)

(* No two accepted conflicts build on competitors. *)
AcceptedCompatible == \A t, u \in AcceptedConflicts : Compatible(t, u)

(* Conflicts depend on what their transactions build on, and compete for what they spend. *)
ConflictGraph ==
    /\ DAGCore
    /\ \A c \in ConflictID : parents[c] \subseteq PastCone(c) \ {c}
    /\ \A c \in ConflictID : conflictSetIDs[c] \subseteq Inputs[c]
    /\ AcceptedCompatible

LEMMA AncestorsPast ==
    ASSUME ConflictGraph, NEW id \in ConflictID
    PROVE  Walk({id}, ParentEdges) \subseteq PastCone(id)
<1>1. \A e \in ParentEdges : e[1] \in PastCone(id) => e[2] \in PastCone(id)
    BY PastTransitive DEF ConflictGraph, ParentEdges, TransactionID
<1>2. PastCone(id) \in SUBSET ConflictID /\ {id} \subseteq PastCone(id)
    BY PastSelf DEF TransactionID
<1> QED
    BY <1>1, <1>2, WalkLeast

LEMMA CreateStep ==
    ASSUME ConflictGraph, NEW id \in ConflictID, NEW P \in SUBSET ConflictID, NEW R \in SUBSET ResourceID,
           P \subseteq (PastCone(id) \ {id}) \cap Stored, R \subseteq Inputs[id], R # {},
           CreateConflict(id, P, R)
    PROVE  ConflictGraph' /\ NextDAG /\ Stored' = Stored \cup {id} /\ AcceptedConflicts' = AcceptedConflicts
<1>1. CreateContract(id, P, R)
    BY DEF CreateContract
<1>2. DAGCore'
    BY <1>1, CreateConflictCore DEF ConflictGraph
<1>3. Stored' = Stored \cup {id} /\ id \notin Stored
    BY CreateConflictTyped DEF ConflictGraph, DAGCore
<1>4. NextDAG
    BY <1>1, <1>3 DEF NextDAG
<1>5. AcceptedConflicts' = AcceptedConflicts
    <2>1. NewState(id, P, R) \in {Rejected, Pending} /\ confirmationState[id] = Undefined
        BY <1>3 DEF NewState, Stored
    <2>2. /\ confirmationState' = [confirmationState EXCEPT ![id] = NewState(id, P, R)]
          /\ confirmationState \in [ConflictID -> State]
        BY DEF CreateConflict, ConflictGraph, DAGCore, TypeOK
    <2> QED
        BY <2>1, <2>2 DEF AcceptedConflicts, TransactionID, IsAccepted, Rejected, Pending, Undefined, Accepted
<1>6. AcceptedCompatible'
    BY <1>5 DEF AcceptedCompatible, ConflictGraph, Compatible
<1>7. /\ parents' = [parents EXCEPT ![id] = P] /\ conflictSetIDs' = [conflictSetIDs EXCEPT ![id] = R]
      /\ parents \in [ConflictID -> SUBSET ConflictID] /\ conflictSetIDs \in [ConflictID -> SUBSET ResourceID]
    BY DEF CreateConflict, ConflictGraph, DAGCore, TypeOK
<1> QED
    BY <1>2, <1>3, <1>4, <1>5, <1>6, <1>7 DEF ConflictGraph

LEMMA ReparentStep ==
    ASSUME ConflictGraph, NEW id \in ConflictID, NEW removed \in SUBSET ConflictID, NEW added \in ConflictID,
           added \in Stored \ removed, added \in PastCone(id) \ {id},
           UpdateConflictParents(id, removed, added)
    PROVE  /\ ConflictGraph' /\ (NextDAG \/ LateReparenting)
           /\ Stored' = Stored /\ confirmationState' = confirmationState
<1> DEFINE gone == removed \cap parents[id]
<1>1. id \notin Walk({added}, ParentEdges)
    BY AncestorsPast, PastAcyclic DEF TransactionID
<1>2. ReparentContract(id, removed, added) /\ ReparentContract(id, gone, added)
    BY <1>1 DEF ReparentContract
<1>3. UpdateConflictParents(id, gone, added)
    <2>1. (parents[id] \cup {added}) \ removed = (parents[id] \cup {added}) \ gone
        OBVIOUS
    <2>2. parents[id] \cap removed = parents[id] \cap gone
        OBVIOUS
    <2>3. [parents EXCEPT ![id] = (@ \cup {added}) \ removed] = [parents EXCEPT ![id] = (@ \cup {added}) \ gone]
        BY <2>1 DEF ConflictGraph, DAGCore, TypeOK
    <2> HIDE DEF gone
    <2> QED
        BY <2>2, <2>3 DEF UpdateConflictParents
<1>4. added \in ConflictID \ parents[id] /\ gone \in SUBSET parents[id]
    BY DEF UpdateConflictParents
<1>5. NextDAG \/ LateReparenting
    <2> HIDE DEF gone
    <2>1. CASE InTime(id, added)
        BY <2>1, <1>2, <1>3, <1>4 DEF NextDAG
    <2>2. CASE ~InTime(id, added)
        BY <2>2, <1>2, <1>3, <1>4 DEF LateReparenting
    <2> QED
        BY <2>1, <2>2
<1>6. DAGCore'
    BY <1>2, UpdateConflictParentsCore DEF ConflictGraph
<1>7. /\ Stored' = Stored /\ AcceptedConflicts' = AcceptedConflicts
      /\ UNCHANGED <<conflictSetIDs, confirmationState>>
    BY DEF UpdateConflictParents, Stored, AcceptedConflicts
<1>8. AcceptedCompatible'
    BY <1>7 DEF AcceptedCompatible, ConflictGraph, Compatible
<1>9. /\ parents' = [parents EXCEPT ![id] = (@ \cup {added}) \ removed]
      /\ parents \in [ConflictID -> SUBSET ConflictID]
    BY DEF UpdateConflictParents, ConflictGraph, DAGCore, TypeOK
<1> QED
    BY <1>5, <1>6, <1>7, <1>8, <1>9 DEF ConflictGraph

LEMMA JoinStep ==
    ASSUME ConflictGraph, NEW id \in ConflictID, NEW R \in SUBSET ResourceID, R \subseteq Inputs[id],
           NEW last \in R, UpdateConflictingResources(id, R, last)
    PROVE  ConflictGraph' /\ NextDAG /\ Stored' = Stored /\ confirmationState' = confirmationState
<1>1. JoinContract(id, R)
    <2> SUFFICES ASSUME IsAccepted(confirmationState[id]), NEW m \in ConflictID \ {id}, NEW r \in R,
                        <<r, m>> \in conflictMembers, IsAccepted(confirmationState[m])
                 PROVE  FALSE
        BY DEF JoinContract, anyConflictingConflictAccepted, MembersBeside
    <2>1. r \in Inputs[m] \cap Inputs[id]
        BY DEF ConflictGraph, DAGCore, ReferencesConsistent
    <2>2. Compatible(id, m)
        BY DEF ConflictGraph, AcceptedCompatible, AcceptedConflicts, TransactionID
    <2>3. id \in PastCone(id) /\ m \in PastCone(m)
        BY PastSelf DEF TransactionID
    <2> QED
        BY <2>1, <2>2, <2>3 DEF Compatible
<1>2. DAGCore'
    BY <1>1, UpdateConflictingResourcesCore DEF ConflictGraph
<1>3. NextDAG
    BY <1>1 DEF NextDAG
<1>4. /\ Stored' = Stored /\ AcceptedConflicts' = AcceptedConflicts /\ UNCHANGED <<parents, confirmationState>>
    BY DEF UpdateConflictingResources, Stored, AcceptedConflicts
<1>5. AcceptedCompatible'
    BY <1>4 DEF AcceptedCompatible, ConflictGraph, Compatible
<1>6. /\ conflictSetIDs' = [conflictSetIDs EXCEPT ![id] = @ \cup R]
      /\ conflictSetIDs \in [ConflictID -> SUBSET ResourceID]
    BY DEF UpdateConflictingResources, ConflictGraph, DAGCore, TypeOK
<1> QED
    BY <1>2, <1>3, <1>4, <1>5, <1>6 DEF ConflictGraph

LEMMA AnnounceStep ==
    ASSUME ConflictGraph, NEW id \in ConflictID, TriggerConflictCreated(id)
    PROVE  ConflictGraph' /\ NextDAG /\ Stored' = Stored /\ confirmationState' = confirmationState
<1>1. DAGCore'
    BY TriggerCore DEF ConflictGraph
<1>2. /\ Stored' = Stored /\ AcceptedConflicts' = AcceptedConflicts
      /\ UNCHANGED <<parents, conflictSetIDs, confirmationState>>
    BY DEF TriggerConflictCreated, Stored, AcceptedConflicts
<1>3. AcceptedCompatible'
    BY <1>2 DEF AcceptedCompatible, ConflictGraph, Compatible
<1> QED
    BY <1>1, <1>2, <1>3 DEF NextDAG, ConflictGraph

(* Whatever loses against a conflict that is accepted with id builds on a competitor of its past cone. *)
LEMMA LosersBuildOnCompetitors ==
    ASSUME ConflictGraph, NEW id \in ConflictID, NEW A \in SUBSET PastCone(id),
           NEW r \in Walk(UNION {ConflictingConflicts(a) : a \in A}, ChildEdges)
    PROVE  r \in ConflictID /\ ~Compatible(id, r)
<1> DEFINE start == UNION {ConflictingConflicts(a) : a \in A}
           T == {d \in ConflictID : \E a \in A, y \in PastCone(d) : a # y /\ Inputs[a] \cap Inputs[y] # {}}
<1>1. start \subseteq T
    <2> SUFFICES ASSUME NEW a \in A, NEW d \in ConflictingConflicts(a)
                 PROVE  d \in T
        OBVIOUS
    <2>1. a \in ConflictID
        BY PastSelf DEF TransactionID
    <2>2. d \in ConflictID \ {a} /\ \E o \in conflictSetIDs[a] : <<o, d>> \in conflictMembers
        BY DEF ConflictingConflicts, MembersBeside
    <2>3. PICK o \in conflictSetIDs[a] : <<o, d>> \in conflictMembers
        BY <2>2
    <2>4. o \in Inputs[a] \cap Inputs[d]
        BY <2>1, <2>2, <2>3 DEF ConflictGraph, DAGCore, ReferencesConsistent
    <2>5. d \in PastCone(d)
        BY <2>2, PastSelf DEF TransactionID
    <2> QED
        BY <2>2, <2>4, <2>5
<1>2. ASSUME NEW e \in ChildEdges, e[1] \in T
      PROVE  e[2] \in T
    <2>1. e[1] \in ConflictID /\ e[2] \in ConflictID /\ e[1] \in parents[e[2]]
        BY DEF ChildEdges, ConflictGraph, DAGCore, ReferencesConsistent
    <2>2. PastCone(e[1]) \subseteq PastCone(e[2])
        BY <2>1, PastTransitive DEF ConflictGraph, TransactionID
    <2> QED
        BY <1>2, <2>1, <2>2
<1>3. Walk(start, ChildEdges) \subseteq T
    <2> HIDE DEF start, T
    <2>1. T \in SUBSET ConflictID
        BY DEF T
    <2> QED
        BY <1>1, <1>2, <2>1, WalkLeast
<1> QED
    BY <1>3 DEF Compatible

(* A conflict whose past cone contradicts neither itself nor an accepted conflict is accepted with *)
(* conflicts of its past cone, and everything that has been accepted stays so.                      *)
LEMMA AcceptStep ==
    ASSUME ConflictGraph, NEW id \in ConflictID, SetConflictAccepted(id),
           \A w \in {id} \cup AcceptedConflicts : Compatible(id, w)
    PROVE  /\ ConflictGraph' /\ NextDAG /\ Stored' = Stored
           /\ AcceptedConflicts' = AcceptedConflicts \cup NewlyAccepted(id)
           /\ NewlyAccepted(id) \subseteq PastCone(id)
<1> DEFINE A == NewlyAccepted(id)
           R == NewlyRejected(A)
           Open(c) == c \in Stored /\ confirmationState[c] # Accepted
           up == {e \in ParentEdges : Open(e[1])}
           StopsAt(x) == x \notin Stored \/ (confirmationState[x] = Rejected /\ x \notin A)
           down == {e \in ChildEdges : ~StopsAt(e[1])}
           start == UNION {ConflictingConflicts(a) : a \in A}
<1>1. A \subseteq PastCone(id) /\ A \subseteq Stored
    <2>1. A \subseteq Walk({id}, up) /\ A \subseteq Stored
        BY DEF NewlyAccepted
    <2>2. \A e \in up : e[1] \in PastCone(id) => e[2] \in PastCone(id)
        BY PastTransitive DEF ConflictGraph, ParentEdges, TransactionID
    <2>3. PastCone(id) \in SUBSET ConflictID /\ {id} \subseteq PastCone(id)
        BY PastSelf DEF TransactionID
    <2> HIDE DEF A, up
    <2> QED
        BY <2>1, <2>2, <2>3, WalkLeast
<1>2. R \subseteq Walk(start, ChildEdges)
    <2>1. R \subseteq Walk(start, down)
        BY DEF NewlyRejected
    <2>2. start \in SUBSET ConflictID
        BY DEF ConflictingConflicts, MembersBeside
    <2> DEFINE W == Walk(start, ChildEdges)
    <2>3. start \subseteq W /\ W \in SUBSET ConflictID
        <3> HIDE DEF start
        <3> QED
            BY <2>2, WalkStart
    <2>4. ASSUME NEW e \in down, e[1] \in W
          PROVE  e[2] \in W
        <3>1. e \in ChildEdges /\ e = <<e[1], e[2]>> /\ e[2] \in ConflictID
            BY DEF ChildEdges, ConflictGraph, DAGCore, ReferencesConsistent
        <3> HIDE DEF start
        <3> QED
            BY <2>4, <3>1, WalkPush
    <2>5. Walk(start, down) \subseteq W
        <3> HIDE DEF start, down, W
        <3> QED
            BY <2>3, <2>4, WalkLeast
    <2> QED
        BY <2>1, <2>5
<1>3. /\ confirmationState' = [c \in ConflictID |->
            IF c \in R THEN Rejected ELSE IF c \in A THEN Accepted ELSE confirmationState[c]]
      /\ UNCHANGED <<parents, conflictSetIDs>>
    BY DEF SetConflictAccepted
<1>4. DAGCore' /\ Stored' = Stored
    BY SetConflictAcceptedCore, SetConflictAcceptedTyped DEF ConflictGraph, DAGCore
<1>5. NextDAG
    BY DEF NextDAG
<1> HIDE DEF A, R, start
<1>6. \A r \in R : r \in ConflictID /\ ~Compatible(id, r)
    BY <1>1, <1>2, LosersBuildOnCompetitors DEF start
<1>7. \A a \in A : Compatible(id, a)
    <2>1. \A a \in A : PastCone(a) \subseteq PastCone(id)
        BY <1>1, PastTransitive DEF TransactionID
    <2>2. Compatible(id, id)
        OBVIOUS
    <2> QED
        BY <2>1, <2>2 DEF Compatible
<1>8. AcceptedConflicts' = AcceptedConflicts \cup A
    <2>1. \A c \in ConflictID : confirmationState'[c] =
                IF c \in R THEN Rejected ELSE IF c \in A THEN Accepted ELSE confirmationState[c]
        BY <1>3
    <2>2. R \cap (A \cup AcceptedConflicts) = {}
        BY <1>6, <1>7
    <2>3. A \subseteq ConflictID
        BY <1>1 DEF Stored
    <2> QED
        BY <2>1, <2>2, <2>3 DEF AcceptedConflicts, TransactionID, IsAccepted, Rejected, Accepted
<1>9. AcceptedCompatible'
    <2> SUFFICES ASSUME NEW t \in AcceptedConflicts \cup A, NEW u \in AcceptedConflicts \cup A
                 PROVE  Compatible(t, u)
        BY <1>8 DEF AcceptedCompatible, Compatible
    <2>1. \A a \in A : PastCone(a) \subseteq PastCone(id)
        BY <1>1, PastTransitive DEF TransactionID
    <2>2. CASE t \in AcceptedConflicts /\ u \in AcceptedConflicts
        BY <2>2 DEF ConflictGraph, AcceptedCompatible
    <2>3. CASE t \in A
        BY <2>1, <2>3, <1>7 DEF Compatible
    <2>4. CASE u \in A
        BY <2>1, <2>4, <1>7 DEF Compatible
    <2> QED
        BY <2>2, <2>3, <2>4
<1> QED
    BY <1>1, <1>3, <1>4, <1>5, <1>8, <1>9 DEF ConflictGraph, A

(* A transaction inherits conflicts that it builds on, and spends what its Consumer references say. *)
TransactionsBuild ==
    /\ \A t \in TransactionID : conflictIDs[t] \subseteq PastCone(t) \cap Stored
    /\ \A ref \in consumers : ref[1] \in Inputs[ref[2]]

(* What a thread inherits, forks and visits. *)
ThreadBuilds(t) ==
    LET th == thread[t] IN
    /\ th.inherited \subseteq (PastCone(t) \ {t}) \cap Stored
    /\ \A f \in th.fork : \E o \in th.conflicting : firstConsumer[o] = f
    /\ th.pc \in {"fork", "update", "walk"} => t \in Stored
    /\ th.pc \in {"update", "walk"} => th.forked \in Stored \ th.previous
    /\ th.pc # "walk" => th.visit = {}
    /\ th.pc = "walk" =>
            /\ \A o \in th.outputs : Creator[o] # Genesis /\ th.forked \in PastCone(Creator[o])
            /\ \A d \in th.visit : th.forked \in PastCone(d) \ {d}

BuildsInv ==
    /\ LedgerInv
    /\ ConflictGraph
    /\ TransactionsBuild
    /\ \A t \in TransactionID : ThreadBuilds(t)

(* The other threads do not notice a step. *)
LEMMA OthersBuild ==
    ASSUME LedgerInv, NEW t \in TransactionID, ThreadBuilds(t), thread'[t] = thread[t], Stored \subseteq Stored',
           \A o \in OutputID : firstConsumer[o] # None => firstConsumer'[o] = firstConsumer[o]
    PROVE  ThreadBuilds(t)'
<1> DEFINE th == thread[t]
<1>1. ASSUME NEW f \in th.fork
      PROVE  \E o \in th.conflicting : firstConsumer'[o] = f
    <2>1. PICK o \in th.conflicting : firstConsumer[o] = f
        BY DEF ThreadBuilds
    <2>2. o \in OutputID /\ f \in TransactionID
        BY ThreadFields DEF LedgerInv
    <2> QED
        BY <2>1, <2>2, LedgerAssumption DEF TransactionID
<1> QED
    BY <1>1 DEF ThreadBuilds

(* A step that the conflict DAG allows, or does not see. *)
LegalStep == NextDAG \/ LateReparenting \/ UNCHANGED dagVars

LEMMA GraphKept ==
    ASSUME ConflictGraph, UNCHANGED dagVars
    PROVE  ConflictGraph' /\ Stored' = Stored /\ LegalStep
<1>1. UNCHANGED <<parents, conflictSetIDs, confirmationState, childConflicts, conflictMembers>>
    BY DEF dagVars
<1>2. Stored' = Stored
    BY <1>1 DEF Stored
<1>3. DAGCore'
    BY <1>2 DEF dagVars, ConflictGraph, DAGCore, TypeOK, ReferencesConsistent, NoConflictingAccepted
<1>4. AcceptedCompatible'
    BY <1>1 DEF ConflictGraph, AcceptedCompatible, AcceptedConflicts, Compatible
<1> QED
    BY <1>1, <1>2, <1>3, <1>4 DEF ConflictGraph, LegalStep

(* A step of t, as far as the others are concerned. *)
LEMMA StepBuilds ==
    ASSUME BuildsInv, LedgerInv', ConflictGraph', Stored \subseteq Stored',
           NEW t \in TransactionID, ThreadBuilds(t)', \A u \in TransactionID \ {t} : thread'[u] = thread[u],
           \A c \in TransactionID : conflictIDs'[c] \subseteq PastCone(c) \cap Stored',
           \A o \in OutputID : firstConsumer[o] # None => firstConsumer'[o] = firstConsumer[o],
           \A ref \in consumers' : ref[1] \in Inputs[ref[2]]
    PROVE  BuildsInv'
<1>1. TransactionsBuild'
    BY DEF TransactionsBuild
<1>2. \A u \in TransactionID \ {t} : ThreadBuilds(u)'
    BY OthersBuild DEF BuildsInv
<1> QED
    BY <1>1, <1>2 DEF BuildsInv

(* A step that the threads do not notice, or that starts or ends one. *)
LEMMA StartOrEnd ==
    ASSUME BuildsInv, LedgerInv', UNCHANGED dagVars, NEW t \in TransactionID,
           thread'[t] \in {thread[t], Idle, [Idle EXCEPT !.pc = "check"],
                           [Idle EXCEPT !.pc = "check", !.own = TRUE]},
           \A u \in TransactionID \ {t} : thread'[u] = thread[u],
           \A c \in TransactionID : conflictIDs'[c] \subseteq PastCone(c) \cap Stored,
           UNCHANGED firstConsumer,
           \A ref \in consumers' : ref[1] \in Inputs[ref[2]]
    PROVE  BuildsInv' /\ LegalStep
<1>1. ConflictGraph' /\ Stored' = Stored /\ LegalStep
    BY GraphKept DEF BuildsInv
<1>2. ThreadBuilds(t)'
    <2>1. CASE thread'[t] = thread[t]
        BY <2>1, <1>1, OthersBuild DEF BuildsInv
    <2>2. CASE thread'[t] # thread[t]
        <3>1. /\ thread'[t].inherited = {} /\ thread'[t].fork = {} /\ thread'[t].visit = {}
              /\ thread'[t].pc \in {"idle", "check"}
            <4>1. CASE thread'[t] = Idle
                BY <4>1 DEF Idle
            <4>2. CASE thread'[t] = [Idle EXCEPT !.pc = "check"]
                BY <4>2 DEF Idle
            <4>3. CASE thread'[t] = [Idle EXCEPT !.pc = "check", !.own = TRUE]
                BY <4>3 DEF Idle
            <4> QED
                BY <2>2, <4>1, <4>2, <4>3
        <3> QED
            BY <3>1 DEF ThreadBuilds
    <2> QED
        BY <2>1, <2>2
<1> QED
    BY <1>1, <1>2, StepBuilds

LEMMA ConflictIDsPast ==
    ASSUME BuildsInv, NEW c \in TransactionID
    PROVE  conflictIDs[c] \subseteq PastCone(c) \cap Stored
    BY DEF BuildsInv, TransactionsBuild

LEMMA ThreadRecord ==
    ASSUME LedgerInv, NEW t \in TransactionID, NEW r, thread' = [thread EXCEPT ![t] = r]
    PROVE  thread'[t] = r /\ \A u \in TransactionID \ {t} : thread'[u] = thread[u]
    BY DEF LedgerInv, LedgerTypeOK

LEMMA StartOrEndSteps ==
    ASSUME BuildsInv, LedgerInv', NEW t \in TransactionID,
           StoreTransaction(t) \/ ProcessTransaction(t) \/ AbortProcessing(t)
    PROVE  BuildsInv' /\ LegalStep
<1>0. \A ref \in consumers : ref[1] \in Inputs[ref[2]]
    BY DEF BuildsInv, TransactionsBuild
<1>1. UNCHANGED <<dagVars, conflictIDs, firstConsumer>>
    BY DEF StoreTransaction, ProcessTransaction, AbortProcessing
<1>2. CASE StoreTransaction(t)
    <2>1. \A ref \in consumers' : ref[1] \in Inputs[ref[2]]
        BY <1>0, <1>2 DEF StoreTransaction
    <2>2. thread' = [thread EXCEPT ![t] = [Idle EXCEPT !.pc = "check", !.own = TRUE]]
        BY <1>2 DEF StoreTransaction
    <2> QED
        BY <1>1, <2>1, <2>2, ThreadRecord, ConflictIDsPast, StartOrEnd DEF BuildsInv
<1>3. CASE ProcessTransaction(t)
    <2>1. thread' = thread \/ thread' = [thread EXCEPT ![t] = [Idle EXCEPT !.pc = "check"]]
        BY <1>3 DEF ProcessTransaction
    <2>2. thread'[t] \in {thread[t], [Idle EXCEPT !.pc = "check"]} /\ \A u \in TransactionID \ {t} : thread'[u] = thread[u]
        BY <2>1, ThreadRecord DEF BuildsInv
    <2>3. consumers' = consumers
        BY <1>3 DEF ProcessTransaction
    <2> QED
        BY <1>0, <1>1, <2>2, <2>3, ConflictIDsPast, StartOrEnd
<1>4. CASE AbortProcessing(t)
    <2>1. thread' = [thread EXCEPT ![t] = Idle] /\ consumers' = consumers
        BY <1>4 DEF AbortProcessing
    <2> QED
        BY <1>0, <1>1, <2>1, ThreadRecord, ConflictIDsPast, StartOrEnd DEF BuildsInv
<1> QED
    BY <1>2, <1>3, <1>4

(* Handlers and the inclusion of a transaction: pruning takes references and conflicts away. *)
LEMMA HandlersBuild ==
    ASSUME BuildsInv, LedgerInv', NEW t \in TransactionID,
           \/ ProcessConsumingTransactions(t) \/ PropagateAcceptance(t) \/ PropagateRejection(t)
           \/ SetTransactionInclusionTime(t) \/ PruneTransaction(t)
    PROVE  BuildsInv' /\ LegalStep
<1>1. UNCHANGED <<dagVars, firstConsumer, thread>>
    BY DEF ProcessConsumingTransactions, PropagateAcceptance, PropagateRejection, SetTransactionInclusionTime,
           PruneTransaction, bookVars
<1>2. consumers' \subseteq consumers
    BY DEF ProcessConsumingTransactions, PropagateAcceptance, PropagateRejection, SetTransactionInclusionTime,
           PruneTransaction, bookVars
<1>3. \A c \in TransactionID : conflictIDs'[c] \in {{}, conflictIDs[c]}
    BY DEF ProcessConsumingTransactions, PropagateAcceptance, PropagateRejection, SetTransactionInclusionTime,
           PruneTransaction, bookVars
<1>4. \A ref \in consumers' : ref[1] \in Inputs[ref[2]]
    BY <1>2 DEF BuildsInv, TransactionsBuild
<1>5. \A c \in TransactionID : conflictIDs'[c] \subseteq PastCone(c) \cap Stored
    BY <1>3, ConflictIDsPast
<1> QED
    BY <1>1, <1>4, <1>5, StartOrEnd

(* A thread inherits what the creators of its inputs have, unless it is merged to master. *)
LEMMA InheritBuilds ==
    ASSUME BuildsInv, LedgerInv', NEW t \in TransactionID, InheritConflictIDs(t)
    PROVE  BuildsInv' /\ LegalStep
<1> DEFINE ids == UnconfirmedConflicts(InputConflictIDs(t))
           r   == [thread[t] EXCEPT !.pc = "register", !.register = Inputs[t], !.inherited = ids]
<1>1. /\ UNCHANGED <<dagVars, conflictIDs, firstConsumer, consumers>>
      /\ thread' = [thread EXCEPT ![t] = r] /\ thread[t].pc = "check"
    BY DEF InheritConflictIDs, Running, BuildsInv, LedgerInv, LedgerTypeOK
<1>2. ids \subseteq (PastCone(t) \ {t}) \cap Stored
    <2> SUFFICES ASSUME NEW c \in InputConflictIDs(t)
                 PROVE  c \in (PastCone(t) \ {t}) \cap Stored
        BY DEF UnconfirmedConflicts
    <2>1. PICK o \in Inputs[t] : Creator[o] # Genesis /\ c \in conflictIDs[Creator[o]]
        BY DEF InputConflictIDs
    <2>2. Creator[o] \in TransactionID /\ PastCone(Creator[o]) \subseteq PastCone(t)
        BY <2>1, CreatorPast
    <2>3. t \notin PastCone(Creator[o])
        BY <2>1, CreatorsBefore
    <2> QED
        BY <2>1, <2>2, <2>3, ConflictIDsPast
<1>3. /\ r.pc = "register" /\ r.inherited = ids /\ r.fork = thread[t].fork
      /\ r.conflicting = thread[t].conflicting /\ r.visit = thread[t].visit
    BY ThreadFields DEF BuildsInv, LedgerInv, Thread
<1> HIDE DEF r, ids
<1>4. ConflictGraph' /\ Stored' = Stored /\ LegalStep
    BY <1>1, GraphKept DEF BuildsInv
<1>5. thread'[t] = r /\ \A u \in TransactionID \ {t} : thread'[u] = thread[u]
    BY <1>1, ThreadRecord DEF BuildsInv
<1>6. ThreadBuilds(t)'
    BY <1>1, <1>2, <1>3, <1>4, <1>5 DEF ThreadBuilds, BuildsInv
<1> QED
    BY <1>1, <1>4, <1>5, <1>6, ConflictIDsPast, StepBuilds DEF BuildsInv, TransactionsBuild

(* Who becomes contested with a first consumer forks it. *)
LEMMA RegisterBuilds ==
    ASSUME BuildsInv, LedgerInv', NEW t \in TransactionID, NEW o \in OutputID, RegisterBookedConsumer(t, o)
    PROVE  BuildsInv' /\ LegalStep
<1> DEFINE th == thread[t]
           r  == Registered(t, o)
           fc == firstConsumer[o]
<1>1. /\ UNCHANGED <<dagVars, conflictIDs, consumers>>
      /\ firstConsumer' = [firstConsumer EXCEPT ![o] = IF @ = None THEN t ELSE @]
      /\ thread' = [thread EXCEPT ![t] = r] /\ th.pc = "register"
    BY DEF RegisterBookedConsumer, Running
<1>2. /\ firstConsumer'[o] = IF fc = None THEN t ELSE fc
      /\ \A q \in OutputID \ {o} : firstConsumer'[q] = firstConsumer[q]
    BY <1>1 DEF BuildsInv, LedgerInv, LedgerTypeOK
<1>3. /\ r.pc = "register" /\ r.inherited = th.inherited /\ r.visit = th.visit
      /\ r.conflicting = IF fc = None THEN th.conflicting ELSE th.conflicting \cup {o}
      /\ r.fork = IF fc = None THEN th.fork ELSE th.fork \cup {fc}
    <2>1. th \in Thread
        BY ThreadFields DEF BuildsInv, LedgerInv
    <2>2. CASE fc = None
        BY <2>1, <2>2, <1>1 DEF Registered, Thread
    <2>3. CASE fc # None
        BY <2>1, <2>3, <1>1 DEF Registered, Thread
    <2> QED
        BY <2>2, <2>3
<1> HIDE DEF r
<1>4. ConflictGraph' /\ Stored' = Stored /\ LegalStep
    BY <1>1, GraphKept DEF BuildsInv
<1>5. thread'[t] = r /\ \A u \in TransactionID \ {t} : thread'[u] = thread[u]
    BY <1>1, ThreadRecord DEF BuildsInv
<1>6. \A q \in OutputID : firstConsumer[q] # None => firstConsumer'[q] = firstConsumer[q]
    BY <1>2
<1>7. ASSUME NEW f \in r.fork
      PROVE  \E q \in r.conflicting : firstConsumer'[q] = f
    <2>1. CASE f \in th.fork
        <3>1. PICK q \in th.conflicting : firstConsumer[q] = f
            BY <2>1 DEF BuildsInv, ThreadBuilds
        <3>2. q \in OutputID /\ f \in TransactionID /\ f # None
            BY <2>1, ThreadFields, LedgerAssumption DEF BuildsInv, LedgerInv, TransactionID
        <3> QED
            BY <3>1, <3>2, <1>3, <1>6
    <2>2. CASE fc # None /\ f = fc
        BY <2>2, <1>2, <1>3
    <2> QED
        BY <2>1, <2>2, <1>3
<1>8. ThreadBuilds(t)'
    BY <1>1, <1>3, <1>4, <1>5, <1>7 DEF ThreadBuilds, BuildsInv
<1> QED
    BY <1>1, <1>4, <1>5, <1>6, <1>8, ConflictIDsPast, StepBuilds DEF BuildsInv, TransactionsBuild

(* A transaction is booked with what it has inherited, or with its own conflict. *)
LEMMA BookBuilds ==
    ASSUME BuildsInv, LedgerInv', NEW t \in TransactionID, BookWithoutConflict(t) \/ BookForked(t)
    PROVE  BuildsInv' /\ LegalStep
<1> DEFINE ids == IF thread[t].pc = "register" THEN thread[t].inherited ELSE {t}
<1>1. /\ UNCHANGED <<dagVars, firstConsumer, consumers>>
      /\ conflictIDs' = [conflictIDs EXCEPT ![t] = ids] /\ thread' = [thread EXCEPT ![t] = Idle]
    BY DEF BookWithoutConflict, BookForked, Book, Running
<1>2. ids \subseteq PastCone(t) \cap Stored
    BY PastSelf DEF BookWithoutConflict, BookForked, Running, BuildsInv, ThreadBuilds
<1> HIDE DEF ids
<1>3. \A c \in TransactionID : conflictIDs'[c] \subseteq PastCone(c) \cap Stored
    BY <1>1, <1>2, ConflictIDsPast DEF BuildsInv, LedgerInv, LedgerTypeOK
<1>4. thread'[t] = Idle /\ \A u \in TransactionID \ {t} : thread'[u] = thread[u]
    BY <1>1, ThreadRecord DEF BuildsInv
<1> QED
    BY <1>1, <1>3, <1>4, StartOrEnd DEF BuildsInv, TransactionsBuild

(* The contested transaction becomes a conflict under the conflicts it has inherited. *)
LEMMA BookConflictBuilds ==
    ASSUME BuildsInv, LedgerInv', NEW t \in TransactionID, BookConflict(t)
    PROVE  BuildsInv' /\ LegalStep
<1> DEFINE th == thread[t]
           r  == [th EXCEPT !.pc = "fork"]
<1>1. /\ CreateConflict(t, th.inherited, th.conflicting)
      /\ UNCHANGED <<conflictIDs, firstConsumer, consumers>>
      /\ thread' = [thread EXCEPT ![t] = r] /\ th.pc = "register" /\ th.conflicting # {}
    BY DEF BookConflict, Running, BuildsInv, LedgerInv, LedgerTypeOK
<1>2. /\ th.inherited \subseteq (PastCone(t) \ {t}) \cap Stored
      /\ th.inherited \in SUBSET ConflictID /\ th.conflicting \in SUBSET ResourceID
    BY ThreadFields DEF BuildsInv, LedgerInv, ThreadBuilds, TransactionID, OutputID
<1>3. th.conflicting \subseteq Inputs[t]
    BY <1>1 DEF BuildsInv, LedgerInv, DoubleSpendsKnown, RegisteredInputs, Checked
<1>4. /\ r.pc = "fork" /\ r.inherited = th.inherited /\ r.fork = th.fork
      /\ r.conflicting = th.conflicting /\ r.visit = th.visit
    BY ThreadFields DEF BuildsInv, LedgerInv, Thread
<1> HIDE DEF r
<1>5. ConflictGraph' /\ NextDAG /\ Stored' = Stored \cup {t}
    BY <1>1, <1>2, <1>3, CreateStep DEF BuildsInv, TransactionID
<1>6. thread'[t] = r /\ \A u \in TransactionID \ {t} : thread'[u] = thread[u]
    BY <1>1, ThreadRecord DEF BuildsInv
<1>7. ThreadBuilds(t)'
    BY <1>1, <1>4, <1>5, <1>6 DEF ThreadBuilds, BuildsInv
<1> QED
    BY <1>1, <1>5, <1>6, <1>7, ConflictIDsPast, StepBuilds DEF BuildsInv, TransactionsBuild, LegalStep

(* The first consumer becomes one under the conflicts that it had until then. *)
LEMMA ForkBuilds ==
    ASSUME BuildsInv, LedgerInv', NEW t \in TransactionID, NEW f \in TransactionID, ForkTransaction(t, f)
    PROVE  BuildsInv' /\ LegalStep
<1> DEFINE th == thread[t]
           r  == [th EXCEPT !.pc = "update", !.forked = f, !.previous = conflictIDs[f]]
           R  == ConflictingInputs(t, f)
<1>1. /\ CreateConflict(f, conflictIDs[f], R)
      /\ UNCHANGED <<conflictIDs, firstConsumer, consumers>>
      /\ thread' = [thread EXCEPT ![t] = r] /\ th.pc = "fork" /\ f \in th.fork
    <2>1. thread \in [TransactionID -> Thread]
        BY DEF BuildsInv, LedgerInv, LedgerTypeOK
    <2> QED
        BY <2>1 DEF ForkTransaction, Running
<1>2. f \notin Stored
    BY <1>1 DEF CreateConflict
<1>3. /\ conflictIDs[f] \subseteq (PastCone(f) \ {f}) \cap Stored
      /\ conflictIDs[f] \in SUBSET ConflictID
    BY <1>2, ConflictIDsPast DEF BuildsInv, LedgerInv, LedgerTypeOK, TransactionID
<1>4. R \in SUBSET ResourceID /\ R \subseteq Inputs[f] /\ R # {}
    <2>1. PICK o \in th.conflicting : firstConsumer[o] = f
        BY <1>1 DEF BuildsInv, ThreadBuilds
    <2>2. o \in OutputID /\ f # None
        BY ThreadFields, LedgerAssumption DEF BuildsInv, LedgerInv, TransactionID
    <2>3. o \in Inputs[f]
        BY <2>1, <2>2 DEF BuildsInv, LedgerInv, ConsumersKnown
    <2> QED
        BY <2>1, <2>3, InputsTyped DEF ConflictingInputs, OutputID
<1>5. /\ r.pc = "update" /\ r.inherited = th.inherited /\ r.fork = th.fork
      /\ r.conflicting = th.conflicting /\ r.visit = th.visit
      /\ r.forked = f /\ r.previous = conflictIDs[f]
    BY ThreadFields DEF BuildsInv, LedgerInv, Thread
<1> HIDE DEF r, R
<1>6. ConflictGraph' /\ NextDAG /\ Stored' = Stored \cup {f}
    BY <1>1, <1>3, <1>4, CreateStep DEF BuildsInv, TransactionID
<1>7. thread'[t] = r /\ \A u \in TransactionID \ {t} : thread'[u] = thread[u]
    BY <1>1, ThreadRecord DEF BuildsInv
<1>8. ThreadBuilds(t)'
    BY <1>1, <1>2, <1>3, <1>5, <1>6, <1>7 DEF ThreadBuilds, BuildsInv
<1> QED
    BY <1>1, <1>6, <1>7, <1>8, ConflictIDsPast, StepBuilds DEF BuildsInv, TransactionsBuild, LegalStep

(* A first consumer that is a conflict already competes for its contested inputs as well. *)
LEMMA ForkAgainBuilds ==
    ASSUME BuildsInv, LedgerInv', NEW t \in TransactionID, NEW f \in TransactionID, ForkConflicting(t, f)
    PROVE  BuildsInv' /\ LegalStep
<1> DEFINE th == thread[t]
           r  == [th EXCEPT !.fork = @ \ {f}]
           R  == ConflictingInputs(t, f)
<1>1. /\ UNCHANGED <<conflictIDs, firstConsumer, consumers>>
      /\ thread' = [thread EXCEPT ![t] = r] /\ th.pc = "fork"
    BY DEF ForkConflicting, Running, BuildsInv, LedgerInv, LedgerTypeOK
<1>2. PICK last \in R : UpdateConflictingResources(f, R, last)
    BY DEF ForkConflicting
<1>3. R \in SUBSET ResourceID /\ R \subseteq Inputs[f]
    BY InputsTyped DEF ConflictingInputs, OutputID
<1>4. /\ r.pc = "fork" /\ r.inherited = th.inherited /\ r.fork = th.fork \ {f}
      /\ r.conflicting = th.conflicting /\ r.visit = th.visit
    BY ThreadFields, <1>1 DEF BuildsInv, LedgerInv, Thread
<1> HIDE DEF r, R
<1>5. ConflictGraph' /\ NextDAG /\ Stored' = Stored
    BY <1>2, <1>3, JoinStep DEF BuildsInv, TransactionID
<1>6. thread'[t] = r /\ \A u \in TransactionID \ {t} : thread'[u] = thread[u]
    BY <1>1, ThreadRecord DEF BuildsInv
<1>7. ThreadBuilds(t)'
    BY <1>1, <1>4, <1>5, <1>6 DEF ThreadBuilds, BuildsInv
<1> QED
    BY <1>1, <1>5, <1>6, <1>7, ConflictIDsPast, StepBuilds DEF BuildsInv, TransactionsBuild, LegalStep

(* The outputs of a transaction lead to those that build on it. *)
LEMMA OutputsBuild ==
    ASSUME NEW d \in TransactionID, NEW f \in PastCone(d), NEW o \in OutputIDs(d)
    PROVE  Creator[o] # Genesis /\ f \in PastCone(Creator[o])
<1>1. Creator[o] = d
    BY DEF OutputIDs
<1> QED
    BY <1>1, LedgerAssumption DEF TransactionID

(* The conflicts of a transaction after a fork that it builds on. *)
LEMMA AfterForkBuilds ==
    ASSUME BuildsInv, NEW d \in TransactionID, NEW f \in PastCone(d) \cap Stored, NEW previous
    PROVE  ConflictIDsAfterFork(d, f, previous) \subseteq PastCone(d) \cap Stored
    BY ConflictIDsPast DEF ConflictIDsAfterFork, UnconfirmedConflicts

LEMMA UpdateForkedBuilds ==
    ASSUME BuildsInv, LedgerInv', NEW t \in TransactionID, UpdateForked(t)
    PROVE  BuildsInv' /\ LegalStep
<1> DEFINE th  == thread[t]
           f   == th.forked
           r   == [th EXCEPT !.pc = "walk", !.outputs = OutputIDs(f)]
           ids == ConflictIDsAfterFork(f, f, th.previous)
<1>1. /\ UNCHANGED <<dagVars, firstConsumer, consumers>>
      /\ conflictIDs' = [conflictIDs EXCEPT ![f] = ids]
      /\ thread' = [thread EXCEPT ![t] = r] /\ th.pc = "update"
    BY DEF UpdateForked, Running, BuildsInv, LedgerInv, LedgerTypeOK
<1>2. f \in TransactionID /\ f \in PastCone(f) \cap Stored
    BY <1>1, AfterForkTyped, PastSelf DEF BuildsInv, ThreadBuilds
<1>3. ids \subseteq PastCone(f) \cap Stored
    BY <1>2, AfterForkBuilds
<1>4. /\ r.pc = "walk" /\ r.inherited = th.inherited /\ r.fork = th.fork
      /\ r.conflicting = th.conflicting /\ r.visit = th.visit
      /\ r.forked = f /\ r.previous = th.previous /\ r.outputs = OutputIDs(f)
    BY ThreadFields DEF BuildsInv, LedgerInv, Thread
<1> HIDE DEF r, ids
<1>5. ConflictGraph' /\ Stored' = Stored /\ LegalStep
    BY <1>1, GraphKept DEF BuildsInv
<1>6. thread'[t] = r /\ \A u \in TransactionID \ {t} : thread'[u] = thread[u]
    BY <1>1, ThreadRecord DEF BuildsInv
<1>7. \A c \in TransactionID : conflictIDs'[c] \subseteq PastCone(c) \cap Stored
    BY <1>1, <1>3, ConflictIDsPast DEF BuildsInv, LedgerInv, LedgerTypeOK
<1>8. \A o \in OutputIDs(f) : Creator[o] # Genesis /\ f \in PastCone(Creator[o])
    BY <1>2, OutputsBuild
<1>9. ThreadBuilds(t)'
    BY <1>1, <1>4, <1>5, <1>6, <1>8 DEF ThreadBuilds, BuildsInv
<1> QED
    BY <1>1, <1>5, <1>6, <1>7, <1>9, StepBuilds DEF BuildsInv, TransactionsBuild

(* The walk goes on to the consumers of an output, which build on the forked transaction. *)
LEMMA WalkOutputBuilds ==
    ASSUME BuildsInv, LedgerInv', NEW t \in TransactionID, NEW o \in OutputID, WalkOutput(t, o)
    PROVE  BuildsInv' /\ LegalStep
<1> DEFINE th == thread[t]
           r  == [th EXCEPT !.outputs = @ \ {o}, !.visit = ConsumersOf({o}) \ th.seen]
<1>1. /\ UNCHANGED <<dagVars, conflictIDs, firstConsumer, consumers>>
      /\ thread' = [thread EXCEPT ![t] = r] /\ th.pc = "walk" /\ o \in th.outputs
    <2>1. thread \in [TransactionID -> Thread]
        BY DEF BuildsInv, LedgerInv, LedgerTypeOK
    <2> QED
        BY <2>1 DEF WalkOutput, Running
<1>2. Creator[o] # Genesis /\ th.forked \in PastCone(Creator[o])
    BY <1>1 DEF BuildsInv, ThreadBuilds
<1>3. \A d \in ConsumersOf({o}) : th.forked \in PastCone(d) \ {d}
    <2> SUFFICES ASSUME NEW d \in TransactionID, <<o, d>> \in consumers
                 PROVE  th.forked \in PastCone(d) \ {d}
        BY DEF ConsumersOf
    <2>1. o \in Inputs[d]
        BY DEF BuildsInv, TransactionsBuild
    <2>2. PastCone(Creator[o]) \subseteq PastCone(d) /\ d \notin PastCone(Creator[o])
        BY <1>2, <2>1, CreatorPast, CreatorsBefore
    <2> QED
        BY <1>2, <2>2
<1>4. /\ r.pc = "walk" /\ r.inherited = th.inherited /\ r.fork = th.fork
      /\ r.conflicting = th.conflicting /\ r.visit = ConsumersOf({o}) \ th.seen
      /\ r.forked = th.forked /\ r.previous = th.previous /\ r.outputs = th.outputs \ {o}
    BY ThreadFields, <1>1 DEF BuildsInv, LedgerInv, Thread
<1> HIDE DEF r
<1>5. ConflictGraph' /\ Stored' = Stored /\ LegalStep
    BY <1>1, GraphKept DEF BuildsInv
<1>6. thread'[t] = r /\ \A u \in TransactionID \ {t} : thread'[u] = thread[u]
    BY <1>1, ThreadRecord DEF BuildsInv
<1>7. ThreadBuilds(t)'
    <2>1. /\ \A q \in r.outputs : Creator[q] # Genesis /\ r.forked \in PastCone(Creator[q])
          /\ \A d \in r.visit : r.forked \in PastCone(d) \ {d}
        BY <1>1, <1>3, <1>4 DEF ThreadBuilds, BuildsInv
    <2>2. /\ r.inherited \subseteq (PastCone(t) \ {t}) \cap Stored
          /\ \A f \in r.fork : \E q \in r.conflicting : firstConsumer[q] = f
          /\ t \in Stored /\ r.forked \in Stored \ r.previous
        BY <1>1, <1>4 DEF ThreadBuilds, BuildsInv
    <2>3. firstConsumer' = firstConsumer /\ Stored' = Stored /\ thread'[t] = r /\ r.pc = "walk"
        BY <1>1, <1>4, <1>5, <1>6
    <2> QED
        BY <2>1, <2>2, <2>3 DEF ThreadBuilds
<1> QED
    BY <1>1, <1>5, <1>6, <1>7, ConflictIDsPast, StepBuilds DEF BuildsInv, TransactionsBuild

(* What the walk visits is re-parented or inherits the fork, and leads on to its own outputs. *)
LEMMA PropagateBuilds ==
    ASSUME BuildsInv, LedgerInv', NEW t \in TransactionID, NEW d \in TransactionID, PropagateForkedConflict(t, d)
    PROVE  BuildsInv' /\ LegalStep
<1> DEFINE th  == thread[t]
           f   == th.forked
           ids == ConflictIDsAfterFork(d, f, th.previous)
           r(pushed) == [th EXCEPT !.visit = @ \ {d}, !.seen = @ \cup {d}, !.outputs = @ \cup pushed]
<1>1. /\ UNCHANGED <<firstConsumer, consumers>>
      /\ th.pc = "walk" /\ d \in th.visit
    BY DEF PropagateForkedConflict, Running
<1>2. PICK pushed \in {{}, OutputIDs(d)} : thread' = [thread EXCEPT ![t] = r(pushed)]
    <2>1. thread \in [TransactionID -> Thread]
        BY DEF BuildsInv, LedgerInv, LedgerTypeOK
    <2> QED
        BY <2>1 DEF PropagateForkedConflict
<1>3. /\ r(pushed).pc = "walk" /\ r(pushed).inherited = th.inherited /\ r(pushed).fork = th.fork
      /\ r(pushed).conflicting = th.conflicting /\ r(pushed).visit = th.visit \ {d}
      /\ r(pushed).forked = f /\ r(pushed).previous = th.previous /\ r(pushed).outputs = th.outputs \cup pushed
    BY ThreadFields, <1>1 DEF BuildsInv, LedgerInv, Thread
<1>4. /\ f \in ConflictID /\ f \in Stored \ th.previous /\ f \in PastCone(d) \ {d}
      /\ th.previous \in SUBSET ConflictID
    BY <1>1, ThreadFields DEF BuildsInv, ThreadBuilds, LedgerInv, Stored, TransactionID
<1>5. conflictIDs' = conflictIDs \/ conflictIDs' = [conflictIDs EXCEPT ![d] = ids]
    BY DEF PropagateForkedConflict
<1>6. ids \subseteq PastCone(d) \cap Stored
    BY <1>4, AfterForkBuilds
<1> HIDE DEF r, ids
<1>7. ConflictGraph' /\ Stored' = Stored /\ LegalStep
    <2>1. CASE UNCHANGED dagVars
        BY <2>1, GraphKept DEF BuildsInv
    <2>2. CASE UpdateConflictParents(d, th.previous, f)
        BY <2>2, <1>4, ReparentStep DEF BuildsInv, TransactionID, LegalStep
    <2> QED
        BY <2>1, <2>2 DEF PropagateForkedConflict
<1>8. thread'[t] = r(pushed) /\ \A u \in TransactionID \ {t} : thread'[u] = thread[u]
    BY <1>2, ThreadRecord DEF BuildsInv
<1>9. \A c \in TransactionID : conflictIDs'[c] \subseteq PastCone(c) \cap Stored
    BY <1>5, <1>6, ConflictIDsPast DEF BuildsInv, LedgerInv, LedgerTypeOK
<1>10. \A o \in pushed : Creator[o] # Genesis /\ f \in PastCone(Creator[o])
    BY <1>4, OutputsBuild
<1>11. ThreadBuilds(t)'
    BY <1>1, <1>3, <1>7, <1>8, <1>10 DEF ThreadBuilds, BuildsInv
<1> QED
    BY <1>1, <1>7, <1>8, <1>9, <1>11, StepBuilds DEF BuildsInv, TransactionsBuild

LEMMA EndPropagationBuilds ==
    ASSUME BuildsInv, LedgerInv', NEW t \in TransactionID, EndPropagation(t)
    PROVE  BuildsInv' /\ LegalStep
<1> DEFINE th == thread[t]
           r  == [th EXCEPT !.pc = "fork", !.fork = @ \ {th.forked}, !.forked = None, !.previous = {}, !.seen = {}]
<1>1. /\ UNCHANGED <<dagVars, conflictIDs, firstConsumer, consumers>>
      /\ thread' = [thread EXCEPT ![t] = r] /\ th.pc = "walk" /\ th.visit = {}
    <2>1. thread \in [TransactionID -> Thread]
        BY DEF BuildsInv, LedgerInv, LedgerTypeOK
    <2> QED
        BY <2>1 DEF EndPropagation, Running
<1>2. /\ r.pc = "fork" /\ r.inherited = th.inherited /\ r.fork = th.fork \ {th.forked}
      /\ r.conflicting = th.conflicting /\ r.visit = th.visit
    BY ThreadFields DEF BuildsInv, LedgerInv, Thread
<1> HIDE DEF r
<1>3. ConflictGraph' /\ Stored' = Stored /\ LegalStep
    BY <1>1, GraphKept DEF BuildsInv
<1>4. thread'[t] = r /\ \A u \in TransactionID \ {t} : thread'[u] = thread[u]
    BY <1>1, ThreadRecord DEF BuildsInv
<1>5. ThreadBuilds(t)'
    BY <1>1, <1>2, <1>3, <1>4 DEF ThreadBuilds, BuildsInv
<1> QED
    BY <1>1, <1>3, <1>4, <1>5, ConflictIDsPast, StepBuilds DEF BuildsInv, TransactionsBuild

(* Steps of the conflict DAG that no thread notices. *)
LEMMA ConflictBuilds ==
    ASSUME BuildsInv, LedgerInv', NEW t \in TransactionID,
           AcceptConflict(t) \/ (TriggerConflictCreated(t) /\ UNCHANGED ledgerVars)
    PROVE  BuildsInv' /\ LegalStep
<1>1. UNCHANGED <<conflictIDs, firstConsumer, consumers, thread>>
    BY DEF AcceptConflict, ledgerVars, bookVars
<1>2. ConflictGraph' /\ NextDAG /\ Stored' = Stored
    <2>1. CASE AcceptConflict(t)
        BY <2>1, AcceptStep DEF AcceptConflict, BuildsInv, TransactionID
    <2>2. CASE TriggerConflictCreated(t)
        BY <2>2, AnnounceStep DEF BuildsInv, TransactionID
    <2> QED
        BY <2>1, <2>2
<1>3. ThreadBuilds(t)'
    BY <1>1, <1>2, OthersBuild DEF BuildsInv
<1> QED
    BY <1>1, <1>2, <1>3, ConflictIDsPast, StepBuilds DEF BuildsInv, TransactionsBuild, LegalStep

LEMMA InitBuilds == InitLedger => BuildsInv
<1> SUFFICES ASSUME InitLedger PROVE BuildsInv
    OBVIOUS
<1>1. InitDAG /\ LedgerInv
    BY InitEstablishesLedger DEF InitLedger
<1>2. DAGCore /\ AcceptedConflicts = {}
    <2>1. DAGInv
        BY <1>1, InitEstablishes
    <2> QED
        BY <1>1, <2>1, CoreAndInheritance DEF InitDAG, AcceptedConflicts, TransactionID, IsAccepted, Undefined, Accepted
<1>3. ConflictGraph
    BY <1>1, <1>2 DEF ConflictGraph, AcceptedCompatible, InitDAG
<1>4. TransactionsBuild
    BY InputsTyped DEF InitLedger, TransactionsBuild, TransactionID
<1>5. \A t \in TransactionID : ThreadBuilds(t)
    BY DEF InitLedger, ThreadBuilds, Idle
<1> QED
    BY <1>1, <1>3, <1>4, <1>5 DEF BuildsInv

(* Every step of the ledger is one that the conflict DAG allows, or does not see. *)
LEMMA StepImplementsDAG ==
    ASSUME BuildsInv, [NextLedger]_vars
    PROVE  BuildsInv' /\ LegalStep
<1>0. LedgerInv'
    BY StepPreservesLedger DEF BuildsInv
<1>1. CASE UNCHANGED vars
    <2>1. UNCHANGED dagVars /\ UNCHANGED <<conflictIDs, firstConsumer, consumers, thread>>
        BY <1>1 DEF vars, ledgerVars, bookVars
    <2>2. ConflictGraph' /\ Stored' = Stored /\ LegalStep
        BY <2>1, GraphKept DEF BuildsInv
    <2>3. TransactionsBuild'
        BY <2>1, <2>2 DEF BuildsInv, TransactionsBuild
    <2>4. \A t \in TransactionID : ThreadBuilds(t)'
        BY <2>1, <2>2, OthersBuild DEF BuildsInv
    <2> QED
        BY <1>0, <2>2, <2>3, <2>4 DEF BuildsInv
<1>2. ASSUME NEW t \in TransactionID, ThreadStep(t) PROVE BuildsInv' /\ LegalStep
    <2>1. CASE AbortProcessing(t)
        BY <1>0, <2>1, StartOrEndSteps
    <2>2. CASE InheritConflictIDs(t)
        BY <1>0, <2>2, InheritBuilds
    <2>3. ASSUME NEW o \in OutputID, RegisterBookedConsumer(t, o) PROVE BuildsInv' /\ LegalStep
        BY <1>0, <2>3, RegisterBuilds
    <2>4. ASSUME NEW o \in OutputID, WalkOutput(t, o) PROVE BuildsInv' /\ LegalStep
        BY <1>0, <2>4, WalkOutputBuilds
    <2>5. CASE BookWithoutConflict(t) \/ BookForked(t)
        BY <1>0, <2>5, BookBuilds
    <2>6. CASE BookConflict(t)
        BY <1>0, <2>6, BookConflictBuilds
    <2>7. ASSUME NEW f \in TransactionID, ForkTransaction(t, f) PROVE BuildsInv' /\ LegalStep
        BY <1>0, <2>7, ForkBuilds
    <2>8. ASSUME NEW f \in TransactionID, ForkConflicting(t, f) PROVE BuildsInv' /\ LegalStep
        BY <1>0, <2>8, ForkAgainBuilds
    <2>9. CASE UpdateForked(t)
        BY <1>0, <2>9, UpdateForkedBuilds
    <2>10. CASE EndPropagation(t)
        BY <1>0, <2>10, EndPropagationBuilds
    <2>11. ASSUME NEW d \in TransactionID, PropagateForkedConflict(t, d) PROVE BuildsInv' /\ LegalStep
        BY <1>0, <2>11, PropagateBuilds
    <2>12. CASE TriggerConflictCreated(t) /\ UNCHANGED ledgerVars
        BY <1>0, <2>12, ConflictBuilds
    <2> QED
        BY <1>2, <2>1, <2>2, <2>3, <2>4, <2>5, <2>6, <2>7, <2>8, <2>9, <2>10, <2>11, <2>12 DEF ThreadStep
<1>3. ASSUME NEW t \in TransactionID, HandlerStep(t) PROVE BuildsInv' /\ LegalStep
    BY <1>0, <1>3, StartOrEndSteps, HandlersBuild DEF HandlerStep
<1>4. ASSUME NEW t \in TransactionID, StoreTransaction(t) PROVE BuildsInv' /\ LegalStep
    BY <1>0, <1>4, StartOrEndSteps
<1>5. ASSUME NEW t \in TransactionID, SetTransactionInclusionTime(t) \/ AcceptConflict(t)
      PROVE  BuildsInv' /\ LegalStep
    BY <1>0, <1>5, HandlersBuild, ConflictBuilds
<1> QED
    BY <1>1, <1>2, <1>3, <1>4, <1>5 DEF NextLedger, Booking, Progress, Consensus

(* Transactions, threads and conflicts refer to what they build on, in every reachable state. *)
THEOREM BuildsInvariant == SpecLedger => []BuildsInv
<1>1. InitLedger => BuildsInv
    BY InitBuilds
<1>2. BuildsInv /\ [NextLedger]_vars => BuildsInv'
    BY StepImplementsDAG
<1> QED
    BY <1>1, <1>2, PTL DEF SpecLedger

(* The ledger implements the conflict DAG, but for the late re-parenting: no thread ever creates a  *)
(* conflict under one that does not exist or over nothing, closes a cycle of parents, or brings two *)
(* accepted conflicts into one conflict set.                                                        *)
THEOREM LedgerImplementsDAG == SpecLedger => ImplementsDAG
<1>1. InitLedger => InitDAG
    BY DEF InitLedger
<1>2. BuildsInv /\ [NextLedger]_vars => [NextDAG \/ LateReparenting]_dagVars
    BY StepImplementsDAG DEF LegalStep
<1> QED
    BY <1>1, <1>2, BuildsInvariant, PTL DEF SpecLedger, ImplementsDAG

(* No two conflicts over the same output are both accepted in the ledger: the promise that the       *)
(* conflict DAG makes to callers that keep its contracts holds with the callers it has.              *)
THEOREM LedgerNoConflictingAccepted == SpecLedger => []NoConflictingAccepted
<1>1. BuildsInv => NoConflictingAccepted
    BY DEF BuildsInv, ConflictGraph, DAGCore
<1> QED
    BY <1>1, BuildsInvariant, PTL

(* What is accepted stays accepted, although the walk over the losers of an acceptance would reject  *)
(* an accepted conflict as well: it never meets one.                                                 *)
LEMMA StepKeepsAccepted ==
    ASSUME BuildsInv, [NextLedger]_vars
    PROVE  AcceptedConflicts \subseteq AcceptedConflicts'
<1>0. /\ confirmationState \in [ConflictID -> State]
      /\ \A c \in ConflictID : c \notin Stored => ~IsAccepted(confirmationState[c])
    BY DEF BuildsInv, ConflictGraph, DAGCore, TypeOK, Stored, IsAccepted, Undefined, Accepted
<1>1. ASSUME confirmationState' = confirmationState
      PROVE  AcceptedConflicts \subseteq AcceptedConflicts'
    BY <1>1 DEF AcceptedConflicts
<1>2. ASSUME NEW id \in ConflictID, NEW P, NEW R, CreateConflict(id, P, R)
      PROVE  AcceptedConflicts \subseteq AcceptedConflicts'
    BY <1>0, <1>2 DEF CreateConflict, AcceptedConflicts
<1>3. CASE UNCHANGED vars
    BY <1>1, <1>3 DEF vars, dagVars
<1>4. ASSUME NEW t \in TransactionID, ThreadStep(t)
      PROVE  AcceptedConflicts \subseteq AcceptedConflicts'
    <2>1. CASE AbortProcessing(t) \/ InheritConflictIDs(t) \/ BookWithoutConflict(t) \/ BookForked(t)
               \/ UpdateForked(t) \/ EndPropagation(t)
        BY <1>1, <2>1 DEF AbortProcessing, InheritConflictIDs, BookWithoutConflict, BookForked, Book,
                          UpdateForked, EndPropagation, dagVars
    <2>2. ASSUME NEW o \in OutputID, RegisterBookedConsumer(t, o) \/ WalkOutput(t, o)
          PROVE  AcceptedConflicts \subseteq AcceptedConflicts'
        BY <1>1, <2>2 DEF RegisterBookedConsumer, WalkOutput, dagVars
    <2>3. CASE BookConflict(t)
        BY <1>2, <2>3 DEF BookConflict, TransactionID
    <2>4. ASSUME NEW f \in TransactionID, ForkTransaction(t, f) \/ ForkConflicting(t, f)
          PROVE  AcceptedConflicts \subseteq AcceptedConflicts'
        BY <1>1, <1>2, <2>4 DEF ForkTransaction, ForkConflicting, UpdateConflictingResources, TransactionID
    <2>5. ASSUME NEW d \in TransactionID, PropagateForkedConflict(t, d)
          PROVE  AcceptedConflicts \subseteq AcceptedConflicts'
        BY <1>1, <2>5 DEF PropagateForkedConflict, UpdateConflictParents, dagVars
    <2>6. CASE TriggerConflictCreated(t)
        BY <1>1, <2>6 DEF TriggerConflictCreated
    <2> QED
        BY <1>4, <2>1, <2>2, <2>3, <2>4, <2>5, <2>6 DEF ThreadStep
<1>5. ASSUME NEW t \in TransactionID, HandlerStep(t) \/ StoreTransaction(t) \/ SetTransactionInclusionTime(t)
      PROVE  AcceptedConflicts \subseteq AcceptedConflicts'
    BY <1>1, <1>5 DEF HandlerStep, ProcessTransaction, ProcessConsumingTransactions, PruneTransaction,
                      PropagateAcceptance, PropagateRejection, StoreTransaction, SetTransactionInclusionTime, dagVars
<1>6. ASSUME NEW t \in TransactionID, AcceptConflict(t)
      PROVE  AcceptedConflicts \subseteq AcceptedConflicts'
    BY <1>6, AcceptStep DEF AcceptConflict, BuildsInv, TransactionID
<1> QED
    BY <1>3, <1>4, <1>5, <1>6 DEF NextLedger, Booking, Progress, Consensus

(* An accepted conflict of the ledger is never rejected or forgotten again. *)
THEOREM AcceptanceIsFinal == SpecLedger => [][AcceptedConflicts \subseteq AcceptedConflicts']_vars
<1>1. BuildsInv /\ [NextLedger]_vars => [AcceptedConflicts \subseteq AcceptedConflicts']_vars
    BY StepKeepsAccepted
<1> QED
    BY <1>1, BuildsInvariant, PTL DEF SpecLedger

-----------------------------------------------------------------------------
(***************************************************************************)
(* Inheritance of conflicts.  What a transaction stands for is compared    *)
(* with what the creators of its inputs stand for, in every state: nothing *)
(* of theirs is missing unless a walk is on its way with it, and nothing   *)
(* is there that they do not bring.  When all threads are idle no walk is  *)
(* on its way, and induction over the inputs gives ConflictsInherited.     *)
(***************************************************************************)

(* T holds what is accepted and, with every conflict that is not, its parents. *)
Closed(T, P, A) == A \subseteq T /\ \A c \in T : c \in A \/ P[c] \subseteq T

(* What the conflicts in S stand for: the least closed set that holds them. *)
CoveredBy(S, P, A) ==
    {c \in ConflictID : \A T \in SUBSET ConflictID : S \subseteq T /\ Closed(T, P, A) => c \in T}

(* In this state, and in the next one. *)
Covered(S) == CoveredBy(S, parents, AcceptedConflicts)
CoveredNext(S) == CoveredBy(S, parents', AcceptedConflicts')

(* t is booked, or is being booked and has inherited its conflicts: they are the parents of the   *)
(* conflict it is, or else its ConflictIDs.                                                       *)
Has(t) == t \in booked \/ Checked(t)

Own(t) == IF t \in Stored THEN parents[t] ELSE IF t \in booked THEN conflictIDs[t] ELSE thread[t].inherited

(* Who books or forks a transaction holds its lock. *)
LocksHeld ==
    \A t \in TransactionID :
        /\ thread[t].pc # "idle" => lock[t] = t
        /\ thread[t].pc = "update" => thread[t].forked # t /\ lock[thread[t].forked] = t

(* The first consumer of an output, which a double spend forks, has its conflicts. *)
FirstConsumersHave == \A o \in OutputID, f \in TransactionID : firstConsumer[o] = f => Has(f)

(* c is accepted, or someone has inherited it. *)
Used(c) == c \in AcceptedConflicts \/ \E x \in TransactionID : c \in parents[x] \cup conflictIDs[x] \cup thread[x].inherited

(* c books itself as a conflict and forks its competitors. *)
Forking(c) == thread[c].pc \in {"fork", "update", "walk"}

(* c is about to be booked as a conflict, or forked into one. *)
Making(c) == Forking(c) \/ \E w \in TransactionID : thread[w].pc = "update" /\ thread[w].forked = c

(* A conflict that is not among its own ConflictIDs yet soon will be, and nobody uses it before. *)
FreshConflicts ==
    \A c \in Stored :
        /\ c \in booked \/ Forking(c)
        /\ IsConflicting(c) \/ (Making(c) /\ ~Used(c))

(* The creator of o is booked and c is among the conflicts that it stands for. *)
Brings(c, o) == Creator[o] \in booked /\ c \in Covered(conflictIDs[Creator[o]])

(* The walk of thread w: what it is going to visit builds on the fork, and what it has visited *)
(* has inherited it.                                                                           *)
Spreads(w) ==
    LET th == thread[w] IN
    /\ th.pc = "update" => th.forked \in booked /\ conflictIDs[th.forked] = th.previous
    /\ th.pc \in {"update", "walk"} => th.previous \subseteq Covered({th.forked})
    /\ th.pc # "walk" => th.seen = {}
    /\ th.pc = "walk" =>
        /\ IsConflicting(th.forked)
        /\ \A o \in th.outputs : Brings(th.forked, o)
        /\ \A d \in th.visit \cup th.seen : \E o \in Inputs[d] : Brings(th.forked, o)
        /\ \A d \in th.seen : Has(d) => th.forked \in Covered(Own(d))

(* A walk that spreads c will come to t. *)
Awaits(t, c) ==
    \E w \in TransactionID :
        /\ thread[w].pc = "walk" /\ thread[w].forked = c
        /\ t \in thread[w].visit \/ (t \notin thread[w].seen /\ Inputs[t] \cap thread[w].outputs # {})

(* What the inputs of t stand for t stands for as well, now or when the fork has spread ... *)
PassedOn ==
    \A t \in TransactionID : Has(t) =>
        \A o \in Inputs[t] : Creator[o] # Genesis =>
            \A c \in conflictIDs[Creator[o]] : c \in Covered(Own(t)) \/ Awaits(t, c)

(* ... and nothing else. *)
Justified ==
    \A t \in TransactionID : Has(t) =>
        \A c \in Own(t) : c \in AcceptedConflicts \/ \E o \in Inputs[t] : Brings(c, o)

(* The invariant. *)
InheritInv ==
    /\ BuildsInv
    /\ LocksHeld /\ FirstConsumersHave
    /\ FreshConflicts
    /\ \A w \in TransactionID : Spreads(w)
    /\ PassedOn /\ Justified

(* What S stands for holds S and what is accepted, is closed, and is the least such set. *)
LEMMA CoverLaws ==
    ASSUME NEW P \in [ConflictID -> SUBSET ConflictID], NEW A \in SUBSET ConflictID, NEW S \in SUBSET ConflictID
    PROVE  /\ S \subseteq CoveredBy(S, P, A) /\ A \subseteq CoveredBy(S, P, A)
           /\ CoveredBy(S, P, A) \in SUBSET ConflictID /\ Closed(CoveredBy(S, P, A), P, A)
           /\ \A T \in SUBSET ConflictID : S \subseteq T /\ Closed(T, P, A) => CoveredBy(S, P, A) \subseteq T
<1> DEFINE C == CoveredBy(S, P, A)
<1>1. S \subseteq C /\ A \subseteq C /\ C \in SUBSET ConflictID
    BY DEF CoveredBy, Closed
<1>2. ASSUME NEW c \in C, c \notin A, NEW p \in P[c]
      PROVE  p \in C
    <2>1. p \in ConflictID /\ c \in ConflictID
        BY <1>1
    <2>2. ASSUME NEW T \in SUBSET ConflictID, S \subseteq T, Closed(T, P, A)
          PROVE  p \in T
        BY <1>2, <2>2 DEF CoveredBy, Closed
    <2> QED
        BY <2>1, <2>2 DEF CoveredBy
<1>3. \A T \in SUBSET ConflictID : S \subseteq T /\ Closed(T, P, A) => C \subseteq T
    BY DEF CoveredBy
<1> QED
    BY <1>1, <1>2, <1>3 DEF Closed

(* The laws in a state, and in the next one. *)
LEMMA Covers ==
    ASSUME TypeOK, NEW S \in SUBSET ConflictID
    PROVE  /\ S \subseteq Covered(S) /\ AcceptedConflicts \subseteq Covered(S) /\ Covered(S) \in SUBSET ConflictID
           /\ \A c \in Covered(S) : c \in AcceptedConflicts \/ parents[c] \subseteq Covered(S)
           /\ \A T \in SUBSET ConflictID : S \subseteq T /\ Closed(T, parents, AcceptedConflicts) => Covered(S) \subseteq T
<1>1. AcceptedConflicts \in SUBSET ConflictID /\ parents \in [ConflictID -> SUBSET ConflictID]
    BY DEF AcceptedConflicts, TypeOK, TransactionID
<1> QED
    BY <1>1, CoverLaws DEF Covered, Closed

LEMMA CoversNext ==
    ASSUME TypeOK', NEW S \in SUBSET ConflictID
    PROVE  /\ S \subseteq CoveredNext(S) /\ AcceptedConflicts' \subseteq CoveredNext(S) /\ CoveredNext(S) \in SUBSET ConflictID
           /\ \A c \in CoveredNext(S) : c \in AcceptedConflicts' \/ parents'[c] \subseteq CoveredNext(S)
           /\ \A T \in SUBSET ConflictID : S \subseteq T /\ Closed(T, parents', AcceptedConflicts') => CoveredNext(S) \subseteq T
<1>1. AcceptedConflicts' \in SUBSET ConflictID /\ parents' \in [ConflictID -> SUBSET ConflictID]
    BY DEF AcceptedConflicts, TypeOK, TransactionID
<1> QED
    BY <1>1, CoverLaws DEF CoveredNext, Closed

(* Whoever stands for S stands for what S stands for. *)
LEMMA CoverWithin ==
    ASSUME TypeOK, NEW S \in SUBSET ConflictID, NEW T \in SUBSET ConflictID, S \subseteq Covered(T)
    PROVE  Covered(S) \subseteq Covered(T)
    BY Covers DEF Closed

LEMMA CoverWithinNext ==
    ASSUME TypeOK', NEW S \in SUBSET ConflictID, NEW T \in SUBSET ConflictID, S \subseteq CoveredNext(T)
    PROVE  CoveredNext(S) \subseteq CoveredNext(T)
    BY CoversNext DEF Closed

(* What a step may do to the conflicts without taking away what they stand for. *)
LEMMA CoverGrows ==
    ASSUME TypeOK, TypeOK', AcceptedConflicts \subseteq AcceptedConflicts',
           \A c \in ConflictID \ AcceptedConflicts : parents[c] \subseteq CoveredNext({c})
    PROVE  \A S \in SUBSET ConflictID : Covered(S) \subseteq CoveredNext(S)
<1> SUFFICES ASSUME NEW S \in SUBSET ConflictID PROVE Covered(S) \subseteq CoveredNext(S)
    OBVIOUS
<1>1. /\ S \subseteq CoveredNext(S) /\ AcceptedConflicts' \subseteq CoveredNext(S) /\ CoveredNext(S) \in SUBSET ConflictID
    BY CoversNext
<1>2. ASSUME NEW c \in CoveredNext(S), c \notin AcceptedConflicts
      PROVE  parents[c] \subseteq CoveredNext(S)
    <2>1. c \in ConflictID /\ {c} \in SUBSET ConflictID /\ {c} \subseteq CoveredNext(S)
        BY <1>1
    <2>2. CoveredNext({c}) \subseteq CoveredNext(S)
        BY <2>1, CoverWithinNext
    <2> QED
        BY <1>2, <2>1, <2>2
<1>3. Closed(CoveredNext(S), parents, AcceptedConflicts)
    BY <1>1, <1>2 DEF Closed
<1> QED
    BY <1>1, <1>3, Covers

(* A step that changes neither parents nor acceptance changes nothing. *)
LEMMA CoverSame ==
    ASSUME parents' = parents, AcceptedConflicts' = AcceptedConflicts
    PROVE  \A S : CoveredNext(S) = Covered(S)
    BY DEF Covered, CoveredNext

(* A new conflict is not accepted. *)
LEMMA CreatedPending ==
    ASSUME TypeOK, NEW id \in ConflictID, NEW P, NEW R, CreateConflict(id, P, R)
    PROVE  AcceptedConflicts' = AcceptedConflicts /\ id \notin AcceptedConflicts
<1>1. confirmationState' = [confirmationState EXCEPT ![id] = NewState(id, P, R)] /\ id \notin Stored
    BY DEF CreateConflict
<1>2. NewState(id, P, R) \in {Rejected, Pending}
    BY DEF NewState
<1> QED
    BY <1>1, <1>2 DEF AcceptedConflicts, IsAccepted, Stored, TypeOK, Undefined, Rejected, Pending, Accepted, TransactionID

(* What is accepted is a conflict. *)
LEMMA AcceptedStored == AcceptedConflicts \subseteq Stored
    BY DEF AcceptedConflicts, Stored, IsAccepted, Accepted, Undefined, TransactionID

(* The parents of what is accepted are accepted with it. *)
LEMMA ParentsAccepted ==
    ASSUME TypeOK, NEW id \in ConflictID, NEW c \in NewlyAccepted(id), NEW p \in parents[c],
           parents[c] \subseteq Stored
    PROVE  p \in AcceptedConflicts \cup NewlyAccepted(id)
<1>1. c \in ConflictID /\ p \in Stored /\ p \in ConflictID
    BY AcceptedUpwards DEF Stored
<1>2. p \in NewlyAccepted(id) \/ confirmationState[p] = Accepted
    BY <1>1, AcceptedUpwards
<1> QED
    BY <1>1, <1>2 DEF AcceptedConflicts, IsAccepted, Accepted, TransactionID

(* What is known of a transaction that has its conflicts. *)
LEMMA OwnKnown ==
    ASSUME BuildsInv, NEW t \in TransactionID
    PROVE  /\ conflictIDs[t] \in SUBSET Stored /\ parents[t] \in SUBSET Stored
           /\ thread[t].inherited \in SUBSET Stored /\ Own(t) \in SUBSET Stored
           /\ Stored \subseteq ConflictID /\ TransactionID = ConflictID
<1>1. conflictIDs[t] \in SUBSET Stored /\ parents[t] \in SUBSET Stored
    BY ConflictIDsPast DEF BuildsInv, ConflictGraph, DAGCore, TransactionID
<1>2. thread[t].inherited \in SUBSET Stored
    BY DEF BuildsInv, ThreadBuilds
<1> QED
    BY <1>1, <1>2 DEF Own, Stored, TransactionID

(* The same of the next state. *)
LEMMA OwnKnownNext ==
    ASSUME BuildsInv', NEW t \in TransactionID
    PROVE  Own(t)' \in SUBSET ConflictID /\ conflictIDs'[t] \in SUBSET Stored'
<1>1. conflictIDs'[t] \in SUBSET Stored' /\ parents'[t] \in SUBSET Stored'
    BY DEF BuildsInv, TransactionsBuild, ConflictGraph, DAGCore, TransactionID
<1>2. thread'[t].inherited \in SUBSET Stored'
    BY DEF BuildsInv, ThreadBuilds
<1>3. Stored' \subseteq ConflictID
    BY DEF Stored
<1>4. Own(t)' \in {parents'[t], conflictIDs'[t], thread'[t].inherited}
    BY DEF Own
<1> QED
    BY <1>1, <1>2, <1>3, <1>4

(* A transaction that has its conflicts is stored and its inputs are booked. *)
LEMMA HasKnown ==
    ASSUME BuildsInv, NEW t \in TransactionID
    PROVE  /\ thread[t].pc # "idle" => t \notin booked
           /\ Has(t) => t \in stored
           /\ Has(t) => \A o \in Inputs[t] : Creator[o] # Genesis => Creator[o] \in booked
           /\ booked \subseteq stored /\ booked \subseteq TransactionID /\ Genesis \notin booked
<1>1. LedgerInv /\ LedgerTypeOK
    BY DEF BuildsInv, LedgerInv
<1>2. booked \subseteq stored /\ booked \subseteq TransactionID /\ Genesis \notin booked
    BY <1>1, InputsTyped DEF LedgerTypeOK
<1>3. thread[t].pc # "idle" => t \in submitted \ booked
    BY <1>1 DEF LedgerInv, ConsumersKnown
<1>4. Checked(t) => t \in stored
    BY <1>1, <1>3 DEF LedgerInv, PrunedDoomed, Checked
<1>5. Has(t) => IsSolid(t)
    BY <1>1 DEF LedgerInv, InputsUnrelated, Has
<1> QED
    BY <1>2, <1>3, <1>4, <1>5 DEF Has, IsSolid

(* What was inherited stays inherited. *)
Keeps ==
    /\ AcceptedConflicts \subseteq AcceptedConflicts'
    /\ \A S \in SUBSET ConflictID : Covered(S) \subseteq CoveredNext(S)
    /\ \A u \in booked : u \in booked' /\ conflictIDs[u] \subseteq CoveredNext(conflictIDs'[u])
    /\ \A t \in TransactionID : Has(t) => Has(t)' /\ Own(t) \subseteq CoveredNext(Own(t)')

(* ... with all that it stands for. *)
LEMMA KeepsCovered ==
    ASSUME BuildsInv, BuildsInv', Keeps
    PROVE  /\ \A u \in booked : Covered(conflictIDs[u]) \subseteq CoveredNext(conflictIDs'[u])
           /\ \A t \in TransactionID : Has(t) => Covered(Own(t)) \subseteq CoveredNext(Own(t)')
           /\ \A c, o : Brings(c, o) => Brings(c, o)'
<1>0. TypeOK'
    BY DEF BuildsInv, ConflictGraph, DAGCore
<1>1. ASSUME NEW u \in booked
      PROVE  Covered(conflictIDs[u]) \subseteq CoveredNext(conflictIDs'[u])
    <2>1. u \in TransactionID /\ conflictIDs[u] \in SUBSET ConflictID /\ conflictIDs'[u] \in SUBSET ConflictID
        BY HasKnown, OwnKnown DEF BuildsInv, LedgerInv, LedgerTypeOK, TransactionID
    <2>2. Covered(conflictIDs[u]) \subseteq CoveredNext(conflictIDs[u])
        BY <2>1 DEF Keeps
    <2> QED
        BY <1>0, <2>1, <2>2, CoverWithinNext DEF Keeps
<1>2. ASSUME NEW t \in TransactionID, Has(t)
      PROVE  Covered(Own(t)) \subseteq CoveredNext(Own(t)')
    <2>1. Own(t) \in SUBSET ConflictID
        BY OwnKnown
    <2>2. Own(t)' \in SUBSET ConflictID
        BY OwnKnownNext
    <2>3. Covered(Own(t)) \subseteq CoveredNext(Own(t))
        BY <2>1 DEF Keeps
    <2> QED
        BY <1>0, <1>2, <2>1, <2>2, <2>3, CoverWithinNext DEF Keeps
<1>3. ASSUME NEW c, NEW o, Brings(c, o)
      PROVE  Brings(c, o)'
    BY <1>1, <1>3 DEF Brings, Keeps, Covered, CoveredNext
<1> QED
    BY <1>1, <1>2, <1>3

(* Who has its conflicts from now on has taken over those of its inputs. *)
Newcomers ==
    \A x \in TransactionID : Has(x)' /\ ~Has(x) =>
        \A o \in Inputs[x] : Creator[o] # Genesis => conflictIDs[Creator[o]] \subseteq CoveredNext(Own(x)')

(* ... and with them all that those stand for. *)
LEMMA NewcomersCover ==
    ASSUME BuildsInv, BuildsInv', Keeps, Newcomers, NEW x \in TransactionID, Has(x)', ~Has(x),
           NEW o \in Inputs[x], NEW c, Brings(c, o)
    PROVE  c \in CoveredNext(Own(x)')
<1> DEFINE u == Creator[o]
<1>1. u \in booked /\ u # Genesis /\ u \in TransactionID /\ c \in Covered(conflictIDs[u])
    BY HasKnown DEF Brings
<1>2. conflictIDs[u] \in SUBSET ConflictID /\ Own(x)' \in SUBSET ConflictID
    BY <1>1, OwnKnown, OwnKnownNext
<1>3. conflictIDs[u] \subseteq CoveredNext(Own(x)')
    BY <1>1 DEF Newcomers
<1>4. CoveredNext(conflictIDs[u]) \subseteq CoveredNext(Own(x)')
    BY <1>2, <1>3, CoverWithinNext DEF BuildsInv, ConflictGraph, DAGCore
<1> QED
    BY <1>1, <1>2, <1>4 DEF Keeps

(* A walk that the step does not touch. *)
LEMMA SpreadsOn ==
    ASSUME BuildsInv, BuildsInv', Keeps, Newcomers, NEW w \in TransactionID, Spreads(w), thread'[w] = thread[w],
           thread[w].pc \in {"update", "walk"} => conflictIDs'[thread[w].forked] = conflictIDs[thread[w].forked]
    PROVE  Spreads(w)'
<1> DEFINE th == thread[w]
<1>1. CASE th.pc \notin {"update", "walk"}
    BY <1>1 DEF Spreads
<1>2. CASE th.pc \in {"update", "walk"}
    <2>1. th.forked \in ConflictID
        BY <1>2 DEF BuildsInv, ThreadBuilds, Stored
    <2>2. th.previous \subseteq CoveredNext({th.forked})
        BY <1>2, <2>1 DEF Keeps, Spreads
    <2>3. th.pc = "update" => th.forked \in booked' /\ conflictIDs'[th.forked] = th.previous
        BY DEF Keeps, Spreads
    <2>4. th.pc = "walk" =>
            /\ conflictIDs'[th.forked] = {th.forked}
            /\ \A o \in th.outputs : Brings(th.forked, o)'
            /\ \A d \in th.visit \cup th.seen : \E o \in Inputs[d] : Brings(th.forked, o)'
        BY KeepsCovered DEF Spreads, IsConflicting
    <2>5. ASSUME th.pc = "walk", NEW d \in th.seen, Has(d)'
          PROVE  th.forked \in CoveredNext(Own(d)')
        <3>1. d \in TransactionID
            BY ThreadFields DEF BuildsInv, LedgerInv
        <3>2. CASE Has(d)
            BY <2>5, <3>1, <3>2, KeepsCovered DEF Spreads
        <3>3. CASE ~Has(d)
            <4>1. PICK o \in Inputs[d] : Brings(th.forked, o)
                BY <2>5 DEF Spreads
            <4> QED
                BY <2>5, <3>1, <3>3, <4>1, NewcomersCover
        <3> QED
            BY <3>2, <3>3
    <2>6. th.pc # "walk" => th.seen = {}
        BY DEF Spreads
    <2> QED
        BY <1>2, <2>2, <2>3, <2>4, <2>5, <2>6 DEF Spreads, IsConflicting, Covered, CoveredNext
<1> QED
    BY <1>1, <1>2

(* A step that loses nothing that was inherited and drops no visit that is due. *)
LEMMA PassedOnStep ==
    ASSUME BuildsInv, BuildsInv', Keeps, Newcomers, PassedOn,
           \A x \in TransactionID : Has(x) => \A c : Awaits(x, c) => Awaits(x, c)' \/ c \in CoveredNext(Own(x)'),
           \A x \in TransactionID : Has(x)' => \A o \in Inputs[x] : Creator[o] # Genesis =>
                \A c \in conflictIDs'[Creator[o]] :
                    c \in conflictIDs[Creator[o]] \/ c \in CoveredNext(Own(x)') \/ Awaits(x, c)'
    PROVE  PassedOn'
<1> SUFFICES ASSUME NEW x \in TransactionID, Has(x)', NEW o \in Inputs[x], Creator[o] # Genesis,
                    NEW c \in conflictIDs'[Creator[o]]
             PROVE  c \in CoveredNext(Own(x)') \/ Awaits(x, c)'
    BY DEF PassedOn, Covered, CoveredNext
<1>1. CASE c \notin conflictIDs[Creator[o]]
    BY <1>1
<1>2. CASE c \in conflictIDs[Creator[o]] /\ ~Has(x)
    BY <1>2 DEF Newcomers
<1>3. CASE c \in conflictIDs[Creator[o]] /\ Has(x)
    BY <1>3, KeepsCovered DEF PassedOn
<1> QED
    BY <1>1, <1>2, <1>3

(* A step after which transactions have new conflicts from their inputs only. *)
LEMMA JustifiedStep ==
    ASSUME BuildsInv, BuildsInv', Keeps, Justified,
           \A x \in TransactionID : Has(x)' => \A c \in Own(x)' :
                (Has(x) /\ c \in Own(x)) \/ c \in AcceptedConflicts \/ \E o \in Inputs[x] : Brings(c, o)
    PROVE  Justified'
<1> SUFFICES ASSUME NEW x \in TransactionID, Has(x)', NEW c \in Own(x)'
             PROVE  c \in AcceptedConflicts' \/ \E o \in Inputs[x] : Brings(c, o)'
    BY DEF Justified
<1>1. c \in AcceptedConflicts \/ \E o \in Inputs[x] : Brings(c, o)
    BY DEF Justified
<1> QED
    BY <1>1, KeepsCovered DEF Keeps

(* A step that uses no fresh conflict before it is booked or forked. *)
LEMMA FreshStep ==
    ASSUME BuildsInv, BuildsInv', FreshConflicts,
           Stored \subseteq Stored', booked \subseteq booked',
           \A c \in Stored : Forking(c) => Forking(c)' \/ c \in booked',
           \A c \in Stored : IsConflicting(c) => IsConflicting(c)',
           \A c \in Stored : Making(c) => Making(c)' \/ IsConflicting(c)',
           \A c \in Stored : Used(c)' => Used(c) \/ IsConflicting(c)',
           \A c \in Stored' \ Stored : (c \in booked' \/ Forking(c)') /\ Making(c)' /\ ~Used(c)'
    PROVE  FreshConflicts'
    BY DEF FreshConflicts

(* A step of t that books, forks and re-parents nothing; pruning forgets the conflicts of what is *)
(* not booked.                                                                                    *)
Steady(t) ==
    /\ UNCHANGED <<parents, confirmationState, booked>>
    /\ \A c \in TransactionID :
            conflictIDs'[c] = conflictIDs[c] \/ (c \notin booked /\ c \notin Stored /\ conflictIDs'[c] = {})
    /\ \A u \in TransactionID \ {t} : thread'[u] = thread[u]
    /\ thread[t].pc = "update" \/ thread'[t].pc = "update" => thread'[t] = thread[t]
    /\ (Forking(t)' <=> Forking(t)) /\ (Checked(t)' <=> Checked(t))
    /\ thread'[t].inherited = thread[t].inherited \/ (~Checked(t) /\ thread'[t].inherited = {})

(* Such a step leaves all conflicts, and who has which, as they are ... *)
LEMMA SteadyKeeps ==
    ASSUME BuildsInv, BuildsInv', NEW t \in TransactionID, Steady(t)
    PROVE  /\ Keeps /\ Newcomers /\ \A S : CoveredNext(S) = Covered(S)
           /\ Stored' = Stored /\ AcceptedConflicts' = AcceptedConflicts
           /\ \A x \in TransactionID : (Has(x)' <=> Has(x)) /\ (Has(x) => Own(x)' = Own(x))
<1>1. Stored' = Stored /\ AcceptedConflicts' = AcceptedConflicts
    BY DEF Steady, Stored, AcceptedConflicts
<1>2. \A S : CoveredNext(S) = Covered(S)
    BY <1>1, CoverSame DEF Steady
<1>3. ASSUME NEW x \in TransactionID
      PROVE  (Has(x)' <=> Has(x)) /\ (Has(x) => Own(x)' = Own(x))
    <2>1. Has(x)' <=> Has(x)
        BY DEF Steady, Has, Checked
    <2>2. Has(x) /\ x \notin booked => thread'[x].inherited = thread[x].inherited
        BY DEF Steady, Has
    <2>3. x \in booked \/ x \in Stored => conflictIDs'[x] = conflictIDs[x]
        BY DEF Steady
    <2> QED
        BY <1>1, <2>1, <2>2, <2>3 DEF Own, Steady
<1>4. ASSUME NEW S \in SUBSET ConflictID
      PROVE  S \subseteq Covered(S)
    BY Covers DEF BuildsInv, ConflictGraph, DAGCore
<1>5. ASSUME NEW u \in booked
      PROVE  u \in booked' /\ conflictIDs[u] \subseteq CoveredNext(conflictIDs'[u])
    <2>1. u \in TransactionID /\ conflictIDs[u] \in SUBSET ConflictID
        BY HasKnown, OwnKnown
    <2> QED
        BY <1>2, <1>4, <2>1 DEF Steady
<1>6. ASSUME NEW x \in TransactionID, Has(x)
      PROVE  Own(x) \subseteq CoveredNext(Own(x)')
    <2>1. Own(x) \in SUBSET ConflictID
        BY OwnKnown
    <2> QED
        BY <1>2, <1>3, <1>4, <1>6, <2>1
<1>7. Keeps
    BY <1>1, <1>2, <1>3, <1>5, <1>6 DEF Keeps
<1> QED
    BY <1>1, <1>2, <1>3, <1>7 DEF Newcomers

(* ... and with them the invariant. *)
LEMMA SteadyStep ==
    ASSUME InheritInv, BuildsInv', NEW t \in TransactionID, Steady(t), LocksHeld', Spreads(t)',
           \A o \in OutputID : firstConsumer'[o] = firstConsumer[o] \/ (firstConsumer'[o] = t /\ Checked(t)),
           \A x \in TransactionID : Has(x) => \A c : Awaits(x, c) => Awaits(x, c)'
    PROVE  InheritInv'
<1>1. /\ Keeps /\ Newcomers /\ \A S : CoveredNext(S) = Covered(S)
      /\ Stored' = Stored /\ AcceptedConflicts' = AcceptedConflicts
      /\ \A x \in TransactionID : (Has(x)' <=> Has(x)) /\ (Has(x) => Own(x)' = Own(x))
    BY SteadyKeeps DEF InheritInv
<1>2. FirstConsumersHave'
    BY <1>1 DEF InheritInv, FirstConsumersHave, Has
<1>3. FreshConflicts'
    <2>1. \A c \in Stored : c \in TransactionID /\ conflictIDs'[c] = conflictIDs[c]
        BY DEF Steady, Stored, TransactionID
    <2>2. \A c \in Stored : /\ Forking(c) => Forking(c)'
                            /\ IsConflicting(c) => IsConflicting(c)'
        BY <2>1 DEF Steady, Forking, IsConflicting
    <2>3. \A c \in Stored : Making(c) => Making(c)'
        BY <2>1, <2>2 DEF Making, Steady
    <2>4. \A c \in Stored : Used(c)' => Used(c)
        BY <1>1 DEF Used, Steady
    <2> QED
        BY <1>1, <2>2, <2>3, <2>4, FreshStep DEF InheritInv, Steady
<1>4. ASSUME NEW w \in TransactionID PROVE Spreads(w)'
    <2>1. CASE w = t
        BY <2>1
    <2>2. CASE w # t
        <3>1. thread'[w] = thread[w]
            BY <2>2 DEF Steady
        <3>2. thread[w].pc \in {"update", "walk"} => thread[w].forked \in Stored /\ thread[w].forked \in TransactionID
            BY DEF InheritInv, BuildsInv, ThreadBuilds, Stored, TransactionID
        <3>3. thread[w].pc \in {"update", "walk"} => conflictIDs'[thread[w].forked] = conflictIDs[thread[w].forked]
            BY <3>2 DEF Steady
        <3> QED
            BY <1>1, <3>1, <3>3, SpreadsOn DEF InheritInv
    <2> QED
        BY <2>1, <2>2
<1>5. PassedOn'
    <2>1. ASSUME NEW x \in TransactionID, Has(x)', NEW o \in Inputs[x], Creator[o] # Genesis
          PROVE  conflictIDs'[Creator[o]] \subseteq conflictIDs[Creator[o]]
        <3>1. Creator[o] \in TransactionID
            BY <2>1, InputsTyped
        <3> QED
            BY <3>1 DEF Steady
    <2> QED
        BY <1>1, <2>1, PassedOnStep DEF InheritInv
<1>6. Justified'
    BY <1>1, JustifiedStep DEF InheritInv
<1> QED
    BY <1>2, <1>3, <1>4, <1>5, <1>6 DEF InheritInv

(* What the walks of the other threads are going to visit they go on to visit. *)
LEMMA AwaitsOn ==
    ASSUME NEW t \in TransactionID, \A u \in TransactionID \ {t} : thread'[u] = thread[u],
           thread'[t] = thread[t] \/ thread[t].pc # "walk"
    PROVE  \A x \in TransactionID : \A c : Awaits(x, c) => Awaits(x, c)'
    BY DEF Awaits

(* A step of t that takes no lock away from the others. *)
LEMMA LocksStep ==
    ASSUME LocksHeld, NEW t \in TransactionID, \A u \in TransactionID \ {t} : thread'[u] = thread[u],
           thread'[t].pc # "idle" => lock'[t] = t,
           thread'[t].pc = "update" => thread'[t].forked # t /\ lock'[thread'[t].forked] = t,
           \A u \in TransactionID \ {t} : lock[u] = u => lock'[u] = u,
           \A u \in TransactionID \ {t} : thread[u].pc = "update" /\ lock[thread[u].forked] = u
                => lock'[thread[u].forked] = u
    PROVE  LocksHeld'
<1> SUFFICES ASSUME NEW u \in TransactionID
             PROVE  /\ thread'[u].pc # "idle" => lock'[u] = u
                    /\ thread'[u].pc = "update" => thread'[u].forked # u /\ lock'[thread'[u].forked] = u
    BY DEF LocksHeld
<1>1. CASE u = t
    BY <1>1
<1>2. CASE u # t
    BY <1>2 DEF LocksHeld
<1> QED
    BY <1>1, <1>2

(* ... and none at all. *)
LEMMA SameLocks ==
    ASSUME LocksHeld, NEW t \in TransactionID, \A u \in TransactionID \ {t} : thread'[u] = thread[u],
           lock' = lock, thread[t].pc # "idle", thread'[t].pc # "update"
    PROVE  LocksHeld'
    BY LocksStep DEF LocksHeld

(* What is neither booked nor about to be booked as a conflict is no conflict. *)
LEMMA NotStored ==
    ASSUME InheritInv, NEW t \in TransactionID, t \notin booked, ~Forking(t)
    PROVE  t \notin Stored
    BY DEF InheritInv, FreshConflicts

(* A step that only starts or ends the processing of t, which has no conflicts yet. *)
LEMMA SteadyStart ==
    ASSUME InheritInv, BuildsInv', NEW t \in TransactionID,
           UNCHANGED <<parents, confirmationState, booked, conflictIDs, firstConsumer>>,
           thread[t].pc \in {"idle", "check"}, t \notin booked,
           thread'[t] \in {Idle, [Idle EXCEPT !.pc = "check"], [Idle EXCEPT !.pc = "check", !.own = TRUE]},
           \A u \in TransactionID \ {t} : thread'[u] = thread[u],
           LocksHeld'
    PROVE  InheritInv'
<1>1. thread'[t].pc \in {"idle", "check"} /\ thread'[t].inherited = {} /\ thread'[t].seen = {}
    <2>1. CASE thread'[t] = Idle
        BY <2>1 DEF Idle
    <2>2. CASE thread'[t] = [Idle EXCEPT !.pc = "check"]
        BY <2>2 DEF Idle
    <2>3. CASE thread'[t] = [Idle EXCEPT !.pc = "check", !.own = TRUE]
        BY <2>3 DEF Idle
    <2> QED
        BY <2>1, <2>2, <2>3
<1>2. Steady(t) /\ Spreads(t)'
    BY <1>1 DEF Steady, Forking, Checked, Spreads
<1> QED
    BY <1>2, SteadyStep, AwaitsOn

(* The beginning of a booking, and its early end. *)
LEMMA StartInherits ==
    ASSUME InheritInv, BuildsInv', NEW t \in TransactionID,
           StoreTransaction(t) \/ ProcessTransaction(t) \/ AbortProcessing(t)
    PROVE  InheritInv'
<1>1. LedgerInv /\ LedgerTypeOK /\ LocksHeld
    BY DEF InheritInv, BuildsInv, LedgerInv
<1>2. /\ UNCHANGED <<parents, confirmationState, booked, conflictIDs, firstConsumer>>
      /\ \A u \in TransactionID \ {t} : thread'[u] = thread[u]
    <2>1. thread \in [TransactionID -> Thread]
        BY <1>1 DEF LedgerTypeOK
    <2> QED
        BY <2>1 DEF StoreTransaction, ProcessTransaction, AbortProcessing, dagVars
<1>3. ASSUME NEW u \in TransactionID, thread[u].pc = "update"
      PROVE  thread[u].forked \in TransactionID /\ thread[u].forked \in booked /\ lock[thread[u].forked] = u
    BY <1>3, HasKnown DEF InheritInv, Spreads, LocksHeld
<1>4. CASE StoreTransaction(t)
    <2>1. t \notin booked /\ thread[t].pc = "idle"
        BY <1>1, <1>4, HasKnown DEF StoreTransaction, LedgerInv, LedgerTypeOK, ConsumersKnown
    <2>2. thread'[t] = [Idle EXCEPT !.pc = "check", !.own = TRUE]
        BY <1>1, <1>4 DEF StoreTransaction, LedgerTypeOK
    <2>3. lock'[t] = t /\ \A x \in TransactionID : x # t => lock'[x] = lock[x]
        BY <1>1, <1>4 DEF StoreTransaction, LedgerTypeOK
    <2>4. thread'[t].pc = "check"
        BY <2>2 DEF Idle
    <2>5. LocksHeld'
        BY <1>1, <1>2, <1>3, <2>1, <2>3, <2>4, LocksStep
    <2> QED
        BY <1>2, <2>1, <2>2, <2>5, SteadyStart
<1>5. CASE ProcessTransaction(t) /\ t \in stored \ booked
    <2>1. t \notin booked /\ thread[t].pc = "idle"
        BY <1>1, <1>5, InputsTyped DEF ProcessTransaction, LocksHeld
    <2>2. thread'[t] = [Idle EXCEPT !.pc = "check"]
        BY <1>1, <1>5 DEF ProcessTransaction, LedgerTypeOK
    <2>3. lock'[t] = t /\ \A x \in TransactionID : x # t => lock'[x] = lock[x]
        BY <1>1, <1>5 DEF ProcessTransaction, LedgerTypeOK
    <2>4. thread'[t].pc = "check"
        BY <2>2 DEF Idle
    <2>5. LocksHeld'
        BY <1>1, <1>2, <1>3, <2>1, <2>3, <2>4, LocksStep
    <2> QED
        BY <1>2, <2>1, <2>2, <2>5, SteadyStart
<1>6. CASE ProcessTransaction(t) /\ t \notin stored \ booked
    <2>1. UNCHANGED <<lock, thread>>
        BY <1>6 DEF ProcessTransaction
    <2>2. LocksHeld' /\ Steady(t)
        BY <1>1, <1>2, <2>1 DEF LocksHeld, Steady, Forking, Checked
    <2>3. Spreads(t)'
        BY <1>2, <2>1, <2>2, SteadyKeeps, SpreadsOn DEF InheritInv
    <2> QED
        BY <1>2, <2>1, <2>2, <2>3, SteadyStep, AwaitsOn
<1>7. CASE AbortProcessing(t)
    <2>1. t \notin booked /\ thread[t].pc = "check" /\ lock[t] = t
        BY <1>1, <1>7, HasKnown DEF AbortProcessing, Running, InheritInv, LocksHeld
    <2>2. thread'[t] = Idle /\ \A x \in TransactionID : x # t => lock'[x] = lock[x]
        BY <1>1, <1>7 DEF AbortProcessing, LedgerTypeOK, Unlock
    <2>3. thread'[t].pc = "idle"
        BY <2>2, IdleTyped
    <2>4. LocksHeld'
        BY <1>1, <1>2, <1>3, <2>1, <2>2, <2>3, LocksStep
    <2> QED
        BY <1>2, <2>1, <2>2, <2>4, SteadyStart
<1> QED
    BY <1>4, <1>5, <1>6, <1>7

(* A step that no thread takes part in. *)
LEMMA SteadyThreads ==
    ASSUME InheritInv, BuildsInv', NEW t \in TransactionID,
           UNCHANGED <<parents, confirmationState, booked, firstConsumer, lock, thread>>,
           \A c \in TransactionID :
                conflictIDs'[c] = conflictIDs[c] \/ (c \notin booked /\ c \notin Stored /\ conflictIDs'[c] = {})
    PROVE  InheritInv'
<1>1. LocksHeld' /\ Steady(t)
    BY DEF InheritInv, LocksHeld, Steady, Forking, Checked
<1>2. thread[t].pc \in {"update", "walk"} => thread[t].forked \in Stored /\ thread[t].forked \in TransactionID
    BY DEF InheritInv, BuildsInv, ThreadBuilds, Stored, TransactionID
<1>3. thread[t].pc \in {"update", "walk"} => conflictIDs'[thread[t].forked] = conflictIDs[thread[t].forked]
    BY <1>2
<1>4. Spreads(t)'
    BY <1>1, <1>3, SteadyKeeps, SpreadsOn DEF InheritInv
<1> QED
    BY <1>1, <1>4, SteadyStep, AwaitsOn

(* The event handlers, the pruning and the ConflictCreated event. *)
LEMMA HandlersInherit ==
    ASSUME InheritInv, BuildsInv', NEW t \in TransactionID,
           \/ ProcessConsumingTransactions(t) \/ PropagateAcceptance(t) \/ PropagateRejection(t)
           \/ SetTransactionInclusionTime(t) \/ PruneTransaction(t)
           \/ TriggerConflictCreated(t) /\ UNCHANGED ledgerVars
           \/ UNCHANGED vars
    PROVE  InheritInv'
<1>1. CASE PruneTransaction(t)
    <2>1. ~Checked(t) /\ t \notin booked /\ Pruned(t) \subseteq {t} /\ booked' = booked
        BY <1>1, OnlyUnbookedPruned DEF InheritInv, BuildsInv
    <2>2. t \notin Stored
        BY <2>1, NotStored DEF Checked, Forking
    <2>3. /\ UNCHANGED <<parents, confirmationState, firstConsumer, lock, thread>>
          /\ conflictIDs' = [x \in TransactionID |-> IF x \in Pruned(t) THEN {} ELSE conflictIDs[x]]
        BY <1>1 DEF PruneTransaction, dagVars
    <2> QED
        BY <2>1, <2>2, <2>3, SteadyThreads
<1>2. CASE ~PruneTransaction(t)
    <2>1. UNCHANGED <<parents, confirmationState, bookVars>>
        BY <1>2 DEF ProcessConsumingTransactions, PropagateAcceptance, PropagateRejection,
                    SetTransactionInclusionTime, TriggerConflictCreated, ledgerVars, vars, dagVars
    <2> QED
        BY <2>1, SteadyThreads DEF bookVars
<1> QED
    BY <1>1, <1>2

(* Steps of a thread that has its conflicts already, between two changes of the conflicts. *)
LEMMA RegisterInherits ==
    ASSUME InheritInv, BuildsInv', NEW t \in TransactionID, NEW o \in OutputID, RegisterBookedConsumer(t, o)
    PROVE  InheritInv'
<1> DEFINE th == thread[t]
           r  == Registered(t, o)
<1>1. /\ UNCHANGED <<dagVars, booked, conflictIDs, lock>>
      /\ firstConsumer' = [firstConsumer EXCEPT ![o] = IF @ = None THEN t ELSE @]
      /\ thread' = [thread EXCEPT ![t] = r] /\ th.pc = "register"
    BY DEF RegisterBookedConsumer, Running
<1>2. r.pc = "register" /\ r.inherited = th.inherited /\ r.seen = th.seen
    <2>1. th \in Thread
        BY ThreadFields DEF InheritInv, BuildsInv, LedgerInv
    <2>2. CASE firstConsumer[o] = None
        BY <2>1, <2>2, <1>1 DEF Registered, Thread
    <2>3. CASE firstConsumer[o] # None
        BY <2>1, <2>3, <1>1 DEF Registered, Thread
    <2> QED
        BY <2>2, <2>3
<1> HIDE DEF r
<1>3. thread'[t] = r /\ \A u \in TransactionID \ {t} : thread'[u] = thread[u]
    BY <1>1, ThreadRecord DEF InheritInv, BuildsInv
<1>4. Checked(t) /\ Steady(t) /\ Spreads(t)' /\ LocksHeld'
    BY <1>1, <1>2, <1>3, SameLocks DEF InheritInv, Steady, Forking, Checked, Spreads, dagVars
<1>5. \A q \in OutputID : firstConsumer'[q] = firstConsumer[q] \/ firstConsumer'[q] = t
    BY <1>1 DEF InheritInv, BuildsInv, LedgerInv, LedgerTypeOK
<1> QED
    BY <1>1, <1>3, <1>4, <1>5, SteadyStep, AwaitsOn

(* Joining further conflict sets gives a conflict no other parents. *)
LEMMA ForkAgainInherits ==
    ASSUME InheritInv, BuildsInv', NEW t \in TransactionID, NEW f \in TransactionID, ForkConflicting(t, f)
    PROVE  InheritInv'
<1> DEFINE th == thread[t]
           r  == [th EXCEPT !.fork = @ \ {f}]
<1>1. /\ UNCHANGED <<parents, confirmationState, booked, conflictIDs, firstConsumer, lock>>
      /\ thread' = [thread EXCEPT ![t] = r] /\ th.pc = "fork"
    <2>1. thread \in [TransactionID -> Thread]
        BY DEF InheritInv, BuildsInv, LedgerInv, LedgerTypeOK
    <2> QED
        BY <2>1 DEF ForkConflicting, Running, UpdateConflictingResources
<1>2. r.pc = "fork" /\ r.inherited = th.inherited /\ r.seen = th.seen
    BY <1>1, ThreadFields DEF InheritInv, BuildsInv, LedgerInv, Thread
<1> HIDE DEF r
<1>3. thread'[t] = r /\ \A u \in TransactionID \ {t} : thread'[u] = thread[u]
    BY <1>1, ThreadRecord DEF InheritInv, BuildsInv
<1>4. Steady(t) /\ Spreads(t)' /\ LocksHeld'
    BY <1>1, <1>2, <1>3, SameLocks DEF InheritInv, Steady, Forking, Checked, Spreads
<1> QED
    BY <1>1, <1>3, <1>4, SteadyStep, AwaitsOn

(* Nobody awaits a walk that is over. *)
LEMMA EndInherits ==
    ASSUME InheritInv, BuildsInv', NEW t \in TransactionID, EndPropagation(t)
    PROVE  InheritInv'
<1> DEFINE th == thread[t]
           r  == [th EXCEPT !.pc = "fork", !.fork = @ \ {th.forked}, !.forked = None, !.previous = {}, !.seen = {}]
<1>1. /\ UNCHANGED <<dagVars, booked, conflictIDs, firstConsumer, lock>>
      /\ thread' = [thread EXCEPT ![t] = r] /\ th.pc = "walk" /\ th.visit = {} /\ th.outputs = {}
    <2>1. thread \in [TransactionID -> Thread]
        BY DEF InheritInv, BuildsInv, LedgerInv, LedgerTypeOK
    <2> QED
        BY <2>1 DEF EndPropagation, Running
<1>2. r.pc = "fork" /\ r.inherited = th.inherited /\ r.seen = {}
    BY <1>1, ThreadFields DEF InheritInv, BuildsInv, LedgerInv, Thread
<1> HIDE DEF r
<1>3. thread'[t] = r /\ \A u \in TransactionID \ {t} : thread'[u] = thread[u]
    BY <1>1, ThreadRecord DEF InheritInv, BuildsInv
<1>4. Steady(t) /\ Spreads(t)' /\ LocksHeld'
    BY <1>1, <1>2, <1>3, SameLocks DEF InheritInv, Steady, Forking, Checked, Spreads, dagVars
<1>5. \A x \in TransactionID : \A c : Awaits(x, c) => Awaits(x, c)'
    BY <1>1, <1>3 DEF Awaits
<1> QED
    BY <1>1, <1>4, <1>5, SteadyStep

(* The Consumer references lead to every transaction that has its conflicts. *)
LEMMA WalkOutputInherits ==
    ASSUME InheritInv, BuildsInv', NEW t \in TransactionID, NEW o \in OutputID, WalkOutput(t, o)
    PROVE  InheritInv'
<1> DEFINE th == thread[t]
           r  == [th EXCEPT !.outputs = @ \ {o}, !.visit = ConsumersOf({o}) \ th.seen]
<1>1. /\ UNCHANGED <<dagVars, booked, conflictIDs, firstConsumer, lock>>
      /\ thread' = [thread EXCEPT ![t] = r] /\ th.pc = "walk" /\ th.visit = {} /\ o \in th.outputs
    <2>1. thread \in [TransactionID -> Thread]
        BY DEF InheritInv, BuildsInv, LedgerInv, LedgerTypeOK
    <2> QED
        BY <2>1 DEF WalkOutput, Running
<1>2. /\ r.pc = "walk" /\ r.inherited = th.inherited /\ r.seen = th.seen /\ r.forked = th.forked
      /\ r.previous = th.previous /\ r.outputs = th.outputs \ {o} /\ r.visit = ConsumersOf({o}) \ th.seen
    BY <1>1, ThreadFields DEF InheritInv, BuildsInv, LedgerInv, Thread
<1> HIDE DEF r
<1>3. thread'[t] = r /\ \A u \in TransactionID \ {t} : thread'[u] = thread[u]
    BY <1>1, ThreadRecord DEF InheritInv, BuildsInv
<1>4. Steady(t) /\ LocksHeld'
    BY <1>1, <1>2, <1>3, SameLocks DEF InheritInv, Steady, Forking, Checked, dagVars
<1>5. Spreads(t)'
    <2>0. PICK f : f = th.forked
        OBVIOUS
    <2>1. /\ \A c, q : Brings(c, q) => Brings(c, q)'
          /\ \A S : CoveredNext(S) = Covered(S)
          /\ \A x \in TransactionID : (Has(x)' <=> Has(x)) /\ (Has(x) => Own(x)' = Own(x))
        BY <1>4, SteadyKeeps, KeepsCovered DEF InheritInv
    <2>2. \A d \in ConsumersOf({o}) : o \in Inputs[d]
        BY DEF ConsumersOf, InheritInv, BuildsInv, TransactionsBuild
    <2>3. /\ \A q \in th.outputs : Brings(f, q)
          /\ \A d \in th.visit \cup th.seen : \E q \in Inputs[d] : Brings(f, q)
          /\ \A d \in th.seen : d \in TransactionID /\ (Has(d) => f \in Covered(Own(d)))
          /\ IsConflicting(f) /\ th.previous \subseteq Covered({f})
        BY <1>1, <2>0, ThreadFields DEF InheritInv, Spreads, BuildsInv, LedgerInv
    <2>4. /\ \A q \in r.outputs : Brings(f, q)'
          /\ \A d \in r.visit \cup r.seen : \E q \in Inputs[d] : Brings(f, q)'
        <3>1. \A q \in th.outputs : Brings(f, q)'
            BY <2>1, <2>3
        <3>2. \A d \in ConsumersOf({o}) : \E q \in Inputs[d] : Brings(f, q)'
            BY <1>1, <2>2, <3>1
        <3>3. \A d \in th.seen : \E q \in Inputs[d] : Brings(f, q)'
            BY <2>1, <2>3
        <3> QED
            BY <1>2, <3>1, <3>2, <3>3
    <2>5. \A d \in r.seen : Has(d)' => f \in CoveredNext(Own(d)')
        BY <1>2, <2>1, <2>3
    <2>6. conflictIDs'[f] = {f} /\ th.previous \subseteq CoveredNext({f})
        BY <1>1, <2>1, <2>3 DEF IsConflicting
    <2> QED
        BY <1>2, <1>3, <2>0, <2>4, <2>5, <2>6 DEF Spreads, Covered, CoveredNext, IsConflicting
<1>6. ASSUME NEW x \in TransactionID, Has(x), NEW c, Awaits(x, c)
      PROVE  Awaits(x, c)'
    <2>1. PICK w \in TransactionID :
                /\ thread[w].pc = "walk" /\ thread[w].forked = c
                /\ x \in thread[w].visit \/ (x \notin thread[w].seen /\ Inputs[x] \cap thread[w].outputs # {})
        BY <1>6 DEF Awaits
    <2>2. CASE w # t
        BY <1>3, <2>1, <2>2 DEF Awaits
    <2>3. CASE w = t /\ o \in Inputs[x]
        <3>1. <<o, x>> \in consumers
            BY <1>6, <2>3, HasKnown DEF InheritInv, BuildsInv, LedgerInv, ConsumersKnown
        <3> QED
            BY <1>1, <1>2, <1>3, <2>1, <2>3, <3>1 DEF Awaits, ConsumersOf
    <2>4. CASE w = t /\ o \notin Inputs[x]
        BY <1>1, <1>2, <1>3, <2>1, <2>4 DEF Awaits
    <2> QED
        BY <2>2, <2>3, <2>4
<1> QED
    BY <1>1, <1>4, <1>5, <1>6, SteadyStep

(* A step of t that changes what some transactions inherit. *)
LEMMA InheritStep ==
    ASSUME InheritInv, BuildsInv', NEW t \in TransactionID, Keeps, Newcomers, LocksHeld', FreshConflicts',
           \A u \in TransactionID \ {t} : thread'[u] = thread[u], firstConsumer' = firstConsumer, Spreads(t)',
           \A u \in TransactionID \ {t} : thread[u].pc \in {"update", "walk"} =>
                conflictIDs'[thread[u].forked] = conflictIDs[thread[u].forked],
           PassedOn', Justified'
    PROVE  InheritInv'
<1>1. ASSUME NEW u \in TransactionID PROVE Spreads(u)'
    <2>1. CASE u = t
        BY <2>1
    <2>2. CASE u # t
        BY <2>2, SpreadsOn DEF InheritInv
    <2> QED
        BY <2>1, <2>2
<1>2. FirstConsumersHave'
    <2>1. \A x \in TransactionID : Has(x) => Has(x)'
        BY DEF Keeps
    <2> QED
        BY <2>1 DEF InheritInv, FirstConsumersHave
<1> QED
    BY <1>1, <1>2 DEF InheritInv

(* A transaction inherits what its inputs stand for, and then has its conflicts. *)
LEMMA InheritInherits ==
    ASSUME InheritInv, BuildsInv', NEW t \in TransactionID, InheritConflictIDs(t)
    PROVE  InheritInv'
<1> DEFINE ids == UnconfirmedConflicts(InputConflictIDs(t))
           th  == thread[t]
           r   == [th EXCEPT !.pc = "register", !.register = Inputs[t], !.inherited = ids]
<1>1. /\ UNCHANGED <<dagVars, booked, conflictIDs, firstConsumer, lock>>
      /\ thread' = [thread EXCEPT ![t] = r] /\ th.pc = "check" /\ IsSolid(t)
    BY DEF InheritConflictIDs, Running, InheritInv, BuildsInv, LedgerInv, LedgerTypeOK
<1>2. r.pc = "register" /\ r.inherited = ids /\ r.seen = th.seen
    BY <1>1, ThreadFields DEF InheritInv, BuildsInv, LedgerInv, Thread
<1>3. /\ \A c \in ids : \E o \in Inputs[t] : Creator[o] # Genesis /\ c \in conflictIDs[Creator[o]]
      /\ \A o \in Inputs[t] : Creator[o] # Genesis => conflictIDs[Creator[o]] \subseteq ids \cup AcceptedConflicts
    <2>1. \A o \in Inputs[t] : Creator[o] # Genesis => conflictIDs[Creator[o]] \subseteq TransactionID
        BY InputsTyped DEF InheritInv, BuildsInv, LedgerInv, LedgerTypeOK
    <2> QED
        BY <2>1 DEF UnconfirmedConflicts, InputConflictIDs, AcceptedConflicts
<1> HIDE DEF r, ids
<1>4. thread'[t] = r /\ \A u \in TransactionID \ {t} : thread'[u] = thread[u]
    BY <1>1, ThreadRecord DEF InheritInv, BuildsInv
<1>5. t \notin booked /\ t \notin Stored /\ ~Has(t)
    BY <1>1, HasKnown, NotStored DEF InheritInv, Forking, Has, Checked
<1>6. /\ Stored' = Stored /\ AcceptedConflicts' = AcceptedConflicts /\ parents' = parents
      /\ \A S : CoveredNext(S) = Covered(S)
    <2>1. Stored' = Stored /\ AcceptedConflicts' = AcceptedConflicts /\ parents' = parents
        BY <1>1 DEF dagVars, Stored, AcceptedConflicts
    <2> QED
        BY <2>1, CoverSame
<1>7. /\ \A x \in TransactionID \ {t} : (Has(x)' <=> Has(x)) /\ Own(x)' = Own(x)
      /\ Own(t)' = ids
    BY <1>1, <1>2, <1>4, <1>5, <1>6 DEF Has, Checked, Own
<1>8. \A S \in SUBSET ConflictID : S \subseteq Covered(S) /\ AcceptedConflicts \subseteq Covered(S)
    BY Covers DEF InheritInv, BuildsInv, ConflictGraph, DAGCore
<1>9. Keeps
    <2>1. \A u \in booked : u \in booked' /\ conflictIDs[u] \subseteq CoveredNext(conflictIDs'[u])
        BY <1>1, <1>6, <1>8, HasKnown, OwnKnown DEF InheritInv
    <2>2. \A x \in TransactionID : Has(x) => Has(x)' /\ Own(x) \subseteq CoveredNext(Own(x)')
        BY <1>5, <1>6, <1>7, <1>8, OwnKnown DEF InheritInv
    <2> QED
        BY <1>6, <2>1, <2>2 DEF Keeps
<1>10. Newcomers
    <2>1. ids \in SUBSET ConflictID
        BY <1>7, OwnKnownNext
    <2>2. ids \cup AcceptedConflicts \subseteq CoveredNext(ids)
        BY <1>6, <1>8, <2>1
    <2> QED
        BY <1>3, <1>7, <2>2 DEF Newcomers
<1>11. FreshConflicts'
    <2>1. \A c \in Stored : (Forking(c) => Forking(c)') /\ (IsConflicting(c) => IsConflicting(c)')
        BY <1>1, <1>2, <1>4, <1>5 DEF Forking, IsConflicting, Stored, TransactionID
    <2>2. \A c \in Stored : Making(c) => Making(c)'
        BY <1>1, <1>4, <2>1 DEF Making
    <2>3. \A c : c \in ids => Used(c)
        BY <1>3, InputsTyped DEF Used
    <2>4. \A c \in Stored : Used(c)' => Used(c)
        BY <1>1, <1>2, <1>4, <1>6, <2>3 DEF Used
    <2> QED
        BY <1>1, <1>6, <2>1, <2>2, <2>4, FreshStep DEF InheritInv
<1>12. PassedOn'
    <2>1. \A x \in TransactionID : Has(x) => \A c : Awaits(x, c) => Awaits(x, c)'
        BY <1>1, <1>4, AwaitsOn
    <2> QED
        BY <1>1, <1>9, <1>10, <2>1, PassedOnStep DEF InheritInv
<1>13. Justified'
    <2>1. \A c \in ids : \E o \in Inputs[t] : Brings(c, o)
        <3> SUFFICES ASSUME NEW o \in Inputs[t], Creator[o] # Genesis, NEW c \in conflictIDs[Creator[o]]
                     PROVE  Brings(c, o)
            BY <1>3
        <3>1. Creator[o] \in booked /\ Creator[o] \in TransactionID
            BY <1>1, InputsTyped DEF IsSolid
        <3> QED
            BY <1>8, <3>1, OwnKnown DEF Brings, InheritInv
    <2> QED
        BY <1>7, <1>9, <2>1, JustifiedStep DEF InheritInv
<1>14. Spreads(t)' /\ LocksHeld'
    BY <1>1, <1>2, <1>4, SameLocks DEF InheritInv, Spreads
<1> QED
    BY <1>1, <1>4, <1>9, <1>10, <1>11, <1>12, <1>13, <1>14, InheritStep

(* t is booked with the conflicts it has; nobody has inherited from it yet. *)
LEMMA BookInherits ==
    ASSUME InheritInv, BuildsInv', NEW t \in TransactionID, BookWithoutConflict(t) \/ BookForked(t)
    PROVE  InheritInv'
<1> DEFINE th == thread[t]
<1>1. PICK ids : Book(t, ids) /\ \/ th.pc = "register" /\ ids = th.inherited
                                 \/ th.pc = "fork" /\ ids = {t}
    BY DEF BookWithoutConflict, BookForked, Running
<1>2. /\ UNCHANGED <<dagVars, firstConsumer>> /\ booked' = booked \cup {t}
      /\ conflictIDs'[t] = ids /\ \A x \in TransactionID \ {t} : conflictIDs'[x] = conflictIDs[x]
      /\ thread'[t] = Idle /\ \A u \in TransactionID \ {t} : thread'[u] = thread[u] /\ lock'[u] = lock[u]
    BY <1>1 DEF Book, Unlock, InheritInv, BuildsInv, LedgerInv, LedgerTypeOK
<1>3. Checked(t) /\ t \notin booked /\ Has(t) /\ Has(t)' /\ lock[t] = t
    BY <1>1, <1>2, HasKnown DEF Has, Checked, InheritInv, LocksHeld
<1>4. th.pc = "register" => t \notin Stored
    BY <1>3, NotStored DEF Forking
<1>5. th.pc = "fork" => t \in Stored
    BY DEF InheritInv, BuildsInv, ThreadBuilds
<1>6. /\ Stored' = Stored /\ AcceptedConflicts' = AcceptedConflicts /\ parents' = parents
      /\ \A S : CoveredNext(S) = Covered(S)
    <2>1. Stored' = Stored /\ AcceptedConflicts' = AcceptedConflicts /\ parents' = parents
        BY <1>2 DEF dagVars, Stored, AcceptedConflicts
    <2> QED
        BY <2>1, CoverSame
<1>7. Idle.pc = "idle" /\ Idle.inherited = {} /\ Idle.seen = {}
    BY DEF Idle
<1>8. /\ \A x \in TransactionID \ {t} : (Has(x)' <=> Has(x)) /\ Own(x)' = Own(x)
      /\ Own(t)' = Own(t)
    <2>1. \A x \in TransactionID \ {t} : (Has(x)' <=> Has(x)) /\ Own(x)' = Own(x)
        BY <1>2, <1>6 DEF Has, Checked, Own
    <2>2. Own(t)' = Own(t)
        BY <1>1, <1>2, <1>3, <1>4, <1>5, <1>6 DEF Own
    <2> QED
        BY <2>1, <2>2
<1>9. \A S \in SUBSET ConflictID : S \subseteq Covered(S)
    BY Covers DEF InheritInv, BuildsInv, ConflictGraph, DAGCore
<1>10. Keeps
    <2>1. \A u \in booked : u \in booked' /\ conflictIDs[u] \subseteq CoveredNext(conflictIDs'[u])
        <3>1. \A u \in booked : u \in TransactionID \ {t} /\ conflictIDs[u] \in SUBSET ConflictID
            BY <1>3, HasKnown, OwnKnown DEF InheritInv
        <3> QED
            BY <1>2, <1>6, <1>9, <3>1
    <2>2. \A x \in TransactionID : Has(x) => Has(x)' /\ Own(x) \subseteq CoveredNext(Own(x)')
        BY <1>3, <1>6, <1>8, <1>9, OwnKnown DEF InheritInv
    <2> QED
        BY <1>6, <2>1, <2>2 DEF Keeps
<1>11. Newcomers
    BY <1>3, <1>8 DEF Newcomers
<1>12. FreshConflicts'
    <2>1. \A c \in Stored : c \in TransactionID
        BY DEF Stored, TransactionID
    <2>2. \A c \in Stored : (Forking(c) => Forking(c)' \/ c \in booked') /\ (IsConflicting(c) => IsConflicting(c)')
        BY <1>1, <1>2, <1>4, <2>1 DEF Forking, IsConflicting
    <2>3. \A c \in Stored : Making(c) => Making(c)' \/ IsConflicting(c)'
        BY <1>1, <1>2, <1>4, <2>1 DEF Making, Forking, IsConflicting
    <2>4. \A c \in Stored : Used(c)' => Used(c) \/ IsConflicting(c)'
        <3>1. \A c \in ids : Used(c) \/ c = t
            BY <1>1 DEF Used
        <3>2. t \in Stored => IsConflicting(t)'
            BY <1>1, <1>2, <1>4 DEF IsConflicting
        <3>3. \A c \in Stored : Used(c)' => Used(c) \/ c \in ids
            BY <1>2, <1>6, <1>7 DEF Used
        <3> QED
            BY <3>1, <3>2, <3>3
    <2> QED
        BY <1>2, <1>6, <2>2, <2>3, <2>4, FreshStep DEF InheritInv
<1>13. PassedOn'
    <2>1. \A x \in TransactionID : Has(x) => \A c : Awaits(x, c) => Awaits(x, c)'
        BY <1>1, <1>2, AwaitsOn
    <2>2. ASSUME NEW x \in TransactionID, Has(x)', NEW o \in Inputs[x], Creator[o] # Genesis
          PROVE  conflictIDs'[Creator[o]] = conflictIDs[Creator[o]]
        <3>1. Creator[o] \in booked
            BY <1>3, <1>8, <2>2, HasKnown DEF InheritInv
        <3> QED
            BY <1>2, <1>3, <3>1, HasKnown DEF InheritInv
    <2> QED
        BY <1>10, <1>11, <2>1, <2>2, PassedOnStep DEF InheritInv
<1>14. Justified'
    BY <1>3, <1>8, <1>10, JustifiedStep DEF InheritInv
<1>15. ASSUME NEW u \in TransactionID \ {t}, thread[u].pc \in {"update", "walk"}
       PROVE  conflictIDs'[thread[u].forked] = conflictIDs[thread[u].forked]
    <2>1. thread[u].forked \in Stored /\ thread[u].forked \in TransactionID
        BY <1>15 DEF InheritInv, BuildsInv, ThreadBuilds, Stored, TransactionID
    <2>2. thread[u].forked = t => thread[u].pc = "walk" /\ ids = {t}
        BY <1>1, <1>3, <1>4, <1>15, <2>1 DEF InheritInv, Spreads
    <2>3. thread[u].pc = "walk" => conflictIDs[thread[u].forked] = {thread[u].forked}
        BY DEF InheritInv, Spreads, IsConflicting
    <2> QED
        BY <1>2, <2>1, <2>2, <2>3
<1>16. Spreads(t)'
    BY <1>2, <1>7 DEF Spreads
<1>17. LocksHeld'
    <2>1. \A u \in TransactionID \ {t} : thread[u].pc = "update" =>
                thread[u].forked \in TransactionID \ {t} /\ lock[thread[u].forked] = u
        BY <1>3, HasKnown DEF InheritInv, Spreads, LocksHeld
    <2> QED
        BY <1>2, <1>7, <2>1, LocksStep DEF InheritInv
<1> QED
    BY <1>2, <1>10, <1>11, <1>12, <1>13, <1>14, <1>15, <1>16, <1>17, InheritStep

(* A new conflict takes over what its transaction stands for. *)
LEMMA CreateInherits ==
    ASSUME InheritInv, BuildsInv', NEW t \in TransactionID, NEW id \in TransactionID, NEW R \in SUBSET OutputID,
           CreateConflict(id, Own(id), R), Has(id), UNCHANGED <<booked, conflictIDs, firstConsumer>>, LocksHeld',
           \A u \in TransactionID \ {t} : thread'[u] = thread[u],
           thread'[t].inherited = thread[t].inherited, thread'[t].seen = thread[t].seen, Checked(t), Checked(t)',
           thread[t].pc \notin {"update", "walk"}, thread'[t].pc # "walk", Forking(t) => Forking(t)',
           id \in booked \/ Forking(id)', Making(id)',
           thread'[t].pc = "update" =>
                thread'[t].forked = id /\ id \in booked /\ thread'[t].previous = conflictIDs[id]
    PROVE  InheritInv'
<1>1. TypeOK /\ TypeOK' /\ id \in ConflictID /\ Own(id) \in SUBSET ConflictID /\ R \in SUBSET ResourceID
    BY OwnKnown DEF InheritInv, BuildsInv, ConflictGraph, DAGCore, TransactionID, OutputID
<1>2. /\ Stored' = Stored \cup {id} /\ id \notin Stored
      /\ parents'[id] = Own(id) /\ \A x \in ConflictID \ {id} : parents'[x] = parents[x]
    <2>1. Stored' = Stored \cup {id} /\ id \notin Stored
        BY <1>1, CreateConflictTyped
    <2>2. parents' = [parents EXCEPT ![id] = Own(id)] /\ parents \in [ConflictID -> SUBSET ConflictID]
        BY <1>1 DEF CreateConflict, TypeOK
    <2> QED
        BY <1>1, <2>1, <2>2
<1>3. AcceptedConflicts' = AcceptedConflicts /\ id \notin AcceptedConflicts
    BY <1>1, CreatedPending
<1>4. parents[id] = {}
    BY <1>1, <1>2 DEF InheritInv, BuildsInv, ConflictGraph, DAGCore, ReferencesConsistent
<1>5. \A S \in SUBSET ConflictID : S \subseteq CoveredNext(S) /\ Covered(S) \subseteq CoveredNext(S)
    <2>1. ASSUME NEW c \in ConflictID \ AcceptedConflicts
          PROVE  parents[c] \subseteq CoveredNext({c})
        <3>1. c \in CoveredNext({c}) /\ (c \in AcceptedConflicts' \/ parents'[c] \subseteq CoveredNext({c}))
            BY <1>1, CoversNext
        <3> QED
            BY <1>2, <1>3, <1>4, <2>1, <3>1
    <2> QED
        BY <1>1, <1>3, <2>1, CoverGrows, CoversNext
<1>6. \A x \in TransactionID : thread'[x].inherited = thread[x].inherited /\ (Has(x)' <=> Has(x))
    BY DEF Has, Checked
<1>7. \A x \in TransactionID : Own(x)' = Own(x)
    BY <1>2, <1>6 DEF Own, TransactionID
<1>8. Keeps
    <2>1. \A u \in booked : u \in booked' /\ conflictIDs[u] \subseteq CoveredNext(conflictIDs'[u])
        <3>1. \A u \in booked : conflictIDs[u] \in SUBSET ConflictID
            BY HasKnown, OwnKnown DEF InheritInv
        <3> QED
            BY <1>5, <3>1
    <2>2. \A x \in TransactionID : Has(x) => Has(x)' /\ Own(x) \subseteq CoveredNext(Own(x)')
        <3>1. \A x \in TransactionID : Own(x) \in SUBSET ConflictID
            BY OwnKnown DEF InheritInv
        <3> QED
            BY <1>5, <1>6, <1>7, <3>1
    <2> QED
        BY <1>3, <1>5, <2>1, <2>2 DEF Keeps
<1>9. Newcomers
    BY <1>6 DEF Newcomers
<1>10. FreshConflicts'
    <2>1. \A c \in Stored : c \in TransactionID /\ (Forking(c) => Forking(c)') /\ (IsConflicting(c) => IsConflicting(c)')
        BY DEF Stored, TransactionID, Forking, IsConflicting
    <2>2. \A c \in Stored : Making(c) => Making(c)'
        BY <2>1 DEF Making
    <2>3. Own(id) \in {conflictIDs[id], thread[id].inherited}
        BY <1>2 DEF Own
    <2>4. \A c \in TransactionID : Used(c)' => Used(c)
        BY <1>2, <1>3, <1>6, <2>3 DEF Used, TransactionID
    <2>5. ~Used(id)
        BY <1>2, <1>3, OwnKnown DEF Used, InheritInv
    <2>6. (id \in booked' \/ Forking(id)') /\ Making(id)' /\ ~Used(id)'
        BY <1>1, <2>4, <2>5
    <2>7. \A c \in Stored' \ Stored : (c \in booked' \/ Forking(c)') /\ Making(c)' /\ ~Used(c)'
        BY <1>2, <2>6 DEF Forking, Making, Used
    <2>8. Stored \subseteq Stored' /\ booked \subseteq booked' /\ FreshConflicts /\ BuildsInv
        BY <1>2 DEF InheritInv
    <2> QED
        BY <1>1, <2>1, <2>2, <2>4, <2>7, <2>8, FreshStep
<1>11. PassedOn'
    <2>1. \A x \in TransactionID : Has(x) => \A c : Awaits(x, c) => Awaits(x, c)'
        BY AwaitsOn
    <2> QED
        BY <1>8, <1>9, <2>1, PassedOnStep DEF InheritInv
<1>12. Justified'
    BY <1>6, <1>7, <1>8, JustifiedStep DEF InheritInv
<1>13. Spreads(t)'
    <2>1. thread'[t].seen = {}
        BY DEF InheritInv, Spreads
    <2>2. thread'[t].pc = "update" => thread'[t].previous \subseteq CoveredNext({id})
        <3>1. id \in CoveredNext({id}) /\ (id \in AcceptedConflicts' \/ parents'[id] \subseteq CoveredNext({id}))
            BY <1>1, CoversNext
        <3>2. id \in booked => Own(id) = conflictIDs[id]
            BY <1>2 DEF Own
        <3> QED
            BY <1>2, <1>3, <3>1, <3>2
    <2> QED
        BY <2>1, <2>2 DEF Spreads, Covered, CoveredNext
<1> QED
    BY <1>8, <1>9, <1>10, <1>11, <1>12, <1>13, InheritStep

(* Booking as a conflict: the inherited conflicts become the parents. *)
LEMMA BookConflictInherits ==
    ASSUME InheritInv, BuildsInv', NEW t \in TransactionID, BookConflict(t)
    PROVE  InheritInv'
<1> DEFINE th == thread[t]
           r  == [th EXCEPT !.pc = "fork"]
<1>1. /\ UNCHANGED <<booked, conflictIDs, firstConsumer, lock>>
      /\ thread' = [thread EXCEPT ![t] = r] /\ th.pc = "register"
      /\ CreateConflict(t, th.inherited, th.conflicting)
    <2>1. thread \in [TransactionID -> Thread]
        BY DEF InheritInv, BuildsInv, LedgerInv, LedgerTypeOK
    <2> QED
        BY <2>1 DEF BookConflict, Running
<1>2. r.pc = "fork" /\ r.inherited = th.inherited /\ r.seen = th.seen
    BY <1>1, ThreadFields DEF InheritInv, BuildsInv, LedgerInv, Thread
<1> HIDE DEF r
<1>3. thread'[t] = r /\ \A u \in TransactionID \ {t} : thread'[u] = thread[u]
    BY <1>1, ThreadRecord DEF InheritInv, BuildsInv
<1>4. th.conflicting \in SUBSET OutputID
    BY ThreadFields DEF InheritInv, BuildsInv, LedgerInv
<1>5. t \notin booked /\ t \notin Stored
    BY <1>1, HasKnown, NotStored DEF InheritInv, Forking
<1>6. Own(t) = th.inherited
    BY <1>5 DEF Own
<1>7. Checked(t) /\ Checked(t)' /\ Has(t) /\ Forking(t)' /\ Making(t)'
    BY <1>1, <1>2, <1>3 DEF Checked, Has, Forking, Making
<1>8. LocksHeld'
    BY <1>1, <1>2, <1>3, SameLocks DEF InheritInv
<1> QED
    BY <1>1, <1>2, <1>3, <1>4, <1>6, <1>7, <1>8, CreateInherits

(* A fork: the ConflictIDs of the forked transaction become the parents. *)
LEMMA ForkInherits ==
    ASSUME InheritInv, BuildsInv', NEW t \in TransactionID, NEW f \in TransactionID, ForkTransaction(t, f)
    PROVE  InheritInv'
<1> DEFINE th == thread[t]
           r  == [th EXCEPT !.pc = "update", !.forked = f, !.previous = conflictIDs[f]]
           R  == ConflictingInputs(t, f)
<1>1. /\ UNCHANGED <<booked, conflictIDs, firstConsumer>> /\ lock[f] = None
      /\ thread' = [thread EXCEPT ![t] = r] /\ th.pc = "fork" /\ f \in th.fork
      /\ CreateConflict(f, conflictIDs[f], R)
    <2>1. thread \in [TransactionID -> Thread]
        BY DEF InheritInv, BuildsInv, LedgerInv, LedgerTypeOK
    <2> QED
        BY <2>1 DEF ForkTransaction, Running
<1>2. lock'[f] = t /\ \A x \in TransactionID \ {f} : lock'[x] = lock[x]
    BY DEF ForkTransaction, InheritInv, BuildsInv, LedgerInv, LedgerTypeOK
<1>3. /\ r.pc = "update" /\ r.inherited = th.inherited /\ r.seen = th.seen
      /\ r.forked = f /\ r.previous = conflictIDs[f]
    BY <1>1, ThreadFields DEF InheritInv, BuildsInv, LedgerInv, Thread
<1>4. R \in SUBSET OutputID
    BY InputsTyped DEF ConflictingInputs
<1> HIDE DEF r, R
<1>5. thread'[t] = r /\ \A u \in TransactionID \ {t} : thread'[u] = thread[u]
    BY <1>1, ThreadRecord DEF InheritInv, BuildsInv
<1>6. \A u \in TransactionID : thread[u].pc # "idle" => u # f
    BY <1>1, InputsTyped DEF InheritInv, LocksHeld
<1>7. f \in booked /\ f # t /\ f \notin Stored
    <2>1. PICK o \in th.conflicting : firstConsumer[o] = f
        BY <1>1 DEF InheritInv, BuildsInv, ThreadBuilds
    <2>2. o \in OutputID
        BY <2>1, ThreadFields DEF InheritInv, BuildsInv, LedgerInv
    <2>3. Has(f) /\ ~Checked(f)
        BY <1>6, <2>1, <2>2 DEF InheritInv, FirstConsumersHave, Checked
    <2> QED
        BY <1>1, <1>6, <2>3 DEF Has, CreateConflict
<1>8. Own(f) = conflictIDs[f] /\ Has(f)
    BY <1>7 DEF Own, Has
<1>9. Checked(t) /\ Checked(t)' /\ Forking(t)' /\ Making(f)'
    BY <1>1, <1>3, <1>5 DEF Checked, Forking, Making
<1>10. LocksHeld'
    <2>1. \A u \in TransactionID \ {t} : thread[u].pc = "update" => thread[u].forked \in TransactionID
        BY HasKnown DEF InheritInv, Spreads
    <2>2. lock[t] = t
        BY <1>1 DEF InheritInv, LocksHeld
    <2>3. \A u \in TransactionID : None # u
        BY InputsTyped
    <2> QED
        BY <1>1, <1>2, <1>3, <1>5, <1>7, <2>1, <2>2, <2>3, LocksStep DEF InheritInv
<1> QED
    BY <1>1, <1>3, <1>4, <1>5, <1>7, <1>8, <1>9, <1>10, CreateInherits

(* The fork becomes its own conflict, and whatever has inherited from it awaits its walk. *)
LEMMA UpdateForkedInherits ==
    ASSUME InheritInv, BuildsInv', NEW t \in TransactionID, UpdateForked(t)
    PROVE  InheritInv'
<1> DEFINE th == thread[t]
<1>0. PICK f : f = th.forked
    OBVIOUS
<1> DEFINE r == [th EXCEPT !.pc = "walk", !.outputs = OutputIDs(f)]
<1>1. /\ UNCHANGED <<dagVars, booked, firstConsumer>> /\ th.pc = "update"
      /\ thread' = [thread EXCEPT ![t] = r]
      /\ conflictIDs' = [conflictIDs EXCEPT ![f] = ConflictIDsAfterFork(f, f, th.previous)]
    <2>1. thread \in [TransactionID -> Thread]
        BY DEF InheritInv, BuildsInv, LedgerInv, LedgerTypeOK
    <2> QED
        BY <1>0, <2>1 DEF UpdateForked, Running
<1>2. /\ r.pc = "walk" /\ r.inherited = th.inherited /\ r.seen = th.seen /\ r.visit = th.visit
      /\ r.forked = f /\ r.previous = th.previous /\ r.outputs = OutputIDs(f)
    BY <1>0, <1>1, ThreadFields DEF InheritInv, BuildsInv, LedgerInv, Thread
<1> HIDE DEF r
<1>3. thread'[t] = r /\ \A u \in TransactionID \ {t} : thread'[u] = thread[u]
    BY <1>1, ThreadRecord DEF InheritInv, BuildsInv
<1>4. /\ f \in Stored /\ f \in TransactionID /\ f \in booked /\ conflictIDs[f] = th.previous /\ f \notin th.previous
      /\ th.previous \subseteq Covered({f}) /\ th.visit = {} /\ th.seen = {}
    <2>1. f \in Stored \ th.previous /\ th.visit = {}
        BY <1>0, <1>1 DEF InheritInv, BuildsInv, ThreadBuilds
    <2> QED
        BY <1>0, <1>1, <2>1, HasKnown DEF InheritInv, Spreads
<1>5. f \notin AcceptedConflicts
    BY <1>4 DEF InheritInv, FreshConflicts, IsConflicting, Used
<1>6. conflictIDs'[f] = {f} /\ \A x \in TransactionID \ {f} : conflictIDs'[x] = conflictIDs[x]
    <2>1. ConflictIDsAfterFork(f, f, th.previous) = {f}
        BY <1>4, <1>5 DEF ConflictIDsAfterFork, UnconfirmedConflicts, AcceptedConflicts
    <2> QED
        BY <1>1, <1>4, <2>1 DEF InheritInv, BuildsInv, LedgerInv, LedgerTypeOK
<1>7. /\ Stored' = Stored /\ AcceptedConflicts' = AcceptedConflicts /\ parents' = parents
      /\ \A S : CoveredNext(S) = Covered(S)
    <2>1. Stored' = Stored /\ AcceptedConflicts' = AcceptedConflicts /\ parents' = parents
        BY <1>1 DEF dagVars, Stored, AcceptedConflicts
    <2> QED
        BY <2>1, CoverSame
<1>8. \A x \in TransactionID : (Has(x)' <=> Has(x)) /\ Own(x)' = Own(x)
    BY <1>1, <1>2, <1>3, <1>4, <1>6, <1>7 DEF Has, Checked, Own
<1>9. \A S \in SUBSET ConflictID : S \subseteq Covered(S)
    BY Covers DEF InheritInv, BuildsInv, ConflictGraph, DAGCore
<1>10. Keeps
    <2>1. \A u \in booked : u \in booked' /\ conflictIDs[u] \subseteq CoveredNext(conflictIDs'[u])
        <3>1. \A u \in booked : u \in TransactionID /\ conflictIDs[u] \in SUBSET ConflictID
            BY HasKnown, OwnKnown DEF InheritInv
        <3> QED
            BY <1>1, <1>4, <1>6, <1>7, <1>9, <3>1
    <2>2. \A x \in TransactionID : Has(x) => Has(x)' /\ Own(x) \subseteq CoveredNext(Own(x)')
        BY <1>7, <1>8, <1>9, OwnKnown DEF InheritInv
    <2> QED
        BY <1>7, <2>1, <2>2 DEF Keeps
<1>11. Newcomers
    BY <1>8 DEF Newcomers
<1>12. FreshConflicts'
    <2>1. \A c \in Stored : c \in TransactionID
        BY DEF Stored, TransactionID
    <2>2. \A c \in Stored : (Forking(c) => Forking(c)') /\ (IsConflicting(c) => IsConflicting(c)')
        BY <1>1, <1>2, <1>3, <1>6, <2>1 DEF Forking, IsConflicting
    <2>3. \A c \in Stored : Making(c) => Making(c)' \/ IsConflicting(c)'
        BY <1>0, <1>3, <1>6, <2>2 DEF Making, IsConflicting
    <2>4. \A c \in Stored : Used(c)' => Used(c) \/ IsConflicting(c)'
        BY <1>2, <1>3, <1>6, <1>7 DEF Used, IsConflicting
    <2> QED
        BY <1>1, <1>7, <2>2, <2>3, <2>4, FreshStep DEF InheritInv
<1>13. PassedOn'
    <2>1. \A x \in TransactionID : Has(x) => \A c : Awaits(x, c) => Awaits(x, c)'
        BY <1>1, <1>3, AwaitsOn
    <2>2. ASSUME NEW x \in TransactionID, NEW o \in Inputs[x], Creator[o] # Genesis, NEW c \in conflictIDs'[Creator[o]]
          PROVE  c \in conflictIDs[Creator[o]] \/ Awaits(x, c)'
        <3>1. Creator[o] \in TransactionID /\ o \in OutputID
            BY <2>2, InputsTyped
        <3>2. CASE Creator[o] = f
            <4>1. c = f /\ o \in OutputIDs(f)
                BY <1>4, <1>6, <2>2, <3>1, <3>2 DEF OutputIDs
            <4>2. thread'[t].pc = "walk" /\ thread'[t].forked = f /\ x \notin thread'[t].seen /\ o \in thread'[t].outputs
                BY <1>2, <1>3, <1>4, <4>1
            <4> QED
                BY <4>1, <4>2 DEF Awaits
        <3> QED
            BY <1>6, <2>2, <3>1, <3>2
    <2> QED
        BY <1>10, <1>11, <2>1, <2>2, PassedOnStep DEF InheritInv
<1>14. Justified'
    BY <1>8, <1>10, JustifiedStep DEF InheritInv
<1>15. ASSUME NEW u \in TransactionID \ {t}, thread[u].pc \in {"update", "walk"}
       PROVE  conflictIDs'[thread[u].forked] = conflictIDs[thread[u].forked]
    <2>1. thread[u].forked \in TransactionID
        BY <1>15 DEF InheritInv, BuildsInv, ThreadBuilds, Stored, TransactionID
    <2>2. thread[u].forked # f
        <3>1. thread[u].pc = "update" => lock[thread[u].forked] = u
            BY DEF InheritInv, LocksHeld
        <3>2. thread[u].pc = "walk" => conflictIDs[thread[u].forked] = {thread[u].forked}
            BY DEF InheritInv, Spreads, IsConflicting
        <3>3. lock[f] = t
            BY <1>0, <1>1 DEF InheritInv, LocksHeld
        <3> QED
            BY <1>4, <1>15, <3>1, <3>2, <3>3
    <2> QED
        BY <1>6, <2>1, <2>2
<1>16. Spreads(t)'
    <2>1. ASSUME NEW o \in OutputIDs(f) PROVE Brings(f, o)'
        <3>1. Creator[o] = f
            BY <2>1 DEF OutputIDs
        <3>2. f \in Covered({f})
            BY <1>4, <1>9 DEF TransactionID
        <3> QED
            BY <1>1, <1>4, <1>6, <1>7, <3>1, <3>2 DEF Brings, Covered, CoveredNext
    <2> QED
        BY <1>2, <1>3, <1>4, <1>6, <1>7, <2>1 DEF Spreads, Covered, CoveredNext, IsConflicting
<1>17. LocksHeld'
    <2>1. f # t /\ lock[f] = t /\ \A x \in TransactionID \ {f} : lock'[x] = lock[x]
        BY <1>0, <1>1 DEF InheritInv, LocksHeld, UpdateForked, Unlock
    <2>2. \A u \in TransactionID \ {t} : thread[u].pc = "update" => thread[u].forked \in TransactionID
        BY HasKnown DEF InheritInv, Spreads
    <2>3. lock[t] = t
        BY <1>1 DEF InheritInv, LocksHeld
    <2> QED
        BY <1>2, <1>3, <2>1, <2>2, <2>3, LocksStep DEF InheritInv
<1> QED
    BY <1>1, <1>3, <1>10, <1>11, <1>12, <1>13, <1>14, <1>15, <1>16, <1>17, InheritStep

(* What makes up a walk in the next state. *)
LEMMA WalkSpreads ==
    ASSUME NEW t \in TransactionID, NEW f, thread'[t].forked = f, thread'[t].pc = "walk",
           conflictIDs'[f] = {f}, thread'[t].previous \subseteq CoveredNext({f}),
           \A o \in thread'[t].outputs : Brings(f, o)',
           \A x \in thread'[t].visit \cup thread'[t].seen : \E o \in Inputs[x] : Brings(f, o)',
           \A x \in thread'[t].seen : Has(x)' => f \in CoveredNext(Own(x)')
    PROVE  Spreads(t)'
    BY DEF Spreads, Covered, CoveredNext, IsConflicting, Brings

(* Thread t has visited d and pushes what is in pushed. *)
Visits(t, d, pushed) ==
    /\ thread[t].pc = "walk" /\ d \in thread[t].visit /\ lock[d] = None
    /\ thread' = [thread EXCEPT ![t] = [thread[t] EXCEPT !.visit = @ \ {d}, !.seen = @ \cup {d},
                                                         !.outputs = @ \cup pushed]]
    /\ UNCHANGED <<booked, firstConsumer, lock>>
    /\ AcceptedConflicts' = AcceptedConflicts /\ Stored' = Stored
    /\ \A S \in SUBSET ConflictID : Covered(S) \subseteq CoveredNext(S)
    /\ \A x \in TransactionID \ {d} : conflictIDs'[x] = conflictIDs[x] /\ parents'[x] = parents[x]

(* A walk that visits d, which is not being booked or forked, and leaves it with the fork. *)
LEMMA VisitInherits ==
    ASSUME InheritInv, BuildsInv', NEW t \in TransactionID, NEW d \in TransactionID, NEW f, f = thread[t].forked,
           NEW pushed \in SUBSET OutputIDs(d), Visits(t, d, pushed),
           conflictIDs'[d] \subseteq conflictIDs[d] \cup {f}, parents'[d] \subseteq parents[d] \cup {f},
           d \in Stored => conflictIDs'[d] = conflictIDs[d],
           d \in booked => Own(d) \cup {f} \subseteq CoveredNext(Own(d)'),
           d \in booked => conflictIDs[d] \subseteq CoveredNext(conflictIDs'[d]),
           \/ pushed = {} /\ conflictIDs'[d] = conflictIDs[d]
           \/ pushed = OutputIDs(d) /\ (d \in booked => f \in CoveredNext(conflictIDs'[d]))
    PROVE  InheritInv'
<1> DEFINE th == thread[t]
           r  == [th EXCEPT !.visit = @ \ {d}, !.seen = @ \cup {d}, !.outputs = @ \cup pushed]
<1>1. /\ thread' = [thread EXCEPT ![t] = r]
      /\ th.pc = "walk" /\ d \in th.visit /\ lock[d] = None
      /\ UNCHANGED <<booked, firstConsumer, lock>>
      /\ AcceptedConflicts' = AcceptedConflicts /\ Stored' = Stored
      /\ \A S \in SUBSET ConflictID : Covered(S) \subseteq CoveredNext(S)
      /\ \A x \in TransactionID \ {d} : conflictIDs'[x] = conflictIDs[x] /\ parents'[x] = parents[x]
    BY DEF Visits
<1>2. /\ r.pc = "walk" /\ r.inherited = th.inherited /\ r.seen = th.seen \cup {d} /\ r.visit = th.visit \ {d}
      /\ r.forked = f /\ r.previous = th.previous /\ r.outputs = th.outputs \cup pushed
    BY <1>1, ThreadFields DEF InheritInv, BuildsInv, LedgerInv, Thread
<1> HIDE DEF r
<1>3. thread'[t] = r /\ \A u \in TransactionID \ {t} : thread'[u] = thread[u]
    BY <1>1, ThreadRecord DEF InheritInv, BuildsInv
<1>4. /\ f \in Stored /\ f \in TransactionID /\ IsConflicting(f) /\ th.previous \subseteq Covered({f})
      /\ \A o \in th.outputs : Brings(f, o)
      /\ \A x \in th.visit \cup th.seen : \E o \in Inputs[x] : Brings(f, o)
      /\ \A x \in th.seen : x \in TransactionID /\ (Has(x) => f \in Covered(Own(x)))
    <2>1. f \in Stored /\ f \in TransactionID
        BY <1>1 DEF InheritInv, BuildsInv, ThreadBuilds, Stored, TransactionID
    <2> QED
        BY <1>1, <2>1, ThreadFields DEF InheritInv, Spreads, BuildsInv, LedgerInv
<1>5. ~Checked(d) /\ \A u \in TransactionID : thread[u].pc = "update" => thread[u].forked # d
    BY <1>1, InputsTyped DEF InheritInv, LocksHeld, Checked
<1>6. /\ \A x \in TransactionID : (Has(x)' <=> Has(x)) /\ thread'[x].inherited = thread[x].inherited
      /\ \A x \in TransactionID \ {d} : Own(x)' = Own(x)
    BY <1>1, <1>2, <1>3 DEF Has, Checked, Own
<1>7. d \in booked \/ ~Has(d)
    BY <1>5 DEF Has
<1>8. \A S \in SUBSET ConflictID : S \subseteq Covered(S)
    BY Covers DEF InheritInv, BuildsInv, ConflictGraph, DAGCore
<1>9. Keeps
    <2>1. ASSUME NEW u \in booked
          PROVE  u \in booked' /\ conflictIDs[u] \subseteq CoveredNext(conflictIDs'[u])
        <3>1. u \in TransactionID /\ conflictIDs[u] \in SUBSET ConflictID
            BY HasKnown, OwnKnown DEF InheritInv
        <3>2. CASE u = d
            BY <1>1, <3>2
        <3>3. CASE u # d
            BY <1>1, <1>8, <3>1, <3>3
        <3> QED
            BY <3>2, <3>3
    <2>2. ASSUME NEW x \in TransactionID, Has(x)
          PROVE  Has(x)' /\ Own(x) \subseteq CoveredNext(Own(x)')
        <3>1. CASE x = d
            BY <1>6, <1>7, <2>2, <3>1 DEF Own
        <3>2. CASE x # d
            <4>1. Own(x) \in SUBSET ConflictID
                BY OwnKnown DEF InheritInv
            <4> QED
                BY <1>1, <1>6, <1>8, <2>2, <3>2, <4>1
        <3> QED
            BY <3>1, <3>2
    <2> QED
        BY <1>1, <2>1, <2>2 DEF Keeps
<1>10. Newcomers
    BY <1>6 DEF Newcomers
<1>11. /\ \A c, o : Brings(c, o) => Brings(c, o)'
       /\ \A x \in TransactionID : Has(x) => Covered(Own(x)) \subseteq CoveredNext(Own(x)')
    BY <1>9, KeepsCovered DEF InheritInv
<1>12. FreshConflicts'
    <2>1. \A c \in Stored : c \in TransactionID /\ conflictIDs'[c] = conflictIDs[c]
        BY <1>1 DEF Stored, TransactionID
    <2>2. \A c \in Stored : (Forking(c) => Forking(c)') /\ (IsConflicting(c) => IsConflicting(c)')
        BY <1>2, <1>3, <2>1 DEF Forking, IsConflicting
    <2>3. \A c \in Stored : Making(c) => Making(c)'
        BY <1>1, <1>2, <1>3, <2>2 DEF Making
    <2>4. \A c \in Stored : Used(c)' => Used(c) \/ c = f
        BY <1>1, <1>6 DEF Used
    <2>5. conflictIDs'[f] = {f}
        BY <1>4, <2>1 DEF IsConflicting
    <2>6. \A c \in Stored : Used(c)' => Used(c) \/ IsConflicting(c)'
        BY <2>4, <2>5 DEF IsConflicting
    <2> QED
        BY <1>1, <2>2, <2>3, <2>6, FreshStep DEF InheritInv
<1>13. PassedOn'
    <2>1. ASSUME NEW x \in TransactionID, Has(x), NEW c, Awaits(x, c)
          PROVE  Awaits(x, c)' \/ c \in CoveredNext(Own(x)')
        <3>1. PICK w \in TransactionID :
                    /\ thread[w].pc = "walk" /\ thread[w].forked = c
                    /\ x \in thread[w].visit \/ (x \notin thread[w].seen /\ Inputs[x] \cap thread[w].outputs # {})
            BY <2>1 DEF Awaits
        <3>2. CASE w # t
            BY <1>3, <3>1, <3>2 DEF Awaits
        <3>3. CASE w = t /\ x # d
            BY <1>2, <1>3, <3>1, <3>3 DEF Awaits
        <3>4. CASE w = t /\ x = d
            <4>1. c = f /\ d \in booked
                BY <1>7, <2>1, <3>1, <3>4
            <4> QED
                BY <3>4, <4>1 DEF Own
        <3> QED
            BY <3>2, <3>3, <3>4
    <2>2. ASSUME NEW x \in TransactionID, Has(x)', NEW o \in Inputs[x], Creator[o] # Genesis,
                 NEW c \in conflictIDs'[Creator[o]], c \notin conflictIDs[Creator[o]]
          PROVE  c \in CoveredNext(Own(x)') \/ Awaits(x, c)'
        <3>1. Has(x) /\ Creator[o] \in booked /\ Creator[o] \in TransactionID /\ o \in OutputID
            BY <1>6, <2>2, HasKnown, InputsTyped DEF InheritInv
        <3>2. Creator[o] = d /\ c = f /\ o \in pushed
            BY <1>1, <2>2, <3>1 DEF OutputIDs
        <3>3. x # d
            BY <2>2, <3>2, CreatorsBefore, PastSelf
        <3>4. CASE x \in th.seen
            BY <1>4, <1>11, <3>1, <3>2, <3>4
        <3>5. CASE x \notin th.seen
            <4>1. thread'[t].pc = "walk" /\ thread'[t].forked = c /\ x \notin thread'[t].seen /\ o \in thread'[t].outputs
                BY <1>2, <1>3, <3>2, <3>3, <3>5
            <4> QED
                BY <2>2, <4>1 DEF Awaits
        <3> QED
            BY <3>4, <3>5
    <2> QED
        BY <1>9, <1>10, <2>1, <2>2, PassedOnStep DEF InheritInv
<1>14. Justified'
    <2>1. ASSUME NEW c \in Own(d)', d \in booked
          PROVE  c \in Own(d) \/ c = f
        BY <1>1, <2>1 DEF Own
    <2>2. \E o \in Inputs[d] : Brings(f, o)
        BY <1>1, <1>4
    <2>3. ASSUME NEW x \in TransactionID, Has(x)', NEW c \in Own(x)'
          PROVE  (Has(x) /\ c \in Own(x)) \/ c \in AcceptedConflicts \/ \E o \in Inputs[x] : Brings(c, o)
        <3>1. CASE x # d
            BY <1>6, <2>3, <3>1
        <3>2. CASE x = d
            BY <1>6, <1>7, <2>1, <2>2, <2>3, <3>2 DEF Own
        <3> QED
            BY <3>1, <3>2
    <2> QED
        BY <1>9, <2>3, JustifiedStep DEF InheritInv
<1>15. \A u \in TransactionID : thread[u].pc \in {"update", "walk"} =>
            conflictIDs'[thread[u].forked] = conflictIDs[thread[u].forked]
    BY <1>1 DEF InheritInv, BuildsInv, ThreadBuilds, Stored, TransactionID
<1>16. Spreads(t)'
    <2>1. \A o \in r.outputs : Brings(f, o)'
        <3>1. ASSUME NEW o \in pushed PROVE Brings(f, o)'
            <4>1. Creator[o] = d /\ d \in booked /\ f \in CoveredNext(conflictIDs'[d])
                BY <3>1 DEF OutputIDs
            <4> QED
                BY <1>1, <4>1 DEF Brings, Covered, CoveredNext
        <3>2. \A o \in th.outputs : Brings(f, o)'
            BY <1>4, <1>11
        <3> QED
            BY <1>2, <3>1, <3>2
    <2>2. \A x \in r.visit \cup r.seen : \E o \in Inputs[x] : Brings(f, o)'
        BY <1>1, <1>2, <1>4, <1>11
    <2>3. ASSUME NEW x \in r.seen, Has(x)' PROVE f \in CoveredNext(Own(x)')
        <3>1. CASE x = d
            BY <1>6, <1>7, <2>3, <3>1 DEF Own
        <3>2. CASE x # d
            BY <1>2, <1>4, <1>6, <1>11, <2>3, <3>2
        <3> QED
            BY <3>1, <3>2
    <2>4. conflictIDs'[f] = {f} /\ th.previous \subseteq CoveredNext({f})
        BY <1>1, <1>4 DEF IsConflicting, TransactionID
    <2> QED
        <3>1. thread'[t].forked = f /\ thread'[t].pc = "walk" /\ thread'[t].previous = th.previous
            BY <1>2, <1>3
        <3>2. /\ \A o \in thread'[t].outputs : Brings(f, o)'
              /\ \A x \in thread'[t].visit \cup thread'[t].seen : \E o \in Inputs[x] : Brings(f, o)'
            BY <1>3, <2>1, <2>2
        <3>3. \A x \in thread'[t].seen : Has(x)' => f \in CoveredNext(Own(x)')
            BY <1>3, <2>3
        <3> QED
            BY <2>4, <3>1, <3>2, <3>3, WalkSpreads
<1>17. LocksHeld'
    BY <1>1, <1>2, <1>3, SameLocks DEF InheritInv
<1> QED
    BY <1>1, <1>3, <1>9, <1>10, <1>12, <1>13, <1>14, <1>15, <1>16, <1>17, InheritStep

(* A conflict that gets a parent in the place of what the parent stands for still stands for that. *)
LEMMA ReparentBehind ==
    ASSUME BuildsInv, BuildsInv', NEW d \in TransactionID, NEW f \in PastCone(d) \ {d},
           NEW previous \in SUBSET ConflictID, f \notin previous, previous \subseteq Covered({f}),
           UpdateConflictParents(d, previous, f)
    PROVE  /\ previous \subseteq CoveredNext({f})
           /\ \A S \in SUBSET ConflictID : Covered(S) \subseteq CoveredNext(S)
<1> DEFINE T == (CoveredNext({f}) \cap PastCone(f)) \cup AcceptedConflicts
<1>1. TypeOK /\ TypeOK' /\ d \in ConflictID /\ f \in ConflictID /\ f \in TransactionID /\ d # f
    BY PastSelf DEF BuildsInv, ConflictGraph, DAGCore, TransactionID
<1>2. /\ AcceptedConflicts' = AcceptedConflicts
      /\ parents'[d] = (parents[d] \cup {f}) \ previous
      /\ \A c \in ConflictID \ {d} : parents'[c] = parents[c]
    BY <1>1 DEF UpdateConflictParents, AcceptedConflicts, TypeOK
<1>3. /\ f \in CoveredNext({f}) /\ CoveredNext({f}) \in SUBSET ConflictID
      /\ AcceptedConflicts \subseteq CoveredNext({f})
      /\ \A c \in CoveredNext({f}) : c \in AcceptedConflicts \/ parents'[c] \subseteq CoveredNext({f})
    BY <1>1, <1>2, CoversNext
<1>4. PastCone(f) \in SUBSET ConflictID /\ f \in PastCone(f) /\ d \notin PastCone(f)
    BY <1>1, PastSelf, PastAcyclic DEF TransactionID
<1>5. ASSUME NEW c \in T, c \notin AcceptedConflicts
      PROVE  parents[c] \subseteq T
    <2>1. c \in CoveredNext({f}) /\ c \in PastCone(f) /\ c \in ConflictID \ {d}
        BY <1>4, <1>5
    <2>2. parents[c] \subseteq CoveredNext({f})
        BY <1>2, <1>3, <1>5, <2>1
    <2>3. parents[c] \subseteq PastCone(f)
        BY <1>1, <2>1, PastTransitive DEF BuildsInv, ConflictGraph
    <2> QED
        BY <2>2, <2>3
<1>6. T \in SUBSET ConflictID /\ {f} \subseteq T /\ AcceptedConflicts \subseteq T
    BY <1>3, <1>4
<1>7. Closed(T, parents, AcceptedConflicts)
    <2> HIDE DEF T
    <2> QED
        BY <1>5, <1>6 DEF Closed
<1>8. Covered({f}) \subseteq T
    <2> HIDE DEF T
    <2> QED
        BY <1>1, <1>6, <1>7, Covers
<1>9. previous \subseteq CoveredNext({f})
    BY <1>3, <1>8
<1>10. ASSUME NEW c \in ConflictID \ AcceptedConflicts
       PROVE  parents[c] \subseteq CoveredNext({c})
    <2>1. c \in CoveredNext({c}) /\ CoveredNext({c}) \in SUBSET ConflictID
        BY <1>1, CoversNext
    <2>2. parents'[c] \subseteq CoveredNext({c})
        BY <1>1, <1>2, <2>1, CoversNext
    <2>3. CASE c # d
        BY <1>2, <2>2, <2>3
    <2>4. CASE c = d
        <3>1. {f} \in SUBSET ConflictID /\ {c} \in SUBSET ConflictID /\ {f} \subseteq CoveredNext({c})
            BY <1>1, <1>2, <2>2, <2>4
        <3>2. CoveredNext({f}) \subseteq CoveredNext({c})
            BY <1>1, <3>1, CoverWithinNext
        <3> QED
            BY <1>2, <1>9, <2>2, <2>4, <3>2
    <2> QED
        BY <2>3, <2>4
<1>11. \A S \in SUBSET ConflictID : Covered(S) \subseteq CoveredNext(S)
    BY <1>1, <1>2, <1>10, CoverGrows
<1> QED
    BY <1>9, <1>11

(* The three things that the walk may do with the transaction that it visits. *)
LEMMA PropagateInherits ==
    ASSUME InheritInv, BuildsInv', NEW t \in TransactionID, NEW d \in TransactionID, PropagateForkedConflict(t, d)
    PROVE  InheritInv'
<1> DEFINE th == thread[t]
           f  == th.forked
           Seen(pushed) == [thread EXCEPT ![t] = [th EXCEPT !.visit = @ \ {d}, !.seen = @ \cup {d},
                                                            !.outputs = @ \cup pushed]]
<1>0. TypeOK /\ TypeOK' /\ BuildsInv
    BY DEF InheritInv, BuildsInv, ConflictGraph, DAGCore
<1>1. /\ UNCHANGED <<booked, firstConsumer, lock>> /\ th.pc = "walk" /\ d \in th.visit /\ lock[d] = None
      /\ d \notin stored => d \notin booked
    BY <1>0, HasKnown DEF PropagateForkedConflict, Running
<1>2. /\ f \in ConflictID /\ f \in Stored \ th.previous /\ f \in PastCone(d) \ {d}
      /\ th.previous \in SUBSET ConflictID /\ th.previous \subseteq Covered({f})
    BY <1>0, <1>1, ThreadFields DEF InheritInv, Spreads, BuildsInv, ThreadBuilds, LedgerInv, Stored, TransactionID
<1>3. d \in Stored => IsConflicting(d)
    <2>1. ~Making(d)
        <3>1. thread[d].pc # "idle" => lock[d] = d
            BY DEF InheritInv, LocksHeld
        <3>2. ~Forking(d)
            BY <1>1, <3>1, InputsTyped DEF Forking
        <3>3. \A w \in TransactionID : ~(thread[w].pc = "update" /\ thread[w].forked = d)
            BY <1>1, InputsTyped DEF InheritInv, LocksHeld
        <3> QED
            BY <3>2, <3>3 DEF Making
    <2> QED
        BY <2>1 DEF InheritInv, FreshConflicts
<1>4. IsConflicting(d) => d \in Stored
    BY <1>0, OwnKnown DEF IsConflicting
<1>5. /\ conflictIDs[d] \in SUBSET ConflictID /\ conflictIDs'[d] \in SUBSET ConflictID
      /\ parents[d] \in SUBSET ConflictID /\ parents'[d] \in SUBSET ConflictID
    BY <1>0, OwnKnown DEF InheritInv, BuildsInv, LedgerInv, LedgerTypeOK, TypeOK, TransactionID
<1>6. thread \in [TransactionID -> Thread]
    BY DEF InheritInv, BuildsInv, LedgerInv, LedgerTypeOK
<1>7. CASE /\ IsConflicting(d) /\ f \notin parents[d]
           /\ UpdateConflictParents(d, th.previous, f)
           /\ thread' = [thread EXCEPT ![t].visit = @ \ {d}, ![t].seen = @ \cup {d}, ![t].outputs = @ \cup {}]
           /\ UNCHANGED conflictIDs
    <2>1. thread' = Seen({})
        BY <1>6, <1>7
    <2>2. /\ th.previous \subseteq CoveredNext({f})
          /\ \A S \in SUBSET ConflictID : Covered(S) \subseteq CoveredNext(S)
        BY <1>0, <1>2, <1>7, ReparentBehind
    <2>3. /\ AcceptedConflicts' = AcceptedConflicts /\ Stored' = Stored /\ d \in ConflictID
          /\ parents'[d] = (parents[d] \cup {f}) \ th.previous
          /\ \A c \in ConflictID \ {d} : parents'[c] = parents[c]
        BY <1>7, <1>0 DEF UpdateConflictParents, AcceptedConflicts, Stored, TypeOK, TransactionID
    <2>4. \A x \in TransactionID \ {d} : conflictIDs'[x] = conflictIDs[x] /\ parents'[x] = parents[x]
        BY <1>7, <2>3 DEF TransactionID
    <2>5. parents[d] \cup {f} \subseteq CoveredNext(parents'[d])
        <3>1. /\ {f} \in SUBSET ConflictID /\ parents'[d] \subseteq CoveredNext(parents'[d])
              /\ {f} \subseteq CoveredNext(parents'[d])
            BY <1>0, <1>2, <1>5, <2>3, CoversNext
        <3>2. CoveredNext({f}) \subseteq CoveredNext(parents'[d])
            BY <1>0, <1>2, <1>5, <2>3, <3>1, CoverWithinNext
        <3> QED
            BY <1>2, <2>2, <2>3, <3>1, <3>2
    <2>6. Own(d) = parents[d] /\ Own(d)' = parents'[d]
        BY <1>4, <1>7, <2>3 DEF Own
    <2>7. conflictIDs[d] \subseteq CoveredNext(conflictIDs'[d])
        BY <1>0, <1>5, <1>7, CoversNext
    <2> QED
        <3>1. Visits(t, d, {}) /\ {} \in SUBSET OutputIDs(d)
            BY <1>1, <2>1, <2>2, <2>3, <2>4 DEF Visits
        <3>2. conflictIDs'[d] = conflictIDs[d] /\ parents'[d] \subseteq parents[d] \cup {f}
            BY <1>7, <2>3
        <3> QED
            BY <2>5, <2>6, <2>7, <3>1, <3>2, VisitInherits
<1>8. ASSUME UNCHANGED dagVars
      PROVE  /\ AcceptedConflicts' = AcceptedConflicts /\ Stored' = Stored /\ parents' = parents
             /\ \A S : CoveredNext(S) = Covered(S)
    <2>1. AcceptedConflicts' = AcceptedConflicts /\ Stored' = Stored /\ parents' = parents
        BY <1>8 DEF dagVars, AcceptedConflicts, Stored
    <2> QED
        BY <2>1, CoverSame
<1>9. CASE /\ \/ d \notin stored
              \/ IsConflicting(d) /\ f \in parents[d]
              \/ ~IsConflicting(d) /\ f \in conflictIDs[d]
           /\ thread' = [thread EXCEPT ![t].visit = @ \ {d}, ![t].seen = @ \cup {d}, ![t].outputs = @ \cup {}]
           /\ UNCHANGED <<dagVars, conflictIDs>>
    <2>1. thread' = Seen({})
        BY <1>6, <1>9
    <2>2. /\ AcceptedConflicts' = AcceptedConflicts /\ Stored' = Stored /\ parents' = parents
          /\ conflictIDs' = conflictIDs /\ \A S : CoveredNext(S) = Covered(S)
        BY <1>8, <1>9
    <2>3. d \in booked => f \in Own(d)
        BY <1>1, <1>3, <1>4, <1>9 DEF Own
    <2>4. d \in booked => Own(d) \cup {f} \subseteq CoveredNext(Own(d)')
        <3>1. d \in booked => Own(d)' = Own(d)
            BY <1>1, <2>2 DEF Own
        <3>2. Own(d) \subseteq Covered(Own(d))
            BY <1>0, OwnKnown, Covers
        <3> QED
            BY <2>2, <2>3, <3>1, <3>2
    <2>5. conflictIDs[d] \subseteq CoveredNext(conflictIDs'[d])
        BY <1>0, <1>5, <2>2, CoversNext
    <2> QED
        <3>1. Visits(t, d, {}) /\ {} \in SUBSET OutputIDs(d)
            BY <1>1, <2>1, <2>2 DEF Visits
        <3>2. conflictIDs'[d] = conflictIDs[d] /\ parents'[d] \subseteq parents[d] \cup {f}
            BY <2>2
        <3> QED
            BY <2>4, <2>5, <3>1, <3>2, VisitInherits
<1>10. CASE /\ d \in stored /\ ~IsConflicting(d) /\ f \notin conflictIDs[d]
            /\ conflictIDs' = [conflictIDs EXCEPT ![d] = ConflictIDsAfterFork(d, f, th.previous)]
            /\ thread' = [thread EXCEPT ![t].visit = @ \ {d}, ![t].seen = @ \cup {d},
                                        ![t].outputs = @ \cup OutputIDs(d)]
            /\ UNCHANGED dagVars
    <2>1. thread' = Seen(OutputIDs(d))
        BY <1>6, <1>10
    <2>2. /\ AcceptedConflicts' = AcceptedConflicts /\ Stored' = Stored /\ parents' = parents
          /\ \A S : CoveredNext(S) = Covered(S)
        BY <1>8, <1>10
    <2>3. /\ conflictIDs'[d] = ConflictIDsAfterFork(d, f, th.previous)
          /\ \A x \in TransactionID \ {d} : conflictIDs'[x] = conflictIDs[x]
        BY <1>10 DEF InheritInv, BuildsInv, LedgerInv, LedgerTypeOK
    <2>4. /\ conflictIDs'[d] \subseteq conflictIDs[d] \cup {f}
          /\ \A c \in (conflictIDs[d] \ th.previous) \cup {f} : c \in AcceptedConflicts \/ c \in conflictIDs'[d]
        BY <1>2, <1>5, <2>3 DEF ConflictIDsAfterFork, UnconfirmedConflicts, AcceptedConflicts, TransactionID
    <2>5. conflictIDs[d] \cup {f} \subseteq CoveredNext(conflictIDs'[d])
        <3>1. /\ conflictIDs'[d] \subseteq CoveredNext(conflictIDs'[d])
              /\ AcceptedConflicts \subseteq CoveredNext(conflictIDs'[d])
            BY <1>0, <1>5, <2>2, CoversNext
        <3>2. {f} \in SUBSET ConflictID /\ {f} \subseteq CoveredNext(conflictIDs'[d])
            BY <1>2, <2>4, <3>1
        <3>3. CoveredNext({f}) \subseteq CoveredNext(conflictIDs'[d])
            BY <1>0, <1>5, <3>2, CoverWithinNext
        <3> QED
            BY <1>2, <2>2, <2>4, <3>1, <3>2, <3>3
    <2>6. d \notin Stored
        BY <1>3, <1>10
    <2>7. d \in booked => Own(d) = conflictIDs[d] /\ Own(d)' = conflictIDs'[d]
        BY <1>1, <2>2, <2>6 DEF Own
    <2>8. \A x \in TransactionID \ {d} : conflictIDs'[x] = conflictIDs[x] /\ parents'[x] = parents[x]
        BY <2>2, <2>3
    <2>9. \A S \in SUBSET ConflictID : Covered(S) \subseteq CoveredNext(S)
        BY <2>2
    <2> QED
        <3>1. Visits(t, d, OutputIDs(d)) /\ OutputIDs(d) \in SUBSET OutputIDs(d)
            BY <1>1, <2>1, <2>2, <2>8, <2>9 DEF Visits
        <3>2. parents'[d] \subseteq parents[d] \cup {f}
            BY <2>2
        <3> QED
            BY <2>4, <2>5, <2>6, <2>7, <3>1, <3>2, VisitInherits
<1> QED
    BY <1>7, <1>9, <1>10 DEF PropagateForkedConflict

(* Acceptance accepts the conflict and conflicts that are parents of others. *)
LEMMA AcceptsUsed ==
    ASSUME TypeOK, NEW id \in ConflictID, NEW c \in NewlyAccepted(id), c # id
    PROVE  \E x \in ConflictID : c \in parents[x]
<1> DEFINE up == {e \in ParentEdges : e[1] \in Stored /\ confirmationState[e[1]] # Accepted}
           T  == {id} \cup {y \in ConflictID : \E x \in ConflictID : y \in parents[x]}
<1>1. c \in Walk({id}, up)
    BY DEF NewlyAccepted
<1>2. T \in SUBSET ConflictID /\ {id} \subseteq T /\ \A e \in up : e[2] \in T
    BY DEF ParentEdges
<1>3. c \in T
    <2> HIDE DEF T, up
    <2> QED
        BY <1>1, <1>2, WalkLeast
<1> QED
    BY <1>3

(* An accepted conflict is merged to master together with its ancestors. *)
LEMMA AcceptInherits ==
    ASSUME InheritInv, BuildsInv', NEW t \in TransactionID, AcceptConflict(t)
    PROVE  InheritInv'
<1>1. /\ UNCHANGED <<parents, booked, conflictIDs, firstConsumer, lock, thread>>
      /\ SetConflictAccepted(t) /\ IsConflicting(t) /\ t \in ConflictID
    BY DEF AcceptConflict, SetConflictAccepted, bookVars, TransactionID
<1>2. Stored' = Stored /\ AcceptedConflicts' = AcceptedConflicts \cup NewlyAccepted(t)
    BY <1>1, AcceptStep DEF AcceptConflict, InheritInv, BuildsInv
<1>3. TypeOK /\ TypeOK' /\ \A c \in ConflictID : parents[c] \subseteq Stored
    BY DEF InheritInv, BuildsInv, ConflictGraph, DAGCore
<1>4. ASSUME NEW c \in NewlyAccepted(t), NEW p \in parents[c]
      PROVE  p \in AcceptedConflicts'
    <2>1. parents[c] \subseteq Stored
        BY <1>1, <1>3, <1>4, AcceptedUpwards DEF Stored
    <2> QED
        BY <1>1, <1>2, <1>3, <1>4, <2>1, ParentsAccepted
<1>5. \A S \in SUBSET ConflictID : Covered(S) \subseteq CoveredNext(S)
    <2>1. ASSUME NEW c \in ConflictID \ AcceptedConflicts
          PROVE  parents[c] \subseteq CoveredNext({c})
        <3>1. /\ c \in CoveredNext({c}) /\ AcceptedConflicts' \subseteq CoveredNext({c})
              /\ c \in AcceptedConflicts' \/ parents'[c] \subseteq CoveredNext({c})
            BY <1>3, CoversNext
        <3> QED
            BY <1>1, <1>2, <1>4, <2>1, <3>1
    <2> QED
        BY <1>2, <1>3, <2>1, CoverGrows
<1>6. \A x \in TransactionID : (Has(x)' <=> Has(x)) /\ Own(x)' = Own(x)
    BY <1>1, <1>2 DEF Has, Checked, Own
<1>7. Keeps
    <2>1. \A S \in SUBSET ConflictID : S \subseteq CoveredNext(S)
        BY <1>3, CoversNext
    <2>2. \A u \in booked : u \in booked' /\ conflictIDs[u] \subseteq CoveredNext(conflictIDs'[u])
        <3>1. \A u \in booked : u \in TransactionID /\ conflictIDs[u] \in SUBSET ConflictID
            BY HasKnown, OwnKnown DEF InheritInv
        <3> QED
            BY <1>1, <2>1, <3>1
    <2>3. \A x \in TransactionID : Has(x) => Has(x)' /\ Own(x) \subseteq CoveredNext(Own(x)')
        BY <1>6, <2>1, OwnKnown DEF InheritInv
    <2> QED
        BY <1>2, <1>5, <2>2, <2>3 DEF Keeps
<1>8. Newcomers
    BY <1>6 DEF Newcomers
<1>9. FreshConflicts'
    <2>1. \A c : Forking(c)' = Forking(c) /\ Making(c)' = Making(c) /\ IsConflicting(c)' = IsConflicting(c)
        BY <1>1 DEF Forking, Making, IsConflicting
    <2>2. \A c \in Stored : c \in NewlyAccepted(t) => Used(c) \/ IsConflicting(c)
        BY <1>1, <1>3, AcceptsUsed DEF Used, TransactionID
    <2>3. \A c \in Stored : Used(c)' => Used(c) \/ IsConflicting(c)'
        BY <1>1, <1>2, <2>1, <2>2 DEF Used
    <2> QED
        BY <1>1, <1>2, <2>1, <2>3, FreshStep DEF InheritInv
<1>10. PassedOn'
    <2>1. \A x, c : Awaits(x, c)' = Awaits(x, c)
        BY <1>1 DEF Awaits
    <2> QED
        BY <1>1, <1>7, <1>8, <2>1, PassedOnStep DEF InheritInv
<1>11. Justified'
    BY <1>6, <1>7, JustifiedStep DEF InheritInv
<1>12. Spreads(t)'
    BY <1>1, <1>7, <1>8, SpreadsOn DEF InheritInv
<1>13. LocksHeld'
    BY <1>1 DEF LocksHeld, InheritInv
<1> QED
    BY <1>1, <1>7, <1>8, <1>9, <1>10, <1>11, <1>12, <1>13, InheritStep

(* Nothing is inherited in the beginning. *)
LEMMA InitInherits == InitLedger => InheritInv
<1> SUFFICES ASSUME InitLedger PROVE InheritInv
    OBVIOUS
<1>1. /\ booked = Loaded /\ conflictIDs = [t \in TransactionID |-> {}]
      /\ \A t \in TransactionID : thread[t].pc = "idle" /\ thread[t].inherited = {} /\ thread[t].seen = {}
    BY DEF InitLedger, Idle
<1>2. Stored = {}
    BY DEF InitLedger, InitDAG, Stored
<1>3. FirstConsumersHave
    <2> SUFFICES ASSUME NEW o \in OutputID, NEW f \in TransactionID, firstConsumer[o] = f
                 PROVE  f \in Loaded
        BY <1>1 DEF FirstConsumersHave, Has
    <2>1. firstConsumer[o] = IF \E t \in Loaded : o \in Inputs[t] THEN CHOOSE t \in Loaded : o \in Inputs[t] ELSE None
        BY DEF InitLedger
    <2> QED
        BY <2>1, InputsTyped
<1>4. LocksHeld /\ FreshConflicts /\ \A w \in TransactionID : Spreads(w)
    BY <1>1, <1>2 DEF LocksHeld, FreshConflicts, Spreads
<1>5. PassedOn
    BY <1>1, InputsTyped DEF PassedOn
<1>6. Justified
    BY <1>1, <1>2 DEF Justified, Own
<1> QED
    BY <1>3, <1>4, <1>5, <1>6, InitBuilds DEF InheritInv

(* Every step keeps the invariant. *)
LEMMA StepInherits ==
    ASSUME InheritInv, [NextLedger]_vars
    PROVE  InheritInv'
<1>0. BuildsInv'
    BY StepImplementsDAG DEF InheritInv
<1>1. ASSUME NEW t \in TransactionID, ThreadStep(t) PROVE InheritInv'
    <2>1. CASE AbortProcessing(t)
        BY <1>0, <2>1, StartInherits
    <2>2. CASE InheritConflictIDs(t)
        BY <1>0, <2>2, InheritInherits
    <2>3. ASSUME NEW o \in OutputID, RegisterBookedConsumer(t, o) PROVE InheritInv'
        BY <1>0, <2>3, RegisterInherits
    <2>4. ASSUME NEW o \in OutputID, WalkOutput(t, o) PROVE InheritInv'
        BY <1>0, <2>4, WalkOutputInherits
    <2>5. CASE BookWithoutConflict(t) \/ BookForked(t)
        BY <1>0, <2>5, BookInherits
    <2>6. CASE BookConflict(t)
        BY <1>0, <2>6, BookConflictInherits
    <2>7. ASSUME NEW f \in TransactionID, ForkTransaction(t, f) PROVE InheritInv'
        BY <1>0, <2>7, ForkInherits
    <2>8. ASSUME NEW f \in TransactionID, ForkConflicting(t, f) PROVE InheritInv'
        BY <1>0, <2>8, ForkAgainInherits
    <2>9. CASE UpdateForked(t)
        BY <1>0, <2>9, UpdateForkedInherits
    <2>10. CASE EndPropagation(t)
        BY <1>0, <2>10, EndInherits
    <2>11. ASSUME NEW d \in TransactionID, PropagateForkedConflict(t, d) PROVE InheritInv'
        BY <1>0, <2>11, PropagateInherits
    <2>12. CASE TriggerConflictCreated(t) /\ UNCHANGED ledgerVars
        BY <1>0, <2>12, HandlersInherit
    <2> QED
        BY <1>1, <2>1, <2>2, <2>3, <2>4, <2>5, <2>6, <2>7, <2>8, <2>9, <2>10, <2>11, <2>12 DEF ThreadStep
<1>2. ASSUME NEW t \in TransactionID, HandlerStep(t) PROVE InheritInv'
    BY <1>0, <1>2, StartInherits, HandlersInherit DEF HandlerStep
<1>3. ASSUME NEW t \in TransactionID, StoreTransaction(t) PROVE InheritInv'
    BY <1>0, <1>3, StartInherits
<1>4. ASSUME NEW t \in TransactionID, SetTransactionInclusionTime(t) \/ AcceptConflict(t) PROVE InheritInv'
    BY <1>0, <1>4, HandlersInherit, AcceptInherits
<1>5. CASE UNCHANGED vars
    <2>1. CASE TransactionID # {}
        BY <1>0, <1>5, <2>1, HandlersInherit
    <2>2. CASE TransactionID = {}
        BY <1>0, <2>2 DEF InheritInv, LocksHeld, FirstConsumersHave, FreshConflicts, PassedOn, Justified,
                          Stored, TransactionID
    <2> QED
        BY <2>1, <2>2
<1> QED
    BY <1>1, <1>2, <1>3, <1>4, <1>5 DEF NextLedger, Booking, Progress, Consensus

(* In every reachable state a transaction has inherited what its inputs stand for, or a walk will *)
(* bring it, and nothing else.                                                                    *)
THEOREM InheritInvariant == SpecLedger => []InheritInv
<1>1. InitLedger => InheritInv
    BY InitInherits
<1>2. InheritInv /\ [NextLedger]_vars => InheritInv'
    BY StepInherits
<1> QED
    BY <1>1, <1>2, PTL DEF SpecLedger

(* The walks of ConflictsInherited. *)
OpenCreatorEdges == {e \in CreatorEdges : ~IsAccepted(confirmationState[e[1]])}
OpenParentEdges  == {e \in ParentEdges : ~IsAccepted(confirmationState[e[1]])}

(* When no thread is booking, conflicts are booked and themselves, and no walk is to come. *)
LEMMA QuietFacts ==
    ASSUME InheritInv, Quiet
    PROVE  /\ \A x \in TransactionID : Has(x) <=> x \in booked
           /\ \A x, c : ~Awaits(x, c)
           /\ \A c \in Stored : c \in booked /\ conflictIDs[c] = {c}
<1>1. \A x \in TransactionID : thread[x].pc = "idle"
    BY DEF Quiet, Running
<1>2. \A c \in Stored : ~Forking(c) /\ ~Making(c)
    BY <1>1 DEF Forking, Making, Stored, TransactionID
<1> QED
    BY <1>1, <1>2 DEF Has, Checked, Awaits, InheritInv, FreshConflicts, IsConflicting

(* The walk over the parents finds what the conflicts stand for, up to what is accepted. *)
LEMMA CoveredWalked ==
    ASSUME TypeOK, NEW S \in SUBSET ConflictID
    PROVE  /\ Walk(S, OpenParentEdges) \subseteq Covered(S)
           /\ Covered(S) \subseteq Walk(S, OpenParentEdges) \cup AcceptedConflicts
<1> DEFINE W == Walk(S, OpenParentEdges)
           T == W \cup AcceptedConflicts
<1>1. \A e \in OpenParentEdges : e[1] \in ConflictID \ AcceptedConflicts /\ e[2] \in parents[e[1]]
    BY DEF OpenParentEdges, ParentEdges, AcceptedConflicts, TransactionID
<1>2. \A c \in ConflictID \ AcceptedConflicts : \A p \in parents[c] : p \in ConflictID /\ <<c, p>> \in OpenParentEdges
    BY DEF OpenParentEdges, ParentEdges, AcceptedConflicts, TransactionID, TypeOK
<1>3. W \subseteq Covered(S)
    <2>1. Covered(S) \in SUBSET ConflictID /\ S \subseteq Covered(S)
        BY Covers
    <2>2. \A e \in OpenParentEdges : e[1] \in Covered(S) => e[2] \in Covered(S)
        BY <1>1, Covers
    <2> QED
        BY <2>1, <2>2, WalkLeast
<1>4. S \subseteq T /\ T \in SUBSET ConflictID /\ AcceptedConflicts \subseteq T
    BY WalkStart DEF AcceptedConflicts, TransactionID
<1>5. ASSUME NEW c \in T, c \notin AcceptedConflicts, NEW p \in parents[c]
      PROVE  p \in T
    <2>1. c \in W /\ c \in ConflictID
        BY <1>4, <1>5
    <2>2. p \in ConflictID /\ <<c, p>> \in OpenParentEdges
        BY <1>2, <1>5, <2>1
    <2> QED
        BY <2>1, <2>2, WalkPush
<1>6. Closed(T, parents, AcceptedConflicts)
    <2> HIDE DEF T
    <2> QED
        BY <1>4, <1>5 DEF Closed
<1>7. Covered(S) \subseteq T
    <2> HIDE DEF T
    <2> QED
        BY <1>4, <1>6, Covers
<1> QED
    BY <1>3, <1>7

(* Where the walk over the inputs of t goes from an input that it goes to. *)
LEMMA CreatorWalk ==
    ASSUME NEW t \in TransactionID, NEW o \in Inputs[t], Creator[o] # Genesis, t \notin AcceptedConflicts
    PROVE  Walk({Creator[o]}, OpenCreatorEdges) \subseteq Walk({t}, OpenCreatorEdges)
<1> DEFINE u == Creator[o]
           W == Walk({t}, OpenCreatorEdges)
<1>1. t \in ConflictID /\ u \in ConflictID /\ <<t, u>> \in OpenCreatorEdges
    BY CreatorKnown DEF OpenCreatorEdges, AcceptedConflicts, TransactionID
<1>2. t \in W /\ W \in SUBSET ConflictID
    BY <1>1, WalkStart
<1>3. {u} \subseteq W
    BY <1>1, <1>2, WalkPush
<1>4. ASSUME NEW e \in OpenCreatorEdges, e[1] \in W
      PROVE  e[2] \in W
    <2>1. e = <<e[1], e[2]>> /\ e[2] \in ConflictID
        BY DEF OpenCreatorEdges, CreatorEdges, TransactionID
    <2> QED
        BY <1>4, <2>1, WalkPush
<1> QED
    <2> HIDE DEF W
    <2>1. Walk({u}, OpenCreatorEdges) \subseteq W
        BY <1>2, <1>3, <1>4, WalkLeast
    <2> QED
        BY <2>1 DEF W

(* No transaction stands for a conflict that it does not depend on. *)
LEMMA NothingElse ==
    ASSUME InheritInv, Quiet, NEW t \in booked
    PROVE  Covered(conflictIDs[t]) \subseteq (Walk({t}, OpenCreatorEdges) \cap Stored) \cup AcceptedConflicts
<1> DEFINE Reached(x) == (Walk({x}, OpenCreatorEdges) \cap Stored) \cup AcceptedConflicts
           S == {x \in booked : ~(Covered(conflictIDs[x]) \subseteq Reached(x))}
<1>0. BuildsInv /\ TypeOK
    BY DEF InheritInv, BuildsInv, ConflictGraph, DAGCore
<1>1. booked \subseteq ConflictID
    BY <1>0, HasKnown, InputsTyped DEF TransactionID, BuildsInv, LedgerInv, LedgerTypeOK
<1> SUFFICES ASSUME S # {} PROVE FALSE
    OBVIOUS
<1>2. S \in SUBSET ConflictID
    BY <1>1
<1>3. PICK m \in S : \A o \in Inputs[m] : Creator[o] \notin S
    <2> HIDE DEF S
    <2> QED
        BY <1>2, LedgerAssumption
<1>4. m \in booked /\ m \in TransactionID /\ Has(m) /\ conflictIDs[m] \in SUBSET ConflictID
    BY <1>0, <1>1, <1>3, OwnKnown DEF Has, TransactionID
<1> DEFINE Of(o) == Covered(conflictIDs[Creator[o]])
           Ins == {o \in Inputs[m] : Creator[o] # Genesis /\ m \notin AcceptedConflicts}
           T == ({m} \cap Stored) \cup AcceptedConflicts \cup UNION {Of(o) : o \in Ins}
<1>5. ASSUME NEW o \in Inputs[m], Creator[o] # Genesis
      PROVE  /\ Creator[o] \in booked /\ Of(o) \in SUBSET ConflictID /\ Of(o) \subseteq Reached(Creator[o])
             /\ \A c \in Of(o) : c \in AcceptedConflicts \/ parents[c] \subseteq Of(o)
    <2>1. Creator[o] \in booked
        BY <1>0, <1>4, <1>5, HasKnown
    <2>2. conflictIDs[Creator[o]] \in SUBSET ConflictID
        BY <1>0, <1>1, <2>1, OwnKnown DEF TransactionID
    <2>3. Of(o) \subseteq Reached(Creator[o])
        BY <1>3, <2>1
    <2> QED
        BY <1>0, <2>1, <2>2, <2>3, Covers
<1>6. AcceptedConflicts \in SUBSET ConflictID
    BY DEF AcceptedConflicts, TransactionID
<1>7. T \in SUBSET ConflictID /\ AcceptedConflicts \subseteq T
    BY <1>1, <1>4, <1>5, <1>6
<1>8. ASSUME m \notin AcceptedConflicts
      PROVE  Own(m) \subseteq T
    <2>1. ASSUME NEW c \in Own(m), c \notin AcceptedConflicts PROVE c \in T
        <3>1. PICK o \in Inputs[m] : Brings(c, o)
            BY <1>4, <2>1 DEF InheritInv, Justified
        <3>2. Creator[o] # Genesis /\ c \in Of(o)
            BY <1>0, <1>4, <3>1, HasKnown DEF Brings
        <3> QED
            BY <1>8, <3>2
    <2> QED
        BY <1>7, <2>1
<1>9. conflictIDs[m] \subseteq T
    <2>1. CASE m \in Stored
        BY <2>1, QuietFacts
    <2>2. CASE m \notin Stored
        <3>1. Own(m) = conflictIDs[m]
            BY <1>4, <2>2 DEF Own
        <3>2. m \notin AcceptedConflicts
            BY <2>2, AcceptedStored
        <3> QED
            BY <1>8, <3>1, <3>2
    <2> QED
        BY <2>1, <2>2
<1>10. ASSUME NEW c \in T, c \notin AcceptedConflicts
       PROVE  parents[c] \subseteq T
    <2>1. CASE c = m /\ m \in Stored
        BY <1>8, <1>10, <2>1 DEF Own
    <2>2. ASSUME NEW o \in Ins, c \in Of(o) PROVE parents[c] \subseteq T
        BY <1>5, <1>10, <2>2
    <2> QED
        BY <1>10, <2>1, <2>2
<1>11. Covered(conflictIDs[m]) \subseteq T
    <2> HIDE DEF T
    <2>1. Closed(T, parents, AcceptedConflicts)
        BY <1>7, <1>10 DEF Closed
    <2> QED
        BY <1>0, <1>4, <1>7, <1>9, <2>1, Covers
<1>12. T \subseteq Reached(m)
    <2>1. m \in Walk({m}, OpenCreatorEdges)
        BY <1>1, <1>4, WalkStart
    <2>2. ASSUME NEW o \in Ins PROVE Of(o) \subseteq Reached(m)
        <3>1. Of(o) \subseteq Reached(Creator[o])
            BY <1>5
        <3>2. Walk({Creator[o]}, OpenCreatorEdges) \subseteq Walk({m}, OpenCreatorEdges)
            BY <1>4, CreatorWalk
        <3> QED
            BY <3>1, <3>2
    <2> QED
        BY <2>1, <2>2
<1> QED
    BY <1>3, <1>11, <1>12

(* A transaction stands for every conflict that it depends on. *)
LEMMA NothingMissed ==
    ASSUME InheritInv, Quiet, NEW t \in booked
    PROVE  Walk({t}, OpenCreatorEdges) \cap Stored \subseteq Covered(conflictIDs[t])
<1> DEFINE C == Covered(conflictIDs[t])
           T == {x \in booked : conflictIDs[x] \subseteq C}
<1>0. BuildsInv /\ TypeOK
    BY DEF InheritInv, BuildsInv, ConflictGraph, DAGCore
<1>1. booked \subseteq ConflictID /\ TransactionID = ConflictID
    BY <1>0 DEF TransactionID, BuildsInv, LedgerInv, LedgerTypeOK
<1>2. conflictIDs[t] \in SUBSET ConflictID
    BY <1>0, <1>1, OwnKnown
<1>3. /\ conflictIDs[t] \subseteq C /\ C \in SUBSET ConflictID
      /\ \A c \in C : c \in AcceptedConflicts \/ parents[c] \subseteq C
    BY <1>0, <1>2, Covers
<1>4. ASSUME NEW e \in OpenCreatorEdges, e[1] \in T
      PROVE  e[2] \in T
    <2> DEFINE x == e[1]
    <2>1. x \in TransactionID /\ e[2] \in TransactionID /\ x \notin AcceptedConflicts /\ x \in booked /\ Has(x)
        BY <1>4, QuietFacts DEF OpenCreatorEdges, CreatorEdges, AcceptedConflicts
    <2>2. PICK o \in Inputs[x] : Creator[o] = e[2]
        BY DEF OpenCreatorEdges, CreatorEdges
    <2>3. Creator[o] # Genesis /\ e[2] \in booked
        BY <1>0, <2>1, <2>2, HasKnown, InputsTyped
    <2>4. conflictIDs[e[2]] \subseteq Covered(Own(x))
        BY <2>1, <2>2, <2>3, QuietFacts DEF InheritInv, PassedOn
    <2>5. Own(x) \subseteq C
        <3>1. CASE x \in Stored
            <4>1. x \in C
                BY <1>4, <3>1, QuietFacts
            <4> QED
                BY <1>3, <2>1, <3>1, <4>1 DEF Own
        <3>2. CASE x \notin Stored
            BY <1>4, <2>1, <3>2 DEF Own
        <3> QED
            BY <3>1, <3>2
    <2>6. Covered(Own(x)) \subseteq C
        BY <1>0, <1>2, <1>3, <2>5, CoverWithin
    <2> QED
        BY <2>3, <2>4, <2>6
<1>5. Walk({t}, OpenCreatorEdges) \subseteq T
    <2>1. {t} \subseteq T /\ T \in SUBSET ConflictID
        BY <1>1, <1>3
    <2> HIDE DEF T
    <2> QED
        BY <1>4, <2>1, WalkLeast
<1> QED
    BY <1>5, QuietFacts

(* When no thread is booking, the conflicts of a booked transaction are the contested transactions *)
(* that it builds on: no fork was missed, although the transaction was booked while it spread, and *)
(* none came to a transaction that does not depend on it.                                          *)
THEOREM ForksReachDependants == SpecLedger => []ConflictsInherited
<1>1. ASSUME InheritInv PROVE ConflictsInherited
    <2> SUFFICES ASSUME Quiet, NEW t \in booked
                 PROVE  UnconfirmedConflicts(Walk(conflictIDs[t], OpenParentEdges)) =
                            UnconfirmedConflicts(Walk({t}, OpenCreatorEdges) \cap Stored)
        BY DEF ConflictsInherited, OpenParentEdges, OpenCreatorEdges
    <2>1. TypeOK /\ t \in ConflictID /\ conflictIDs[t] \in SUBSET ConflictID
        BY <1>1, OwnKnown DEF InheritInv, BuildsInv, LedgerInv, LedgerTypeOK, ConflictGraph, DAGCore, TransactionID
    <2>2. /\ Walk(conflictIDs[t], OpenParentEdges) \subseteq Covered(conflictIDs[t])
          /\ Covered(conflictIDs[t]) \subseteq Walk(conflictIDs[t], OpenParentEdges) \cup AcceptedConflicts
        BY <2>1, CoveredWalked
    <2>3. /\ Covered(conflictIDs[t]) \subseteq (Walk({t}, OpenCreatorEdges) \cap Stored) \cup AcceptedConflicts
          /\ Walk({t}, OpenCreatorEdges) \cap Stored \subseteq Covered(conflictIDs[t])
        BY <1>1, NothingElse, NothingMissed
    <2>4. \A X : UnconfirmedConflicts(X) = {c \in X : ~IsAccepted(confirmationState[c])}
        BY DEF UnconfirmedConflicts
    <2>5. \A c \in AcceptedConflicts : IsAccepted(confirmationState[c])
        BY DEF AcceptedConflicts
    <2> QED
        BY <2>2, <2>3, <2>4, <2>5
<1> QED
    BY <1>1, InheritInvariant, PTL

=============================================================================
