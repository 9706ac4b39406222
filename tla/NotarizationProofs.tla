-------------------------- MODULE NotarizationProofs --------------------------
(***************************************************************************)
(* Proofs about the notarization manager: NotarizationInv is an inductive  *)
(* invariant, so the epochs of the manager are consistent for every mesh,  *)
(* every epoch length, every snapshot depth and every order of the events. *)
(***************************************************************************)
EXTENDS Notarization, ConflictDAGProofs, WellFoundedInduction, TLAPS

(* An epoch index is in the range of the epochs, or 0 before the genesis. *)
LEMMA IndexInRange ==
    ASSUME NEW t \in Time
    PROVE  IndexFromTime(t) \in 0 .. MaxEpoch
<1>1. CASE t = NoTime
    BY <1>1, NotarizationAssumption DEF IndexFromTime, NoTime
<1>2. CASE \E b \in Block : t = IssuingTime[b]
    <2>1. PICK b \in Block : t = IssuingTime[b]
        BY <1>2
    <2>2. EpochOf(b) \in Epoch
        BY NotarizationAssumption
    <2> QED
        BY <2>1, <2>2, NotarizationAssumption DEF EpochOf, Epoch
<1> QED
    BY <1>1, <1>2 DEF Time

(* Blocks are issued at a time. *)
LEMMA IssuingTimeIsTime == \A b \in Block : IssuingTime[b] \in Time
    BY DEF Time

(* Committed epochs are epochs. *)
LEMMA CommittedAreEpochs ==
    ASSUME EpochsTyped
    PROVE  /\ MaxEpoch \in Nat /\ committed \in Nat
           /\ \A e \in 1 .. committed : e \in Epoch /\ e <= committed
           /\ \A e \in Epoch : e \in Nat /\ (e <= committed => e \in 1 .. committed)
    BY NotarizationAssumption DEF EpochsTyped, Epoch

(* The earliest attachment of a conflict exists, so its epoch does. *)
LEMMA ConflictEpochExists ==
    ASSUME EpochsTyped, NEW c, \E b \in attached : Payload[b] = c
    PROVE  getConflictEI(c) \in Epoch
<1> DEFINE attachments == {b \in attached : Payload[b] = c}
           times == {IssuingTime[b] : b \in attachments}
           Earliest(b) == \A d \in attachments : IssuingTime[b] <= IssuingTime[d]
<1>1. attachments \subseteq Block
    BY DEF EpochsTyped
<1>2. times \subseteq Nat /\ times # {}
    BY <1>1, NotarizationAssumption
<1>3. PICK t \in times : \A s \in times : ~(<<s, t>> \in OpToRel(<, Nat))
    <2> HIDE DEF times
    <2> QED BY <1>2, NatLessThanWellFounded, WFMin
<1>4. \A s \in times : t <= s
    <2> SUFFICES ASSUME NEW s \in times PROVE t <= s
        OBVIOUS
    <2>1. s \in Nat /\ t \in Nat
        BY <1>2, <1>3
    <2>2. ~(s < t)
        BY <1>3, <2>1 DEF OpToRel
    <2> QED BY <2>1, <2>2
<1>5. PICK b \in attachments : IssuingTime[b] = t
    BY <1>3
<1>6. \E x \in attachments : Earliest(x)
    BY <1>4, <1>5
<1>7. (CHOOSE x \in attachments : Earliest(x)) \in attachments
    <2> HIDE DEF attachments, Earliest
    <2> QED BY <1>6
<1>8. getConflictEI(c) = EpochOf(CHOOSE x \in attachments : Earliest(x))
    BY DEF getConflictEI
<1> QED
    BY <1>1, <1>7, <1>8, NotarizationAssumption

-----------------------------------------------------------------------------
(* Lemmas about what a set of transactions creates and spends. *)

(* A transaction adds its outputs and its inputs. *)
LEMMA DiffOfAdded ==
    ASSUME NEW S, NEW tx
    PROVE  /\ CreatedBy(S \cup {tx}) = CreatedBy(S) \cup Outputs[tx]
           /\ SpentBy(S \cup {tx}) = SpentBy(S) \cup Inputs[tx]
    BY DEF CreatedBy, SpentBy

(* Without a transaction, exactly its outputs are gone: no two create the same one. *)
LEMMA CreatedOfRemoved ==
    ASSUME NEW S \in SUBSET Transaction, NEW tx \in S
    PROVE  CreatedBy(S \ {tx}) = CreatedBy(S) \ Outputs[tx]
<1>1. \A u \in S \ {tx} : Outputs[u] \cap Outputs[tx] = {}
    BY NotarizationAssumption
<1> QED
    BY <1>1 DEF CreatedBy

(* And exactly its inputs, among transactions that do not compete. *)
LEMMA SpentOfRemoved ==
    ASSUME NEW S, NEW tx \in S,
           \A u, v \in S : u # v => Inputs[u] \cap Inputs[v] = {}
    PROVE  SpentBy(S \ {tx}) = SpentBy(S) \ Inputs[tx]
<1>1. \A u \in S \ {tx} : Inputs[u] \cap Inputs[tx] = {}
    OBVIOUS
<1> QED
    BY <1>1 DEF SpentBy

(* What transactions create and spend are outputs. *)
LEMMA DiffsAreOutputs ==
    ASSUME NEW tx \in Transaction
    PROVE  Inputs[tx] \subseteq OutputID /\ Outputs[tx] \subseteq OutputID
    BY NotarizationAssumption DEF OutputID

-----------------------------------------------------------------------------
(* Lemmas about steps that leave parts of the manager alone. *)

(* Snapshot and commitments depend on the diffs of the committed epochs only. *)
LEMMA SnapshotKept ==
    ASSUME EpochsTyped, SnapshotReproducesState, UNCHANGED commitVars,
           \A ei \in Epoch : ei <= committed => created'[ei] = created[ei] /\ spent'[ei] = spent[ei]
    PROVE  SnapshotReproducesState'
<1>1. \A o \in OutputID : Changed(o)' = Changed(o)
    BY DEF Changed, commitVars, EpochsTyped
<1>2. \A o \in OutputID : \A ei \in Changed(o) : created'[ei] = created[ei]
    BY DEF Changed
<1> QED
    BY <1>1, <1>2 DEF SnapshotReproducesState, commitVars

(* The actions of the environment change nothing of the manager. *)
LEMMA ManagerUntouched ==
    ASSUME NotarizationInv, UNCHANGED managerVars
    PROVE  /\ \A ei \in Epoch : Mutations(ei)' = Mutations(ei)
           /\ TransactionInOneEpoch' /\ DiffsMatchMutations'
           /\ SnapshotReproducesState' /\ CommittedEpochsClosed'
<1>1. \A ei : Mutations(ei)' = Mutations(ei)
    BY DEF Mutations, managerVars, epochVars, commitVars
<1>2. TransactionInOneEpoch'
    BY <1>1 DEF NotarizationInv, TransactionInOneEpoch
<1>3. DiffsMatchMutations'
    BY <1>1 DEF NotarizationInv, DiffsMatchMutations, managerVars, epochVars, commitVars
<1>4. SnapshotReproducesState'
    BY SnapshotKept DEF NotarizationInv, managerVars, epochVars, commitVars
<1>5. CommittedEpochsClosed'
    BY DEF NotarizationInv, CommittedEpochsClosed, managerVars, epochVars, commitVars
<1> QED
    BY <1>1, <1>2, <1>3, <1>4, <1>5

(* The events of conflicts go to inflight; those of transactions are unaffected. *)
LEMMA DAGEventsOnly ==
    ASSUME NotarizationInv, UNCHANGED <<meshVars, managerVars>>,
           \A ev \in inflight' : ev \in inflight \/ ev.type # "TransactionAccepted"
    PROVE  EpochsTyped' /\ OncePending'
<1>1. EpochsTyped'
    BY DEF NotarizationInv, EpochsTyped, meshVars, managerVars, epochVars, commitVars
<1>2. \A tx : TransactionAccepted(tx) \in inflight' => TransactionAccepted(tx) \in inflight
    BY DEF TransactionAccepted
<1>3. OncePending'
    BY <1>2, ManagerUntouched DEF NotarizationInv, OncePending, meshVars
<1> QED
    BY <1>1, <1>3

(* Nothing happens to the conflicts, and the conflict events are not new. *)
LEMMA ConflictsKept ==
    ASSUME ConflictsAttached, UNCHANGED dagVars, attached \subseteq attached',
           \A ev \in inflight' : ev \in inflight \/ ev.type \notin {"Created", "Accepted", "Rejected"}
    PROVE  ConflictsAttached'
<1>1. Stored' = Stored
    BY DEF Stored, dagVars
<1> QED
    BY <1>1 DEF ConflictsAttached, dagVars

(* A step that handles an event, in terms of inflight. *)
LEMMA HandlerKeepsConflicts ==
    ASSUME NotarizationInv, NEW ev, Handle(ev)
    PROVE  ConflictsAttached'
    BY ConflictsKept DEF NotarizationInv, Handle, meshVars

-----------------------------------------------------------------------------
(* The actions of the environment. *)

(* A block that is accepted accepts its transaction once, and no competitor of it. *)
LEMMA TransactionAcceptedOnce ==
    ASSUME NotarizationInv, UNCHANGED managerVars, NEW tx \in Transaction,
           Acceptable(tx), acceptedTxs' = acceptedTxs \cup {tx},
           \A u \in Transaction : TransactionAccepted(u) \in inflight' => u = tx \/ TransactionAccepted(u) \in inflight
    PROVE  OncePending'
<1>1. \A ei \in Epoch : Mutations(ei)' = Mutations(ei) /\ tx \notin Mutations(ei)
    BY ManagerUntouched DEF NotarizationInv, OncePending, Acceptable
<1>2. \A u, v \in acceptedTxs' : u # v => Inputs[u] \cap Inputs[v] = {}
    BY DEF NotarizationInv, OncePending, Acceptable
<1> QED
    BY <1>1, <1>2 DEF NotarizationInv, OncePending

LEMMA AcceptBlockStep ==
    ASSUME NotarizationInv, NEW b \in Block, AcceptBlock(b)
    PROVE  NotarizationInv'
<1> DEFINE tx == Payload[b]
           first == UpdatesInclusion(b) /\ inclusionTime[tx] = NoTime /\ Acceptable(tx)
<1>1. UNCHANGED managerVars /\ UNCHANGED dagVars /\ attached' = attached
    BY DEF AcceptBlock
<1>2. UpdatesInclusion(b) => tx \in Transaction
    BY NotarizationAssumption DEF UpdatesInclusion
<1>3. \A ev \in inflight' : \/ ev \in inflight
                            \/ ev.type \in {"BlockAccepted", "UpdateTime", "InclusionUpdated"}
                            \/ first /\ ev = TransactionAccepted(tx)
    BY DEF AcceptBlock, BlockAccepted, UpdateTime, InclusionUpdated
<1>4. EpochsTyped'
    <2>1. inclusionTime' \in [Transaction -> Time]
        BY <1>2, IssuingTimeIsTime DEF AcceptBlock, NotarizationInv, EpochsTyped
    <2>2. acceptedTxs' \subseteq Transaction
        BY <1>2 DEF AcceptBlock, NotarizationInv, EpochsTyped
    <2> QED
        BY <1>1, <2>1, <2>2 DEF NotarizationInv, EpochsTyped, managerVars, epochVars, commitVars
<1>5. ConflictsAttached'
    BY <1>1, <1>3, ConflictsKept DEF NotarizationInv, TransactionAccepted
<1>6. OncePending'
    <2>1. \A u : TransactionAccepted(u) \in inflight' => TransactionAccepted(u) \in inflight \/ (first /\ u = tx)
        BY <1>3 DEF TransactionAccepted
    <2>2. CASE first
        <3>1. acceptedTxs' = acceptedTxs \cup {tx}
            BY <2>2 DEF AcceptBlock
        <3> QED
            BY <1>1, <1>2, <2>1, <2>2, <3>1, TransactionAcceptedOnce
    <2>3. CASE ~first
        <3>1. acceptedTxs' = acceptedTxs
            BY <2>3 DEF AcceptBlock
        <3> QED
            BY <1>1, <2>1, <2>3, <3>1, ManagerUntouched DEF NotarizationInv, OncePending
    <2> QED
        BY <2>2, <2>3
<1> QED
    BY <1>1, <1>4, <1>5, <1>6, ManagerUntouched DEF NotarizationInv

LEMMA AcceptTransactionStep ==
    ASSUME NotarizationInv, NEW tx \in Transaction, AcceptTransaction(tx)
    PROVE  NotarizationInv'
<1>1. UNCHANGED managerVars /\ UNCHANGED dagVars /\ attached' = attached
    BY DEF AcceptTransaction
<1>2. EpochsTyped'
    BY DEF AcceptTransaction, NotarizationInv, EpochsTyped, managerVars, epochVars, commitVars
<1>3. ConflictsAttached'
    BY <1>1, ConflictsKept DEF NotarizationInv, AcceptTransaction, TransactionAccepted
<1>4. OncePending'
    <2>1. \A u \in Transaction : TransactionAccepted(u) \in inflight' => u = tx \/ TransactionAccepted(u) \in inflight
        BY DEF AcceptTransaction, TransactionAccepted
    <2> QED
        BY <1>1, <2>1, TransactionAcceptedOnce DEF AcceptTransaction
<1> QED
    BY <1>1, <1>2, <1>3, <1>4, ManagerUntouched DEF NotarizationInv

(* The events of a step of the conflict DAG name stored conflicts. *)
LEMMA AcceptConflictStep ==
    ASSUME NotarizationInv, NEW c \in ConflictID, AcceptConflict(c)
    PROVE  NotarizationInv'
<1> DEFINE A == NewlyAccepted(c)
           R == NewlyRejected(A)
<1>1. c \in Stored /\ A \subseteq Stored /\ R \subseteq Stored
    BY DEF AcceptConflict, NewlyAccepted, NewlyRejected, Stored, Pending, Undefined
<1>2. /\ confirmationState' = [d \in ConflictID |-> IF d \in R THEN Rejected
                                ELSE IF d \in A THEN Accepted ELSE confirmationState[d]]
      /\ unannounced' = unannounced
      /\ inflight' = inflight \cup triggered'
      /\ triggered' = {NewEvent("Accepted", d, c) : d \in A} \cup {NewEvent("Rejected", d, d) : d \in R}
      /\ UNCHANGED <<meshVars, managerVars>>
    BY DEF AcceptConflict, SetConflictAccepted, AcceptedEventID
<1> HIDE DEF A, R
<1>3. \A ev \in triggered' : ev.type \in {"Accepted", "Rejected"} /\ ev.ID \in Stored
    BY <1>1, <1>2 DEF NewEvent
<1>4. confirmationState' \in [ConflictID -> State] /\ Stored' = Stored
    BY <1>1, <1>2 DEF NotarizationInv, ConflictsAttached, Stored, State, Undefined, Rejected, Accepted, Confirmed
<1>5. ConflictsAttached'
    BY <1>2, <1>3, <1>4 DEF NotarizationInv, ConflictsAttached, meshVars
<1>6. EpochsTyped' /\ OncePending'
    BY <1>2, <1>3, DAGEventsOnly
<1> QED
    BY <1>2, <1>5, <1>6, ManagerUntouched DEF NotarizationInv

LEMMA AddConflictStep ==
    ASSUME NotarizationInv, NEW c \in ConflictID, AddConflict(c)
    PROVE  NotarizationInv'
<1> DEFINE s == NewState(c, UnconfirmedConflicts(ConflictParents[c]), Inputs[c])
<1>1. /\ confirmationState' = [confirmationState EXCEPT ![c] = s]
      /\ unannounced' = unannounced \cup {c}
      /\ UNCHANGED <<meshVars, inflight, managerVars>>
      /\ \E b \in attached : Payload[b] = c
    BY DEF AddConflict, CreateConflict
<1>2. s \in {Rejected, Pending}
    BY DEF NewState
<1> HIDE DEF s
<1>3. confirmationState' \in [ConflictID -> State] /\ Stored' = Stored \cup {c}
    BY <1>1, <1>2 DEF NotarizationInv, ConflictsAttached, Stored, State, Undefined, Rejected, Pending, Confirmed
<1>4. ConflictsAttached'
    BY <1>1, <1>3 DEF NotarizationInv, ConflictsAttached, meshVars
<1>5. EpochsTyped' /\ OncePending'
    BY <1>1, DAGEventsOnly
<1> QED
    BY <1>1, <1>4, <1>5, ManagerUntouched DEF NotarizationInv

LEMMA AnnounceConflictStep ==
    ASSUME NotarizationInv, NEW c \in ConflictID, AnnounceConflict(c)
    PROVE  NotarizationInv'
<1>1. /\ confirmationState' = confirmationState
      /\ c \in unannounced /\ unannounced' = unannounced \ {c}
      /\ inflight' = inflight \cup {NewEvent("Created", c, c)}
      /\ UNCHANGED <<meshVars, managerVars>>
    BY DEF AnnounceConflict, TriggerConflictCreated
<1>2. Stored' = Stored
    BY <1>1 DEF Stored
<1>3. ConflictsAttached'
    BY <1>1, <1>2 DEF NotarizationInv, ConflictsAttached, NewEvent, meshVars
<1>4. EpochsTyped' /\ OncePending'
    BY <1>1, DAGEventsOnly DEF NewEvent
<1> QED
    BY <1>1, <1>3, <1>4, ManagerUntouched DEF NotarizationInv

(* The other actions of the environment, and events that are lost. *)
LEMMA EnvironmentStep ==
    ASSUME NotarizationInv, Environment
    PROVE  NotarizationInv'
<1>1. ASSUME NEW b \in Block, StoreAttachment(b)
      PROVE  NotarizationInv'
    <2>1. ConflictsAttached'
        BY <1>1, ConflictsKept DEF NotarizationInv, StoreAttachment
    <2>2. EpochsTyped'
        BY <1>1 DEF StoreAttachment, NotarizationInv, EpochsTyped, managerVars, epochVars, commitVars
    <2>3. OncePending'
        BY <1>1, ManagerUntouched DEF StoreAttachment, NotarizationInv, OncePending
    <2> QED
        BY <1>1, <2>1, <2>2, <2>3, ManagerUntouched DEF NotarizationInv, StoreAttachment
<1>2. ASSUME NEW b \in Block, UpdateATT(b)
      PROVE  NotarizationInv'
    <2>1. /\ \A ev \in inflight' : ev \in inflight \/ ev.type = "AcceptanceTimeUpdated"
          /\ UNCHANGED <<dagVars, meshVars, managerVars>>
        BY <1>2 DEF UpdateATT, AcceptanceTimeUpdated
    <2>2. ConflictsAttached'
        BY <2>1, ConflictsKept DEF NotarizationInv, meshVars
    <2> QED
        BY <2>1, <2>2, DAGEventsOnly, ManagerUntouched DEF NotarizationInv
<1>3. ASSUME Bootstrap
      PROVE  NotarizationInv'
    <2>1. UNCHANGED <<dagVars, meshVars, inflight, managerVars>>
        BY <1>3 DEF Bootstrap
    <2>2. ConflictsAttached'
        BY <2>1, ConflictsKept DEF NotarizationInv, meshVars
    <2> QED
        BY <2>1, <2>2, DAGEventsOnly, ManagerUntouched DEF NotarizationInv
<1> QED
    BY <1>1, <1>2, <1>3, AcceptBlockStep, AcceptTransactionStep, AddConflictStep,
       AnnounceConflictStep, AcceptConflictStep DEF Environment, Transaction

-----------------------------------------------------------------------------
(* The handlers. *)

(* A handled event is gone, and no other comes. *)
LEMMA HandlerKeepsRest ==
    ASSUME NotarizationInv, NEW ev, Handle(ev)
    PROVE  /\ inflight' \subseteq inflight /\ ev \notin inflight'
           /\ UNCHANGED <<meshVars, commitVars>>
           /\ ConflictsAttached'
    BY HandlerKeepsConflicts DEF Handle

(* Handlers that leave the mutations of the epochs alone. *)
LEMMA MutationsUntouched ==
    ASSUME NotarizationInv, UNCHANGED <<meshVars, commitVars, mutationTree, spent, created>>,
           inflight' \subseteq inflight
    PROVE  /\ OncePending' /\ TransactionInOneEpoch' /\ DiffsMatchMutations'
           /\ SnapshotReproducesState'
<1>1. \A ei : Mutations(ei)' = Mutations(ei)
    BY DEF Mutations, commitVars
<1>2. OncePending'
    BY <1>1 DEF NotarizationInv, OncePending, meshVars
<1>3. TransactionInOneEpoch'
    BY <1>1 DEF NotarizationInv, TransactionInOneEpoch
<1>4. DiffsMatchMutations'
    BY <1>1 DEF NotarizationInv, DiffsMatchMutations, commitVars
<1>5. SnapshotReproducesState'
    BY SnapshotKept DEF NotarizationInv
<1> QED
    BY <1>2, <1>3, <1>4, <1>5

LEMMA OnBlockAcceptedStep ==
    ASSUME NotarizationInv, NEW b \in Block, OnBlockAccepted(b)
    PROVE  NotarizationInv'
<1> DEFINE ei == EpochOf(b)
<1>1. Handle(BlockAccepted(b)) /\ UNCHANGED <<acceptanceEI, moving, counters, mutationTree, spent, created>>
    BY DEF OnBlockAccepted
<1>2. inflight' \subseteq inflight /\ UNCHANGED <<meshVars, commitVars>> /\ ConflictsAttached'
    BY <1>1, HandlerKeepsRest
<1>3. meshTree' = IF isEpochAlreadyCommitted(ei) THEN meshTree ELSE [meshTree EXCEPT ![ei] = @ \cup {b}]
    BY DEF OnBlockAccepted
<1>4. ei \in Epoch
    BY NotarizationAssumption
<1> HIDE DEF ei
<1>5. EpochsTyped'
    BY <1>1, <1>2, <1>3, <1>4 DEF NotarizationInv, EpochsTyped, meshVars, commitVars
<1>6. CommittedEpochsClosed'
    <2>1. \A e \in 1 .. committed : e \in Epoch /\ meshTree'[e] = meshTree[e]
        BY <1>3, <1>4, CommittedAreEpochs DEF NotarizationInv, EpochsTyped, isEpochAlreadyCommitted
    <2> QED
        BY <1>1, <1>2, <2>1 DEF NotarizationInv, CommittedEpochsClosed, commitVars
<1> QED
    BY <1>1, <1>2, <1>5, <1>6, MutationsUntouched DEF NotarizationInv

(* A handler that changes the counter of an open epoch, or starts to commit. *)
LEMMA CountersStep ==
    ASSUME NotarizationInv, NEW ev, Handle(ev), UNCHANGED epochVars,
           NEW ei \in Epoch, NEW count \in Nat,
           \/ counters' = counters
           \/ ~isEpochAlreadyCommitted(ei) /\ counters' = [counters EXCEPT ![ei] = count],
           moving' \in 0 .. MaxEpoch
    PROVE  NotarizationInv'
<1>1. inflight' \subseteq inflight /\ UNCHANGED <<meshVars, commitVars>> /\ ConflictsAttached'
    BY HandlerKeepsRest
<1>2. EpochsTyped'
    BY <1>1 DEF NotarizationInv, EpochsTyped, meshVars, commitVars, epochVars
<1>3. CommittedEpochsClosed'
    <2>1. \A e \in 1 .. committed : e \in Epoch /\ counters'[e] = counters[e]
        BY CommittedAreEpochs DEF NotarizationInv, EpochsTyped, isEpochAlreadyCommitted
    <2> QED
        BY <1>1, <2>1 DEF NotarizationInv, CommittedEpochsClosed, commitVars, epochVars
<1> QED
    BY <1>1, <1>2, <1>3, MutationsUntouched DEF NotarizationInv, epochVars

LEMMA OnConflictCreatedStep ==
    ASSUME NotarizationInv, NEW ev \in inflight, OnConflictCreated(ev)
    PROVE  NotarizationInv'
<1> DEFINE ei == getConflictEI(ev.ID)
           count == (counters[ei] + 1) % CounterSize
<1>1. ei \in Epoch
    BY ConflictEpochExists DEF OnConflictCreated, NotarizationInv, ConflictsAttached
<1>2. /\ Handle(ev) /\ UNCHANGED epochVars /\ moving' = moving
      /\ \/ counters' = counters
         \/ ~isEpochAlreadyCommitted(ei) /\ counters' = [counters EXCEPT ![ei] = count]
    BY DEF OnConflictCreated
<1>3. count \in Nat
    <2>1. counters[ei] \in Nat
        BY <1>1 DEF NotarizationInv, EpochsTyped
    <2> HIDE DEF ei
    <2> QED
        BY <2>1, NotarizationAssumption
<1>4. moving' \in 0 .. MaxEpoch
    BY <1>2 DEF NotarizationInv, EpochsTyped
<1> HIDE DEF ei, count
<1> QED
    BY <1>1, <1>2, <1>3, <1>4, CountersStep

LEMMA OnConflictResolvedStep ==
    ASSUME NotarizationInv, NEW ev \in inflight, OnConflictResolved(ev)
    PROVE  NotarizationInv'
<1> DEFINE ei == getConflictEI(ev.ID)
           count == Decreased(counters[ei])
<1>1. ei \in Epoch
    BY ConflictEpochExists DEF OnConflictResolved, NotarizationInv, ConflictsAttached
<1>2. /\ Handle(ev) /\ UNCHANGED epochVars /\ moving' \in {moving, ei, 0}
      /\ \/ counters' = counters
         \/ ~isEpochAlreadyCommitted(ei) /\ counters' = [counters EXCEPT ![ei] = count]
    BY DEF OnConflictResolved
<1>3. count \in Nat
    <2>1. counters[ei] \in Nat
        BY <1>1 DEF NotarizationInv, EpochsTyped
    <2> HIDE DEF ei
    <2> QED
        BY <2>1, NotarizationAssumption DEF Decreased
<1>4. moving' \in 0 .. MaxEpoch
    BY <1>1, <1>2, NotarizationAssumption DEF NotarizationInv, EpochsTyped, Epoch
<1> HIDE DEF ei, count
<1> QED
    BY <1>1, <1>2, <1>3, <1>4, CountersStep

LEMMA OnAcceptanceTimeUpdatedStep ==
    ASSUME NotarizationInv, NEW t \in Time, OnAcceptanceTimeUpdated(t)
    PROVE  NotarizationInv'
<1>1. /\ Handle(AcceptanceTimeUpdated(t)) /\ UNCHANGED epochVars /\ counters' = counters
      /\ moving' \in {moving, IndexFromTime(t)}
    BY DEF OnAcceptanceTimeUpdated
<1>2. moving' \in 0 .. MaxEpoch
    BY <1>1, IndexInRange DEF NotarizationInv, EpochsTyped
<1>3. inflight' \subseteq inflight /\ UNCHANGED <<meshVars, commitVars>> /\ ConflictsAttached'
    BY <1>1, HandlerKeepsRest
<1>4. EpochsTyped'
    BY <1>1, <1>2, <1>3 DEF NotarizationInv, EpochsTyped, meshVars, commitVars, epochVars
<1>5. CommittedEpochsClosed'
    BY <1>1, <1>3 DEF NotarizationInv, CommittedEpochsClosed, commitVars, epochVars
<1> QED
    BY <1>1, <1>3, <1>4, <1>5, MutationsUntouched DEF NotarizationInv, epochVars

LEMMA IgnoreEventStep ==
    ASSUME NotarizationInv, NEW ev \in inflight, IgnoreEvent(ev)
    PROVE  NotarizationInv'
<1>1. inflight' \subseteq inflight /\ UNCHANGED <<dagVars, meshVars, managerVars>>
    BY DEF IgnoreEvent
<1>2. ConflictsAttached'
    BY <1>1, ConflictsKept DEF NotarizationInv, meshVars
<1> QED
    BY <1>1, <1>2, DAGEventsOnly, ManagerUntouched DEF NotarizationInv

-----------------------------------------------------------------------------
(* The handlers that change what is in an epoch. *)

(* S leaves one epoch and enters another one; epoch 0 stands for none. *)
Moved(f, S, old, new) ==
    [ei \in Epoch |-> IF ei = old THEN f[ei] \ S ELSE IF ei = new THEN f[ei] \cup S ELSE f[ei]]

(* That is what the handlers do. *)
LEMMA MovedIsMoveBetween ==
    ASSUME NEW D, NEW f \in [Epoch -> D], NEW S, NEW old \in Epoch, NEW new \in Epoch, old # new
    PROVE  MoveBetween(f, S, old, new) = Moved(f, S, old, new)
    BY DEF MoveBetween, Moved

LEMMA MovedIsAdded ==
    ASSUME NEW D, NEW f \in [Epoch -> D], NEW S, NEW new \in Epoch
    PROVE  [f EXCEPT ![new] = @ \cup S] = Moved(f, S, 0, new)
<1>1. 0 \notin Epoch
    BY DEF Epoch
<1> QED
    BY <1>1 DEF Moved

(***************************************************************************)
(* A transaction that is handled, or moved, is accepted and announced no   *)
(* more, whichever open epochs it leaves and enters.                       *)
(***************************************************************************)
LEMMA MutationsMoved ==
    ASSUME NotarizationInv, NEW tx \in acceptedTxs, NEW old, NEW new \in Epoch,
           ~isEpochAlreadyCommitted(new),
           \A ei \in Epoch : tx \in Mutations(ei) => ei = old,
           old \in Epoch => ~isEpochAlreadyCommitted(old) /\ old # new,
           UNCHANGED <<meshVars, commitVars>>,
           inflight' \subseteq inflight, TransactionAccepted(tx) \notin inflight',
           mutationTree' = Moved(mutationTree, {tx}, old, new),
           spent' = Moved(spent, Inputs[tx], old, new),
           created' = Moved(created, Outputs[tx], old, new),
           old \in Epoch => tx \in mutationTree[old]
    PROVE  /\ OncePending' /\ TransactionInOneEpoch' /\ DiffsMatchMutations'
           /\ SnapshotReproducesState'
           /\ mutationTree' \in [Epoch -> SUBSET Transaction]
           /\ spent' \in [Epoch -> SUBSET OutputID] /\ created' \in [Epoch -> SUBSET OutputID]
           /\ \A ei \in 1 .. committed : mutationTree'[ei] = mutationTree[ei]
<1>1. /\ tx \in Transaction
      /\ committed \in Nat /\ committed' = committed /\ ecRecords' = ecRecords
      /\ \A ei \in Epoch : ei \in Nat
      /\ \A ei \in 1 .. committed : ei \in Epoch /\ ei <= committed
      /\ ~(new <= committed) /\ (old \in Epoch => ~(old <= committed))
    BY CommittedAreEpochs DEF NotarizationInv, EpochsTyped, commitVars, isEpochAlreadyCommitted
<1>2. \A ei \in Epoch : Mutations(ei)' = IF ei = old THEN Mutations(ei) \ {tx}
                                ELSE IF ei = new THEN Mutations(ei) \cup {tx} ELSE Mutations(ei)
    BY <1>1 DEF Mutations, Moved
<1>3. OncePending'
    BY <1>2 DEF NotarizationInv, OncePending, meshVars
<1>4. TransactionInOneEpoch'
    BY <1>2 DEF NotarizationInv, TransactionInOneEpoch
<1>5. DiffsMatchMutations'
    <2> SUFFICES ASSUME NEW ei \in Epoch
                 PROVE  LET out == CreatedBy(Mutations(ei)')
                            in  == SpentBy(Mutations(ei)')
                        IN  IF ei <= committed
                            THEN created'[ei] = out \ in /\ spent'[ei] = in \ out
                            ELSE created'[ei] = out /\ spent'[ei] = in
        BY <1>1 DEF DiffsMatchMutations
    <2>1. CASE ei = old
        <3>1. ~(ei <= committed) /\ tx \in Mutations(ei) /\ Mutations(ei) \in SUBSET Transaction
            BY <1>1, <2>1 DEF Mutations, NotarizationInv, EpochsTyped
        <3>2. Mutations(ei) \subseteq acceptedTxs
            BY <3>1 DEF NotarizationInv, OncePending
        <3>3. \A u, v \in Mutations(ei) : u # v => Inputs[u] \cap Inputs[v] = {}
            BY <3>2 DEF NotarizationInv, OncePending
        <3>4. /\ CreatedBy(Mutations(ei) \ {tx}) = CreatedBy(Mutations(ei)) \ Outputs[tx]
              /\ SpentBy(Mutations(ei) \ {tx}) = SpentBy(Mutations(ei)) \ Inputs[tx]
            BY <3>1, <3>3, CreatedOfRemoved, SpentOfRemoved
        <3>5. created[ei] = CreatedBy(Mutations(ei)) /\ spent[ei] = SpentBy(Mutations(ei))
            BY <3>1 DEF NotarizationInv, DiffsMatchMutations
        <3> QED
            BY <1>2, <2>1, <3>1, <3>4, <3>5 DEF Moved
    <2>2. CASE ei = new /\ ei # old
        <3>1. created[ei] = CreatedBy(Mutations(ei)) /\ spent[ei] = SpentBy(Mutations(ei))
            BY <1>1, <2>2 DEF NotarizationInv, DiffsMatchMutations
        <3>2. /\ CreatedBy(Mutations(ei) \cup {tx}) = CreatedBy(Mutations(ei)) \cup Outputs[tx]
              /\ SpentBy(Mutations(ei) \cup {tx}) = SpentBy(Mutations(ei)) \cup Inputs[tx]
            BY DiffOfAdded
        <3>3. Mutations(ei)' = Mutations(ei) \cup {tx} /\ ~(ei <= committed)
            BY <1>1, <1>2, <2>2
        <3> QED
            BY <2>2, <3>1, <3>2, <3>3 DEF Moved
    <2>3. CASE ei # new /\ ei # old
        BY <1>2, <2>3 DEF NotarizationInv, DiffsMatchMutations, Moved
    <2> QED
        BY <2>1, <2>2, <2>3
<1>6. \A ei \in Epoch : ei <= committed => created'[ei] = created[ei] /\ spent'[ei] = spent[ei]
    BY <1>1 DEF Moved
<1>7. SnapshotReproducesState'
    BY <1>6, SnapshotKept DEF NotarizationInv
<1>8. /\ mutationTree' \in [Epoch -> SUBSET Transaction]
      /\ spent' \in [Epoch -> SUBSET OutputID] /\ created' \in [Epoch -> SUBSET OutputID]
    <2>1. Inputs[tx] \subseteq OutputID /\ Outputs[tx] \subseteq OutputID
        BY <1>1, DiffsAreOutputs
    <2> QED
        BY <1>1, <2>1 DEF NotarizationInv, EpochsTyped, Moved
<1>9. \A ei \in 1 .. committed : mutationTree'[ei] = mutationTree[ei]
    BY <1>1 DEF Moved
<1> QED
    BY <1>3, <1>4, <1>5, <1>7, <1>8, <1>9

(* includeTransactionInEpoch, for the one event a transaction is announced with. *)
LEMMA OnTransactionAcceptedStep ==
    ASSUME NotarizationInv, NEW tx \in Transaction, OnTransactionAccepted(tx)
    PROVE  NotarizationInv'
<1> DEFINE new == IndexFromTime(inclusionTime[tx])
<1>1. /\ Handle(TransactionAccepted(tx)) /\ TransactionAccepted(tx) \in inflight
      /\ UNCHANGED <<moving, counters, meshTree>>
    BY DEF OnTransactionAccepted, Handle
<1>2. /\ inflight' \subseteq inflight /\ TransactionAccepted(tx) \notin inflight'
      /\ UNCHANGED <<meshVars, commitVars>> /\ ConflictsAttached'
    BY <1>1, HandlerKeepsRest
<1>3. tx \in acceptedTxs /\ \A ei \in Epoch : tx \notin Mutations(ei)
    BY <1>1 DEF NotarizationInv, OncePending
<1>4. new \in 0 .. MaxEpoch
    BY IndexInRange DEF NotarizationInv, EpochsTyped
<1>5. CASE isEpochAlreadyCommitted(new)
    <2>1. UNCHANGED <<mutationTree, spent, created>>
        BY <1>5 DEF OnTransactionAccepted
    <2>2. EpochsTyped'
        BY <1>1, <1>2, <2>1 DEF NotarizationInv, EpochsTyped, meshVars, commitVars
    <2>3. CommittedEpochsClosed'
        BY <1>1, <1>2, <2>1 DEF NotarizationInv, CommittedEpochsClosed, commitVars
    <2> QED
        BY <1>2, <2>1, <2>2, <2>3, MutationsUntouched DEF NotarizationInv
<1>6. CASE ~isEpochAlreadyCommitted(new)
    <2>1. new \in Epoch
        BY <1>4, <1>6, CommittedAreEpochs DEF NotarizationInv, isEpochAlreadyCommitted, Epoch
    <2>2. /\ mutationTree' = [mutationTree EXCEPT ![new] = @ \cup {tx}]
          /\ spent' = [spent EXCEPT ![new] = @ \cup Inputs[tx]]
          /\ created' = [created EXCEPT ![new] = @ \cup Outputs[tx]]
        BY <1>6 DEF OnTransactionAccepted
    <2> HIDE DEF new
    <2>3. /\ mutationTree' = Moved(mutationTree, {tx}, 0, new)
          /\ spent' = Moved(spent, Inputs[tx], 0, new)
          /\ created' = Moved(created, Outputs[tx], 0, new)
        BY <2>1, <2>2, MovedIsAdded DEF NotarizationInv, EpochsTyped
    <2>4. 0 \notin Epoch
        BY DEF Epoch
    <2>5. /\ OncePending' /\ TransactionInOneEpoch' /\ DiffsMatchMutations' /\ SnapshotReproducesState'
          /\ mutationTree' \in [Epoch -> SUBSET Transaction]
          /\ spent' \in [Epoch -> SUBSET OutputID] /\ created' \in [Epoch -> SUBSET OutputID]
          /\ \A ei \in 1 .. committed : mutationTree'[ei] = mutationTree[ei]
        BY <1>2, <1>3, <1>6, <2>1, <2>3, <2>4, MutationsMoved
    <2>6. EpochsTyped'
        BY <1>1, <1>2, <2>5 DEF NotarizationInv, EpochsTyped, meshVars, commitVars
    <2>7. CommittedEpochsClosed'
        BY <1>1, <1>2, <2>5 DEF NotarizationInv, CommittedEpochsClosed, commitVars
    <2> QED
        BY <1>2, <2>5, <2>6, <2>7 DEF NotarizationInv
<1> QED
    BY <1>5, <1>6

(* removeTransactionFromEpoch and includeTransactionInEpoch keep the transaction in one epoch. *)
LEMMA OnTransactionInclusionUpdatedStep ==
    ASSUME NotarizationInv, NEW tx \in Transaction, NEW oldTime \in Time, NEW newTime \in Time,
           OnTransactionInclusionUpdated(tx, oldTime, newTime)
    PROVE  NotarizationInv'
<1> DEFINE old == IndexFromTime(oldTime)
           new == IndexFromTime(newTime)
           ev == InclusionUpdated(tx, oldTime, newTime)
<1>1. Handle(ev) /\ UNCHANGED <<moving, counters, meshTree>>
    BY DEF OnTransactionInclusionUpdated
<1>2. inflight' \subseteq inflight /\ UNCHANGED <<meshVars, commitVars>> /\ ConflictsAttached'
    BY <1>1, HandlerKeepsRest
<1>3. CASE ~Moves(tx, old, new)
    <2>1. UNCHANGED <<mutationTree, spent, created>>
        BY <1>3 DEF OnTransactionInclusionUpdated
    <2>2. EpochsTyped'
        BY <1>1, <1>2, <2>1 DEF NotarizationInv, EpochsTyped, meshVars, commitVars
    <2>3. CommittedEpochsClosed'
        BY <1>1, <1>2, <2>1 DEF NotarizationInv, CommittedEpochsClosed, commitVars
    <2> QED
        BY <1>2, <2>1, <2>2, <2>3, MutationsUntouched DEF NotarizationInv
<1>4. CASE Moves(tx, old, new)
    <2>1. /\ old # new /\ tx \in mutationTree[old]
          /\ ~isEpochAlreadyCommitted(old) /\ ~isEpochAlreadyCommitted(new)
        BY <1>4 DEF Moves
    <2>2. /\ mutationTree' = MoveBetween(mutationTree, {tx}, old, new)
          /\ spent' = MoveBetween(spent, Inputs[tx], old, new)
          /\ created' = MoveBetween(created, Outputs[tx], old, new)
        BY <1>4 DEF OnTransactionInclusionUpdated
    <2>3. old \in Epoch /\ new \in Epoch
        <3>1. old \in 0 .. MaxEpoch /\ new \in 0 .. MaxEpoch
            BY IndexInRange
        <3> HIDE DEF old, new
        <3> QED
            BY <2>1, <3>1, CommittedAreEpochs DEF NotarizationInv, isEpochAlreadyCommitted, Epoch
    <2> HIDE DEF old, new
    <2>4. tx \in Mutations(old)
        BY <2>1 DEF Mutations, isEpochAlreadyCommitted
    <2>5. tx \in acceptedTxs /\ TransactionAccepted(tx) \notin inflight
        BY <2>3, <2>4 DEF NotarizationInv, OncePending
    <2>6. \A ei \in Epoch : tx \in Mutations(ei) => ei = old
        BY <2>3, <2>4 DEF NotarizationInv, TransactionInOneEpoch
    <2>7. /\ mutationTree' = Moved(mutationTree, {tx}, old, new)
          /\ spent' = Moved(spent, Inputs[tx], old, new)
          /\ created' = Moved(created, Outputs[tx], old, new)
        BY <2>1, <2>2, <2>3, MovedIsMoveBetween DEF NotarizationInv, EpochsTyped
    <2>8. /\ OncePending' /\ TransactionInOneEpoch' /\ DiffsMatchMutations' /\ SnapshotReproducesState'
          /\ mutationTree' \in [Epoch -> SUBSET Transaction]
          /\ spent' \in [Epoch -> SUBSET OutputID] /\ created' \in [Epoch -> SUBSET OutputID]
          /\ \A ei \in 1 .. committed : mutationTree'[ei] = mutationTree[ei]
        BY <1>2, <2>1, <2>3, <2>5, <2>6, <2>7, MutationsMoved
    <2>9. EpochsTyped'
        BY <1>1, <1>2, <2>8 DEF NotarizationInv, EpochsTyped, meshVars, commitVars
    <2>10. CommittedEpochsClosed'
        BY <1>1, <1>2, <2>8 DEF NotarizationInv, CommittedEpochsClosed, commitVars
    <2> QED
        BY <1>2, <2>8, <2>9, <2>10 DEF NotarizationInv
<1> QED
    BY <1>3, <1>4

-----------------------------------------------------------------------------
(* The commitment of an epoch. *)

(***************************************************************************)
(* The heart of the snapshot: when epoch ei is committed, its diff goes    *)
(* into the state tree and into the window of diffs, while the oldest      *)
(* epoch of the window leaves it for the ledger state.                     *)
(***************************************************************************)
LEMMA WindowMoves ==
    ASSUME EpochsTyped, SnapshotReproducesState,
           NEW ei \in Epoch, ei = committed + 1, committed' = ei,
           created' \in [Epoch -> SUBSET OutputID], spent' \in [Epoch -> SUBSET OutputID],
           \A e \in Epoch : e # ei => created'[e] = created[e] /\ spent'[e] = spent[e],
           created'[ei] \cap spent'[ei] = {},
           stateTree' = (stateTree \cup created'[ei]) \ spent'[ei],
           ledgerState' = IF LedgerEpoch(ei) > 0
                          THEN (ledgerState \ spent'[LedgerEpoch(ei)]) \cup created'[LedgerEpoch(ei)]
                          ELSE ledgerState,
           NEW o \in OutputID
    PROVE  o \in stateTree' <=>
                IF Changed(o)' = {} THEN o \in ledgerState'
                ELSE \E e \in Changed(o)' : o \in created'[e] /\ \A f \in Changed(o)' : f <= e
<1> DEFINE le == LedgerEpoch(ei)
<1>1. /\ committed \in Nat /\ ei \in Nat /\ SnapshotDepth \in Nat /\ le \in Int
      /\ le = committed + 1 - SnapshotDepth
      /\ \A e \in Epoch : e \in Nat
      /\ \A e \in 1 .. ei : e \in Epoch
    BY CommittedAreEpochs, NotarizationAssumption DEF LedgerEpoch, Epoch
<1> HIDE DEF le
<1>shift. ASSUME NEW e \in Epoch
      PROVE  /\ (committed - SnapshotDepth < e) <=> (le <= e)
             /\ (e <= committed) <=> (e < ei)
             /\ (committed' - SnapshotDepth < e) <=> (le < e)
    <2>1. e \in Nat /\ committed \in Nat /\ SnapshotDepth \in Nat
        BY <1>1
    <2>2. le = committed + 1 - SnapshotDepth /\ ei = committed + 1 /\ committed' = committed + 1
        BY <1>1
    <2> QED
        BY <2>1, <2>2
<1>2. Changed(o)' = {e \in Epoch : le < e /\ e <= ei /\ o \in created'[e] \cup spent'[e]}
    <2>1. Changed(o)' = {e \in Epoch : committed' - SnapshotDepth < e /\ e <= committed'
                                        /\ o \in created'[e] \cup spent'[e]}
        BY DEF Changed
    <2> QED
        BY <1>shift, <2>1
<1>3. Changed(o) = {e \in Epoch : le <= e /\ e < ei /\ o \in created[e] \cup spent[e]}
    <2>1. Changed(o) = {e \in Epoch : committed - SnapshotDepth < e /\ e <= committed
                                        /\ o \in created[e] \cup spent[e]}
        BY DEF Changed
    <2> QED
        BY <1>shift, <2>1
<1>4. ledgerState' = IF le > 0 THEN (ledgerState \ spent'[le]) \cup created'[le] ELSE ledgerState
    BY DEF le
<1>pos. ei > 0
    BY DEF Epoch
<1>5. le <= ei /\ (SnapshotDepth = 0 => le = ei) /\ (SnapshotDepth # 0 => le < ei)
    BY <1>1
<1>6. CASE o \in created'[ei] \cup spent'[ei] /\ SnapshotDepth = 0
    <2>1. Changed(o)' = {}
        <3>1. \A e \in Epoch : ~(le < e /\ e <= ei)
            BY <1>1, <1>5, <1>6
        <3> QED
            BY <1>2, <3>1
    <2>2. ledgerState' = (ledgerState \ spent'[ei]) \cup created'[ei]
        BY <1>1, <1>4, <1>5, <1>6, <1>pos
    <2> QED
        BY <1>6, <2>1, <2>2
<1>7. CASE o \in created'[ei] \cup spent'[ei] /\ SnapshotDepth # 0
    <2>1. ei \in Changed(o)' /\ \A e \in Changed(o)' : e <= ei
        BY <1>1, <1>2, <1>5, <1>7
    <2>2. \A e \in Changed(o)' : (\A f \in Changed(o)' : f <= e) => e = ei
        BY <1>1, <1>2, <2>1
    <2> QED
        BY <1>7, <2>1, <2>2
<1>8. CASE o \notin created'[ei] \cup spent'[ei]
    <2>1. o \in stateTree' <=> o \in stateTree
        BY <1>8
    <2>2. Changed(o)' = Changed(o) \ {le}
        <3>1. \A e \in Epoch : e \in Changed(o)' <=> e \in Changed(o) /\ e # le
            <4> SUFFICES ASSUME NEW e \in Epoch PROVE e \in Changed(o)' <=> e \in Changed(o) /\ e # le
                OBVIOUS
            <4>1. e \in Int /\ ei \in Int /\ le \in Int
                BY <1>1
            <4>2. CASE e = ei
                BY <1>2, <1>3, <1>8, <4>1, <4>2
            <4>3. CASE e # ei
                BY <1>2, <1>3, <4>1, <4>3
            <4> QED BY <4>2, <4>3
        <3> QED
            BY <3>1, <1>2, <1>3
    <2>3. o \in stateTree <=>
                IF Changed(o) = {} THEN o \in ledgerState
                ELSE \E e \in Changed(o) : o \in created[e] /\ \A f \in Changed(o) : f <= e
        BY DEF SnapshotReproducesState
    <2>4. \A e \in Changed(o) : created'[e] = created[e] /\ e \in Int /\ le <= e
        <3>1. \A e \in Changed(o) : e \in Epoch /\ le <= e /\ e < ei
            BY <1>3
        <3>2. \A e \in Epoch : e < ei => e # ei
            BY <1>1
        <3> QED
            <4> SUFFICES ASSUME NEW e \in Changed(o)
                         PROVE  created'[e] = created[e] /\ e \in Int /\ le <= e
                OBVIOUS
            <4>1. e \in Epoch /\ e # ei /\ le <= e
                BY <3>1, <3>2
            <4> QED
                BY <1>1, <4>1
    <2>5. CASE le \notin Changed(o)
        <3>1. o \in ledgerState' <=> o \in ledgerState
            BY <1>1, <1>3, <1>4, <1>5, <1>8, <2>5
        <3>2. Changed(o)' = Changed(o)
            BY <2>2, <2>5
        <3> QED
            BY <2>1, <2>3, <2>4, <3>1, <3>2
    <2>6. CASE le \in Changed(o) /\ Changed(o)' = {}
        <3>1. Changed(o) = {le}
            BY <2>2, <2>6
        <3>2. o \in stateTree <=> o \in created[le]
            BY <1>1, <2>3, <3>1
        <3>3. /\ le \in Epoch /\ le > 0 /\ le # ei
              /\ o \in created[le] \cup spent[le]
            BY <1>1, <1>3, <2>6 DEF Epoch
        <3> QED
            BY <1>4, <2>1, <2>6, <3>2, <3>3
    <2>7. CASE le \in Changed(o) /\ Changed(o)' # {}
        <3>1. PICK g \in Changed(o) : g # le
            BY <2>2, <2>7
        <3>2. le < g
            BY <1>1, <2>4, <3>1
        <3>3. \A e \in Changed(o) : (\A f \in Changed(o) : f <= e) => e # le
            BY <1>1, <2>4, <3>1, <3>2
        <3>4. \A e \in Changed(o)' : (\A f \in Changed(o)' : f <= e) <=> (\A f \in Changed(o) : f <= e)
            BY <1>1, <2>2, <2>4
        <3> QED
            BY <2>1, <2>2, <2>3, <2>4, <2>7, <3>1, <3>3, <3>4
    <2> QED
        BY <2>5, <2>6, <2>7
<1> QED
    BY <1>6, <1>7, <1>8

LEMMA CommitEpochStep ==
    ASSUME NotarizationInv, CommitEpoch
    PROVE  NotarizationInv'
<1> DEFINE ei == committed + 1
           le == LedgerEpoch(ei)
           roots == [mesh |-> meshTree[ei], mutations |-> mutationTree[ei], state |-> stateTree']
<1>1. /\ committed < moving
      /\ spent' = Reduced(spent, created, ei) /\ created' = Reduced(created, spent, ei)
      /\ stateTree' = (stateTree \cup created'[ei]) \ spent'[ei]
      /\ ledgerState' = IF le > 0 THEN (ledgerState \ spent'[le]) \cup created'[le] ELSE ledgerState
      /\ ecRecords' = [e \in 1 .. ei |-> IF e = ei THEN roots ELSE ecRecords[e]]
      /\ meshTree' = [meshTree EXCEPT ![ei] = {}]
      /\ mutationTree' = [mutationTree EXCEPT ![ei] = {}]
      /\ committed' = ei
      /\ counters' = [counters EXCEPT ![ei] = 0]
      /\ UNCHANGED <<dagVars, meshVars, inflight, moving>>
    BY DEF CommitEpoch
<1>2. /\ committed \in Nat /\ ei \in Epoch /\ ei \in Nat /\ MaxEpoch \in Nat
      /\ \A e \in Epoch : e \in Nat /\ 0 < e
      /\ \A e \in 1 .. ei : e \in Epoch /\ e <= ei
    BY <1>1, CommittedAreEpochs DEF NotarizationInv, EpochsTyped, Epoch
<1>3. /\ created' = [created EXCEPT ![ei] = created[ei] \ spent[ei]]
      /\ spent' = [spent EXCEPT ![ei] = spent[ei] \ created[ei]]
    BY <1>1 DEF Reduced
<1>4. /\ created' \in [Epoch -> SUBSET OutputID] /\ spent' \in [Epoch -> SUBSET OutputID]
      /\ created'[ei] = created[ei] \ spent[ei] /\ spent'[ei] = spent[ei] \ created[ei]
      /\ \A e \in Epoch : e # ei => created'[e] = created[e] /\ spent'[e] = spent[e]
    BY <1>2, <1>3 DEF NotarizationInv, EpochsTyped
<1>5. stateTree' \subseteq OutputID
    BY <1>1, <1>2, <1>4 DEF NotarizationInv, EpochsTyped
<1>6. ledgerState' \subseteq OutputID
    <2>1. le > 0 => le \in Epoch
        BY <1>2, NotarizationAssumption DEF LedgerEpoch, Epoch
    <2> HIDE DEF le
    <2> QED
        BY <1>1, <1>4, <2>1 DEF NotarizationInv, EpochsTyped
<1>7. ecRecords' \in [1 .. committed' -> Roots]
    <2>1. roots \in Roots
        BY <1>2, <1>5 DEF Roots, NotarizationInv, EpochsTyped
    <2>2. \A e \in 1 .. ei : e # ei => e \in 1 .. committed
        BY <1>2
    <2> HIDE DEF roots
    <2> QED
        BY <1>1, <2>1, <2>2 DEF NotarizationInv, EpochsTyped
<1>8. EpochsTyped'
    <2>1. /\ counters' \in [Epoch -> Nat]
          /\ meshTree' \in [Epoch -> SUBSET Block]
          /\ mutationTree' \in [Epoch -> SUBSET Transaction]
        BY <1>1, <1>2 DEF NotarizationInv, EpochsTyped
    <2>2. committed' \in 0 .. MaxEpoch /\ moving' \in 0 .. MaxEpoch
        BY <1>1, <1>2 DEF NotarizationInv, EpochsTyped, Epoch
    <2> HIDE DEF ei, le, roots
    <2> QED
        BY <1>1, <1>4, <1>5, <1>6, <1>7, <2>1, <2>2 DEF NotarizationInv, EpochsTyped, meshVars
<1>9. \A e \in Epoch : Mutations(e)' = Mutations(e)
    <2> SUFFICES ASSUME NEW e \in Epoch PROVE Mutations(e)' = Mutations(e)
        OBVIOUS
    <2>1. CASE e = ei
        BY <1>1, <1>2, <2>1 DEF Mutations
    <2>2. CASE e # ei
        BY <1>1, <1>2, <2>2 DEF Mutations, NotarizationInv, EpochsTyped
    <2> QED
        BY <2>1, <2>2
<1>10. ConflictsAttached'
    BY <1>1, ConflictsKept DEF NotarizationInv, meshVars
<1>11. OncePending'
    BY <1>1, <1>9 DEF NotarizationInv, OncePending, meshVars
<1>12. TransactionInOneEpoch'
    BY <1>9 DEF NotarizationInv, TransactionInOneEpoch
<1>13. DiffsMatchMutations'
    <2> SUFFICES ASSUME NEW e \in Epoch
                 PROVE  LET out == CreatedBy(Mutations(e))
                            in  == SpentBy(Mutations(e))
                        IN  IF e <= ei
                            THEN created'[e] = out \ in /\ spent'[e] = in \ out
                            ELSE created'[e] = out /\ spent'[e] = in
        BY <1>1, <1>9 DEF DiffsMatchMutations
    <2>1. CASE e = ei
        <3>1. created[e] = CreatedBy(Mutations(e)) /\ spent[e] = SpentBy(Mutations(e))
            BY <1>2, <2>1 DEF NotarizationInv, DiffsMatchMutations
        <3> QED
            BY <1>2, <1>4, <2>1, <3>1
    <2>2. CASE e # ei
        <3>1. e <= ei <=> e <= committed
            BY <1>2, <2>2
        <3> QED
            BY <1>4, <2>2, <3>1 DEF NotarizationInv, DiffsMatchMutations
    <2> QED
        BY <2>1, <2>2
<1>14. SnapshotReproducesState'
    <2>1. created'[ei] \cap spent'[ei] = {}
        BY <1>4
    <2>2. \A o \in OutputID : o \in stateTree' <=>
                IF Changed(o)' = {} THEN o \in ledgerState'
                ELSE \E e \in Changed(o)' : o \in created'[e] /\ \A f \in Changed(o)' : f <= e
        BY <1>1, <1>2, <1>4, <2>1, WindowMoves DEF NotarizationInv
    <2>3. ecRecords'[committed'].state = stateTree'
        BY <1>1, <1>2
    <2> QED
        BY <2>2, <2>3 DEF SnapshotReproducesState
<1>15. CommittedEpochsClosed'
    BY <1>1, <1>2 DEF NotarizationInv, CommittedEpochsClosed, EpochsTyped
<1> QED
    BY <1>8, <1>10, <1>11, <1>12, <1>13, <1>14, <1>15 DEF NotarizationInv

LEMMA StopMovingStep ==
    ASSUME NotarizationInv, StopMoving
    PROVE  NotarizationInv'
<1>1. UNCHANGED <<dagVars, meshVars, inflight, counters, epochVars, commitVars>> /\ moving' = 0
    BY DEF StopMoving
<1>2. EpochsTyped'
    BY <1>1, NotarizationAssumption DEF NotarizationInv, EpochsTyped, meshVars, epochVars, commitVars
<1>3. ConflictsAttached'
    BY <1>1, ConflictsKept DEF NotarizationInv, meshVars
<1>4. CommittedEpochsClosed'
    BY <1>1 DEF NotarizationInv, CommittedEpochsClosed, epochVars, commitVars
<1> QED
    BY <1>1, <1>2, <1>3, <1>4, MutationsUntouched DEF NotarizationInv, epochVars

-----------------------------------------------------------------------------
(* The inductive invariant. *)

LEMMA InitEstablishesEpochs == Init => NotarizationInv
<1> SUFFICES ASSUME Init PROVE NotarizationInv
    OBVIOUS
<1> USE DEF Init, InitManager, InitDAG
<1>1. EpochsTyped
    BY NotarizationAssumption DEF EpochsTyped, Time, OutputID
<1>2. ConflictsAttached
    BY DEF ConflictsAttached, Stored, State, Undefined, Confirmed
<1>3. \A ei \in Epoch : Mutations(ei) = {}
    BY NotarizationAssumption DEF Mutations, Epoch
<1>4. OncePending
    BY <1>3 DEF OncePending
<1>5. TransactionInOneEpoch
    BY <1>3 DEF TransactionInOneEpoch
<1>6. DiffsMatchMutations
    BY <1>3, NotarizationAssumption DEF DiffsMatchMutations, CreatedBy, SpentBy, Epoch
<1>7. SnapshotReproducesState
    <2>1. \A o : Changed(o) = {}
        BY NotarizationAssumption DEF Changed, Epoch
    <2> QED
        BY <2>1 DEF SnapshotReproducesState
<1>8. CommittedEpochsClosed
    BY DEF CommittedEpochsClosed
<1> QED
    BY <1>1, <1>2, <1>4, <1>5, <1>6, <1>7, <1>8 DEF NotarizationInv

LEMMA StutterKeeps ==
    ASSUME NotarizationInv, UNCHANGED vars
    PROVE  NotarizationInv'
<1>1. UNCHANGED <<dagVars, meshVars, inflight, managerVars>>
    BY DEF vars, managerVars
<1>2. ConflictsAttached'
    BY <1>1, ConflictsKept DEF NotarizationInv, meshVars
<1> QED
    BY <1>1, <1>2, DAGEventsOnly, ManagerUntouched DEF NotarizationInv

LEMMA ManagerStep ==
    ASSUME NotarizationInv, Manager
    PROVE  NotarizationInv'
    BY OnBlockAcceptedStep, OnTransactionAcceptedStep, OnTransactionInclusionUpdatedStep,
       OnConflictCreatedStep, OnConflictResolvedStep, IgnoreEventStep,
       OnAcceptanceTimeUpdatedStep, CommitEpochStep, StopMovingStep DEF Manager

(***************************************************************************)
(* NotarizationInv is an inductive invariant of the manager, for every     *)
(* mesh and in every order of the events.                                  *)
(***************************************************************************)
THEOREM InvariantHolds == Spec => []NotarizationInv
<1>1. NotarizationInv /\ [Next]_vars => NotarizationInv'
    BY EnvironmentStep, ManagerStep, StutterKeeps DEF Next
<1> QED
    BY <1>1, InitEstablishesEpochs, PTL DEF Spec

(***************************************************************************)
(* A transaction is in the state mutation tree of one epoch at most, when- *)
(* ever OnTransactionAccepted and OnTransactionInclusionUpdated run.       *)
(***************************************************************************)
THEOREM OneEpochPerTransaction == Spec => []TransactionInOneEpoch
<1>1. NotarizationInv => TransactionInOneEpoch
    BY DEF NotarizationInv
<1> QED
    BY <1>1, InvariantHolds, PTL

(***************************************************************************)
(* The spent and created outputs that epochDiffStorage keeps of an epoch   *)
(* are those of the transactions in its state mutation tree.               *)
(***************************************************************************)
THEOREM DiffsAlwaysMatch == Spec => []DiffsMatchMutations
<1>1. NotarizationInv => DiffsMatchMutations
    BY DEF NotarizationInv
<1> QED
    BY <1>1, InvariantHolds, PTL

(***************************************************************************)
(* ledgerstateStorage with the diffs that StartSnapshot hands out is the   *)
(* state behind the state root of the latest commitment.                   *)
(***************************************************************************)
THEOREM SnapshotAlwaysReproduces == Spec => []SnapshotReproducesState
<1>1. NotarizationInv => SnapshotReproducesState
    BY DEF NotarizationInv
<1> QED
    BY <1>1, InvariantHolds, PTL

(***************************************************************************)
(* No handler adds anything to the trees or the conflict counter of an     *)
(* epoch that has its ECRecord.                                            *)
(***************************************************************************)
THEOREM CommittedEpochsStayClosed == Spec => []CommittedEpochsClosed
<1>1. NotarizationInv => CommittedEpochsClosed
    BY DEF NotarizationInv
<1> QED
    BY <1>1, InvariantHolds, PTL

-----------------------------------------------------------------------------
(* The conflicts below the manager, and the types of all it keeps. *)

LEMMA DAGStep ==
    ASSUME NotarizationInv, [Next]_vars
    PROVE  [NextDAG]_dagVars
<1>1. ASSUME NEW c \in ConflictID, AddConflict(c) PROVE NextDAG
    <2> DEFINE P == UnconfirmedConflicts(ConflictParents[c])
    <2>1. c \in Conflicting /\ ConflictParents[c] \subseteq Stored /\ CreateConflict(c, P, Inputs[c])
        BY <1>1 DEF AddConflict
    <2>2. P \subseteq Stored /\ c \notin Stored
        BY <2>1 DEF UnconfirmedConflicts, CreateConflict
    <2>3. Inputs[c] # {} /\ Inputs[c] \in SUBSET ResourceID
        BY <2>1, NotarizationAssumption
    <2>4. P \in SUBSET ConflictID
        BY <2>2 DEF Stored
    <2>5. CreateContract(c, P, Inputs[c])
        BY <2>2, <2>3 DEF CreateContract
    <2> HIDE DEF P
    <2> QED BY <2>1, <2>2, <2>3, <2>4, <2>5 DEF NextDAG
<1>2. ASSUME NEW c \in ConflictID, AnnounceConflict(c) PROVE NextDAG
    BY <1>2 DEF AnnounceConflict, NextDAG
<1>3. ASSUME NEW c \in ConflictID, AcceptConflict(c) PROVE NextDAG
    BY <1>3 DEF AcceptConflict, NextDAG
<1>4. ASSUME NEW b \in Block, StoreAttachment(b) \/ AcceptBlock(b) \/ UpdateATT(b) PROVE UNCHANGED dagVars
    BY <1>4 DEF StoreAttachment, AcceptBlock, UpdateATT
<1>5. ASSUME NEW tx \in Transaction, AcceptTransaction(tx) PROVE UNCHANGED dagVars
    BY <1>5 DEF AcceptTransaction
<1>6. ASSUME Bootstrap PROVE UNCHANGED dagVars
    BY <1>6 DEF Bootstrap
<1>7. ASSUME Manager PROVE UNCHANGED dagVars
    BY <1>7 DEF Manager, OnBlockAccepted, OnTransactionAccepted, OnTransactionInclusionUpdated,
        OnConflictCreated, OnConflictResolved, IgnoreEvent, OnAcceptanceTimeUpdated, CommitEpoch,
        StopMoving, Handle
<1>8. ASSUME UNCHANGED vars PROVE UNCHANGED dagVars
    BY <1>8 DEF vars
<1> QED
    BY <1>1, <1>2, <1>3, <1>4, <1>5, <1>6, <1>7, <1>8 DEF Next, Environment

(***************************************************************************)
(* CreateConflict and SetConflictAccepted are called as the conflict DAG   *)
(* expects it: what is proved about the DAG alone holds below the manager. *)
(***************************************************************************)
THEOREM NotarizationImplementsDAG == Spec => SpecDAG
<1>1. Init => InitDAG
    BY DEF Init
<1> QED
    BY <1>1, DAGStep, InvariantHolds, PTL DEF Spec, SpecDAG

(* The part of NotarizationTypeOK that EpochsTyped does not have. *)
RestTyped ==
    /\ acceptedBlocks \subseteq attached
    /\ att \in Time /\ bootstrapped \in BOOLEAN
    /\ inflight \subseteq Event \cup MeshEvent
    /\ acceptanceEI \in 1 .. MaxEpoch
    /\ \A ei \in Epoch : counters[ei] \in 0 .. CounterSize - 1

(* What a handler, or the loop that commits, leaves alone. *)
LEMMA HandlerKeepsRestTyped ==
    ASSUME RestTyped, UNCHANGED <<meshVars, clockVars>>, inflight' \subseteq inflight,
           acceptanceEI' \in 1 .. MaxEpoch, \A ei \in Epoch : counters'[ei] \in 0 .. CounterSize - 1
    PROVE  RestTyped'
    BY DEF RestTyped, meshVars, clockVars

(* CounterSize wraps the counters around. *)
LEMMA CountersWrap ==
    ASSUME NEW n \in Nat
    PROVE  (n + 1) % CounterSize \in 0 .. CounterSize - 1 /\ Decreased(n) \in 0 .. CounterSize - 1
<1>1. CounterSize \in Nat /\ CounterSize > 0
    BY NotarizationAssumption
<1>2. ASSUME NEW m \in Nat PROVE m % CounterSize \in 0 .. CounterSize - 1
    BY <1>1
<1>3. n + 1 \in Nat /\ n + CounterSize - 1 \in Nat
    BY <1>1
<1> QED
    BY <1>2, <1>3 DEF Decreased

LEMMA ManagerKeepsRestTyped ==
    ASSUME NotarizationInv, RestTyped, Manager
    PROVE  RestTyped'
<1>1. /\ counters \in [Epoch -> Nat] /\ acceptanceEI \in 1 .. MaxEpoch
      /\ \A ei \in Epoch : counters[ei] \in 0 .. CounterSize - 1
      /\ MaxEpoch \in Nat /\ 0 \in 0 .. CounterSize - 1
    BY NotarizationAssumption DEF NotarizationInv, EpochsTyped, RestTyped
<1>2. ASSUME NEW b \in Block, OnBlockAccepted(b) PROVE RestTyped'
    BY <1>1, <1>2, HandlerKeepsRestTyped DEF OnBlockAccepted, Handle
<1>3. ASSUME NEW tx \in Transaction, OnTransactionAccepted(tx) PROVE RestTyped'
    BY <1>1, <1>3, HandlerKeepsRestTyped DEF OnTransactionAccepted, Handle
<1>4. ASSUME NEW tx \in Transaction, NEW old \in Time, NEW new \in Time, OnTransactionInclusionUpdated(tx, old, new)
      PROVE  RestTyped'
    BY <1>1, <1>4, HandlerKeepsRestTyped DEF OnTransactionInclusionUpdated, Handle
<1>5. ASSUME NEW ev \in inflight, OnConflictCreated(ev) PROVE RestTyped'
    <2>1. \A ei \in Epoch : counters'[ei] \in 0 .. CounterSize - 1
        BY <1>1, <1>5, CountersWrap DEF OnConflictCreated
    <2> QED BY <1>1, <1>5, <2>1, HandlerKeepsRestTyped DEF OnConflictCreated, Handle
<1>6. ASSUME NEW ev \in inflight, OnConflictResolved(ev) PROVE RestTyped'
    <2> DEFINE ei == getConflictEI(ev.ID)
               count == Decreased(counters[ei])
    <2>1. counters' = counters \/ (counters' = [counters EXCEPT ![ei] = count])
        BY <1>6 DEF OnConflictResolved
    <2>2. ei \in Epoch => count \in 0 .. CounterSize - 1
        BY <1>1, CountersWrap
    <2> HIDE DEF ei, count
    <2>3. \A e \in Epoch : counters'[e] \in 0 .. CounterSize - 1
        BY <1>1, <2>1, <2>2
    <2> QED BY <1>1, <1>6, <2>3, HandlerKeepsRestTyped DEF OnConflictResolved, Handle
<1>7. ASSUME NEW ev \in inflight, IgnoreEvent(ev) PROVE RestTyped'
    BY <1>1, <1>7, HandlerKeepsRestTyped DEF IgnoreEvent, managerVars
<1>8. ASSUME NEW t \in Time, OnAcceptanceTimeUpdated(t) PROVE RestTyped'
    <2>1. IndexFromTime(t) \in 0 .. MaxEpoch
        BY IndexInRange
    <2>2. acceptanceEI' \in 1 .. MaxEpoch
        BY <1>1, <1>8, <2>1 DEF OnAcceptanceTimeUpdated
    <2> QED BY <1>1, <1>8, <2>2, HandlerKeepsRestTyped DEF OnAcceptanceTimeUpdated, Handle
<1>9. ASSUME CommitEpoch PROVE RestTyped'
    <2>1. \A e \in Epoch : counters'[e] \in 0 .. CounterSize - 1
        BY <1>1, <1>9 DEF CommitEpoch
    <2> QED BY <1>1, <1>9, <2>1, HandlerKeepsRestTyped DEF CommitEpoch
<1>10. ASSUME StopMoving PROVE RestTyped'
    BY <1>1, <1>10, HandlerKeepsRestTyped DEF StopMoving
<1> QED
    BY <1>2, <1>3, <1>4, <1>5, <1>6, <1>7, <1>8, <1>9, <1>10 DEF Manager

LEMMA EnvironmentKeepsRestTyped ==
    ASSUME NotarizationInv, RestTyped, TypeOK', Environment
    PROVE  RestTyped'
<1>1. triggered' \subseteq Event
    BY DEF TypeOK
<1>2. \A b \in Block : IssuingTime[b] \in Time
    BY IssuingTimeIsTime
<1>3. ASSUME NEW b \in Block, StoreAttachment(b) PROVE RestTyped'
    BY <1>3 DEF StoreAttachment, RestTyped, clockVars, managerVars
<1>4. ASSUME NEW b \in Block, AcceptBlock(b) PROVE RestTyped'
    <2>1. UpdatesInclusion(b) => Payload[b] \in Transaction
        BY NotarizationAssumption DEF UpdatesInclusion
    <2>2. inclusionTime \in [Transaction -> Time]
        BY DEF NotarizationInv, EpochsTyped
    <2>3. inflight' \subseteq inflight \cup MeshEvent
        BY <1>2, <1>4, <2>1, <2>2 DEF AcceptBlock, MeshEvent
    <2> QED BY <1>4, <2>3 DEF AcceptBlock, RestTyped, clockVars, managerVars
<1>5. ASSUME NEW b \in Block, UpdateATT(b) PROVE RestTyped'
    <2>1. inflight' \subseteq inflight \cup MeshEvent
        BY <1>2, <1>5 DEF UpdateATT, MeshEvent
    <2> QED BY <1>2, <1>5, <2>1 DEF UpdateATT, RestTyped, meshVars, managerVars
<1>6. ASSUME NEW tx \in Transaction, AcceptTransaction(tx) PROVE RestTyped'
    <2>1. inflight' \subseteq inflight \cup MeshEvent
        BY <1>6 DEF AcceptTransaction, MeshEvent
    <2> QED BY <1>6, <2>1 DEF AcceptTransaction, RestTyped, clockVars, managerVars
<1>7. ASSUME NEW c \in ConflictID, AddConflict(c) PROVE RestTyped'
    BY <1>7 DEF AddConflict, RestTyped, meshVars, clockVars, managerVars
<1>8. ASSUME NEW c \in ConflictID, AnnounceConflict(c) \/ AcceptConflict(c) PROVE RestTyped'
    BY <1>1, <1>8 DEF AnnounceConflict, AcceptConflict, RestTyped, meshVars, clockVars, managerVars
<1>9. ASSUME Bootstrap PROVE RestTyped'
    BY <1>9 DEF Bootstrap, RestTyped, meshVars, managerVars
<1> QED
    BY <1>3, <1>4, <1>5, <1>6, <1>7, <1>8, <1>9 DEF Environment

LEMMA InitRestTyped == Init => RestTyped
    BY NotarizationAssumption DEF Init, InitManager, RestTyped, Time, Epoch

(***************************************************************************)
(* Type correctness: the epoch indexes stay in the range of the epochs and *)
(* the counters in that of their type, and only events that some component *)
(* triggers reach the handlers.                                            *)
(***************************************************************************)
THEOREM NotarizationTypeCorrect == Spec => []NotarizationTypeOK
<1>1. Spec => []TypeOK
    BY NotarizationImplementsDAG, TypeCorrect, PTL
<1>2. NotarizationInv /\ RestTyped /\ TypeOK' /\ [Next]_vars => RestTyped'
    <2> SUFFICES ASSUME NotarizationInv, RestTyped, TypeOK', [Next]_vars PROVE RestTyped'
        OBVIOUS
    <2>1. CASE UNCHANGED vars
        BY <2>1 DEF RestTyped, vars, meshVars, clockVars
    <2> QED BY <2>1, EnvironmentKeepsRestTyped, ManagerKeepsRestTyped DEF Next
<1>3. NotarizationInv /\ RestTyped => NotarizationTypeOK
    <2> SUFFICES ASSUME NotarizationInv, RestTyped PROVE NotarizationTypeOK
        OBVIOUS
    <2>1. counters \in [Epoch -> 0 .. CounterSize - 1]
        BY DEF NotarizationInv, EpochsTyped, RestTyped
    <2> QED BY <2>1 DEF NotarizationInv, EpochsTyped, RestTyped, NotarizationTypeOK
<1> QED
    BY <1>1, <1>2, <1>3, InitRestTyped, InvariantHolds, PTL DEF Spec
=============================================================================
