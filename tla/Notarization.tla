----------------------------- MODULE Notarization -----------------------------
(***************************************************************************)
(* The notarization manager of packages/core/notarization: it collects the *)
(* accepted blocks and transactions of every epoch, counts the unresolved  *)
(* conflicts of the epochs, and commits one epoch after the other once it  *)
(* is old enough and no conflict in it is pending.                         *)
(*                                                                         *)
(* The manager learns everything from events.  They are attached, not      *)
(* hooked: an event is handled some time after it was triggered, in any    *)
(* order, while conflict DAG, ledger and clock move on.  A handler holds   *)
(* epochCommitmentFactoryMutex; the one that commits epochs does so one    *)
(* epoch per step (moving), as the acceptance time may change in between.  *)
(*                                                                         *)
(* The conflicts are those of module ConflictDAG.  Merkle trees are the    *)
(* sets of their leaves and roots are the contents they commit to.         *)
(***************************************************************************)
EXTENDS Mesh, ConflictDAG, Integers

CONSTANTS
    IssuingTime,        \* the issuing time of a block, in seconds after the genesis
    Payload,            \* the transaction a block carries, or NoTransaction
    NoTransaction,
    Inputs,             \* the outputs a transaction spends
    Outputs,            \* the outputs it creates
    GenesisOutputs,     \* the outputs in the snapshot the node starts from
    ConflictParents,    \* the conflicts a transaction depends on
    Conflicting,        \* transactions that become conflicts
    StartSynced,        \* the node is bootstrapped from the start
    InitialBlocks,      \* blocks that are in the storage from the start
    Duration,           \* length of an epoch in seconds
    MinCommittableEpochAge,
    SnapshotDepth,      \* epochs the ledger state stays behind the committed one
    CounterSize,        \* 2^64 in the code: where the conflict counters wrap around
    MaxEpoch            \* epoch of the latest block

Transaction == ConflictID
OutputID == GenesisOutputs \cup UNION {Outputs[tx] : tx \in Transaction}
Epoch == 1 .. MaxEpoch
NoTime == -1

(* Times before the genesis, and the zero time, belong to epoch 0. *)
IndexFromTime(t) == IF t < 0 THEN 0 ELSE t \div Duration + 1

EndTime(ei) == (ei - 1) * Duration + Duration - 1

EpochOf(b) == IndexFromTime(IssuingTime[b])

ASSUME NotarizationAssumption ==
    /\ Duration \in Nat \ {0} /\ CounterSize \in Nat \ {0}
    /\ {MinCommittableEpochAge, SnapshotDepth} \subseteq Nat /\ MaxEpoch \in Nat \ {0}
    /\ \A b \in Block : IssuingTime[b] \in Nat /\ EpochOf(b) \in Epoch
    /\ \A b \in Block : Payload[b] \in Transaction \cup {NoTransaction}
    /\ \A tx \in Transaction : Inputs[tx] \subseteq OutputID /\ ConflictParents[tx] \subseteq Transaction
    /\ \A tx, u \in Transaction : tx # u => Outputs[tx] \cap Outputs[u] = {}
    /\ NoTransaction \notin Transaction /\ Conflicting \subseteq Transaction
    /\ \A tx \in Conflicting : Inputs[tx] # {} /\ Inputs[tx] \subseteq ResourceID
    /\ StartSynced \in BOOLEAN /\ InitialBlocks \subseteq Block

VARIABLES
    attached,       \* blocks in the storage
    acceptedBlocks, \* blocks the acceptance gadget has accepted
    inclusionTime,  \* TransactionMetadata.InclusionTime
    acceptedTxs,    \* transactions the ledger has accepted
    att,            \* TimeManager.ATT
    bootstrapped,   \* TimeManager.Bootstrapped
    inflight,       \* triggered events that are not handled yet
    committed,      \* latestCommittableEpochIndex
    acceptanceEI,   \* acceptanceEpochIndex
    moving,         \* epoch up to which a handler tries to commit, or 0: mutex free
    counters,       \* pendingConflictsCounters; 0: no entry
    meshTree,       \* CommitmentTrees.meshTree of every epoch
    mutationTree,   \* CommitmentTrees.stateMutationTree of every epoch
    spent,          \* epochDiffStorage.spent of every epoch
    created,        \* epochDiffStorage.created of every epoch
    stateTree,      \* stateRootTree
    ledgerState,    \* ledgerstateStorage
    ecRecords       \* what the ECRecord of every committed epoch commits to

meshVars == <<attached, acceptedBlocks, inclusionTime, acceptedTxs>>
clockVars == <<att, bootstrapped>>
epochVars == <<meshTree, mutationTree, spent, created>>
commitVars == <<committed, stateTree, ledgerState, ecRecords>>
vars == <<dagVars, meshVars, clockVars, inflight, acceptanceEI, moving, counters, epochVars, commitVars>>

BlockAccepted(b) == [type |-> "BlockAccepted", block |-> b]
UpdateTime(b) == [type |-> "UpdateTime", block |-> b]
TransactionAccepted(tx) == [type |-> "TransactionAccepted", tx |-> tx]
InclusionUpdated(tx, old, new) == [type |-> "InclusionUpdated", tx |-> tx, old |-> old, new |-> new]
AcceptanceTimeUpdated(t) == [type |-> "AcceptanceTimeUpdated", time |-> t]

Time == {NoTime} \cup {IssuingTime[b] : b \in Block}

MeshEvent ==
    {BlockAccepted(b) : b \in Block} \cup {UpdateTime(b) : b \in Block}
        \cup {TransactionAccepted(tx) : tx \in Transaction}
        \cup {InclusionUpdated(tx, old, new) : tx \in Transaction, old \in Time, new \in Time}
        \cup {AcceptanceTimeUpdated(t) : t \in Time}

Roots == [mesh : SUBSET Block, mutations : SUBSET Transaction, state : SUBSET OutputID]

NotarizationTypeOK ==
    /\ attached \subseteq Block /\ acceptedBlocks \subseteq attached
    /\ inclusionTime \in [Transaction -> Time]
    /\ acceptedTxs \subseteq Transaction
    /\ att \in Time /\ bootstrapped \in BOOLEAN
    /\ inflight \subseteq Event \cup MeshEvent
    /\ committed \in 0 .. MaxEpoch /\ acceptanceEI \in 1 .. MaxEpoch /\ moving \in 0 .. MaxEpoch
    /\ counters \in [Epoch -> 0 .. CounterSize - 1]
    /\ meshTree \in [Epoch -> SUBSET Block]
    /\ mutationTree \in [Epoch -> SUBSET Transaction]
    /\ spent \in [Epoch -> SUBSET OutputID] /\ created \in [Epoch -> SUBSET OutputID]
    /\ stateTree \subseteq OutputID /\ ledgerState \subseteq OutputID
    /\ ecRecords \in [1 .. committed -> Roots]

(* A node that has loaded a snapshot without epoch diffs: LoadOutputsWithMetadata, LoadECandEIs. *)
InitManager ==
    /\ attached = InitialBlocks /\ acceptedBlocks = {} /\ acceptedTxs = {}
    /\ inclusionTime = [tx \in Transaction |-> NoTime]
    /\ att = NoTime /\ bootstrapped = StartSynced
    /\ inflight = {}
    /\ committed = 0 /\ acceptanceEI = 1 /\ moving = 0
    /\ counters = [ei \in Epoch |-> 0]
    /\ meshTree = [ei \in Epoch |-> {}] /\ mutationTree = [ei \in Epoch |-> {}]
    /\ spent = [ei \in Epoch |-> {}] /\ created = [ei \in Epoch |-> {}]
    /\ stateTree = GenesisOutputs /\ ledgerState = GenesisOutputs
    /\ ecRecords = <<>>

Init == InitDAG /\ InitManager

-----------------------------------------------------------------------------
(* The components that trigger the events. *)

managerVars == <<acceptanceEI, moving, counters, epochVars, commitVars>>

(* The booker stores a block as an attachment of its transaction. *)
StoreAttachment(b) ==
    /\ b \notin attached
    /\ attached' = attached \cup {b}
    /\ UNCHANGED <<dagVars, acceptedBlocks, inclusionTime, acceptedTxs, clockVars, inflight, managerVars>>

(***************************************************************************)
(* The gadget accepts a block.  The inclusion time of its transaction is   *)
(* set if there is none yet or the new one is not later.                   *)
(***************************************************************************)
UpdatesInclusion(b) ==
    /\ Payload[b] # NoTransaction
    /\ inclusionTime[Payload[b]] = NoTime \/ IssuingTime[b] <= inclusionTime[Payload[b]]

(***************************************************************************)
(* The ledger accepts an included transaction whose conflicts are accepted *)
(* (without conflicts, any), and never two that spend the same output.     *)
(***************************************************************************)
ConflictsOf(tx) == IF tx \in Stored THEN {tx} ELSE ConflictParents[tx] \cap Stored

Acceptable(tx) ==
    /\ tx \notin acceptedTxs
    /\ IsAccepted(ConfirmationState(ConflictsOf(tx)))
    /\ \A u \in acceptedTxs : Inputs[u] \cap Inputs[tx] = {}

(***************************************************************************)
(* A transaction is accepted with its first inclusion, if its conflicts    *)
(* are.  The inclusion update of a first inclusion is not kept: without an *)
(* old epoch the manager's handler returns at once.                        *)
(***************************************************************************)
AcceptBlock(b) ==
    LET tx == Payload[b]
        first == UpdatesInclusion(b) /\ inclusionTime[tx] = NoTime /\ Acceptable(tx)
    IN  /\ b \in attached \ acceptedBlocks
        /\ acceptedBlocks' = acceptedBlocks \cup {b}
        /\ inclusionTime' = IF UpdatesInclusion(b) THEN [inclusionTime EXCEPT ![tx] = IssuingTime[b]]
                            ELSE inclusionTime
        /\ acceptedTxs' = IF first THEN acceptedTxs \cup {tx} ELSE acceptedTxs
        /\ inflight' = inflight \cup {BlockAccepted(b), UpdateTime(b)}
                \cup (IF UpdatesInclusion(b) /\ inclusionTime[tx] # NoTime
                      THEN {InclusionUpdated(tx, inclusionTime[tx], IssuingTime[b])} ELSE {})
                \cup (IF first THEN {TransactionAccepted(tx)} ELSE {})
        /\ UNCHANGED <<dagVars, attached, clockVars, managerVars>>

(* Otherwise when its conflicts have been accepted. *)
AcceptTransaction(tx) ==
    /\ inclusionTime[tx] # NoTime /\ Acceptable(tx)
    /\ acceptedTxs' = acceptedTxs \cup {tx}
    /\ inflight' = inflight \cup {TransactionAccepted(tx)}
    /\ UNCHANGED <<dagVars, attached, acceptedBlocks, inclusionTime, clockVars, managerVars>>

(* The ledger makes a conflict of a booked transaction, below its unresolved parents. *)
AddConflict(c) ==
    /\ c \in Conflicting
    /\ \E b \in attached : Payload[b] = c
    /\ ConflictParents[c] \subseteq Stored
    /\ CreateConflict(c, UnconfirmedConflicts(ConflictParents[c]), Inputs[c])
    /\ UNCHANGED <<meshVars, clockVars, inflight, managerVars>>

AnnounceConflict(c) ==
    /\ TriggerConflictCreated(c)
    /\ inflight' = inflight \cup triggered'
    /\ UNCHANGED <<meshVars, clockVars, managerVars>>

(* The gadget accepts a conflict whose competitors, and those of its ancestors, have not won. *)
AcceptConflict(c) ==
    /\ confirmationState[c] = Pending
    /\ \A x \in Walk({c}, ParentEdges) : \A d \in ConflictingConflicts(x) :
            ~IsAccepted(confirmationState[d])
    /\ SetConflictAccepted(c)
    /\ inflight' = inflight \cup triggered'
    /\ UNCHANGED <<meshVars, clockVars, managerVars>>

(* TimeManager.updateTime *)
UpdateATT(b) ==
    LET t == IssuingTime[b] IN
    /\ UpdateTime(b) \in inflight
    /\ IF att > t
       THEN inflight' = inflight \ {UpdateTime(b)} /\ UNCHANGED att
       ELSE att' = t /\ inflight' = (inflight \ {UpdateTime(b)}) \cup {AcceptanceTimeUpdated(t)}
    /\ UNCHANGED <<dagVars, meshVars, bootstrapped, managerVars>>

(* TimeManager.updateSyncedState: once synced, the node is bootstrapped for good. *)
Bootstrap ==
    /\ ~bootstrapped /\ bootstrapped' = TRUE
    /\ UNCHANGED <<dagVars, meshVars, att, inflight, managerVars>>

-----------------------------------------------------------------------------
(* Helpers of the manager. *)

(* Mutant: the latest committed epoch counts as open. *)
MutantIsEpochAlreadyCommitted(ei) == ei < committed

isEpochAlreadyCommitted(ei) == ei <= committed

isOldEnough(ei) == att - EndTime(ei) >= MinCommittableEpochAge

(* Committed epochs have no counter, so the epochs after the latest one decide. *)
allPastConflictsAreResolved(ei) == \A index \in committed + 1 .. ei : counters[index] = 0

isCommittable(ei) == isOldEnough(ei) /\ allPastConflictsAreResolved(ei)

(* The epoch of the earliest attachment, booked or not. *)
getConflictEI(c) ==
    LET attachments == {b \in attached : Payload[b] = c}
        earliest == CHOOSE b \in attachments : \A d \in attachments : IssuingTime[b] <= IssuingTime[d]
    IN  EpochOf(earliest)

-----------------------------------------------------------------------------
(* The handlers. *)

(* A handler takes an event, under the mutex, if the node is bootstrapped by then. *)
Handle(ev) ==
    /\ ev \in inflight /\ bootstrapped /\ moving = 0
    /\ inflight' = inflight \ {ev}
    /\ UNCHANGED <<dagVars, meshVars, clockVars, commitVars>>

(* onlyIfBootstrapped: before, the event is lost. *)
IgnoreEvent(ev) ==
    /\ ev \in inflight /\ ev.type # "UpdateTime" /\ ~bootstrapped
    /\ inflight' = inflight \ {ev}
    /\ UNCHANGED <<dagVars, meshVars, clockVars, managerVars>>

OnBlockAccepted(b) ==
    LET ei == EpochOf(b) IN
    /\ Handle(BlockAccepted(b))
    /\ meshTree' = IF isEpochAlreadyCommitted(ei) THEN meshTree ELSE [meshTree EXCEPT ![ei] = @ \cup {b}]
    /\ UNCHANGED <<acceptanceEI, moving, counters, mutationTree, spent, created>>

(* includeTransactionInEpoch *)
OnTransactionAccepted(tx) ==
    LET ei == IndexFromTime(inclusionTime[tx]) IN
    /\ Handle(TransactionAccepted(tx))
    /\ IF isEpochAlreadyCommitted(ei)
       THEN UNCHANGED <<mutationTree, spent, created>>
       ELSE /\ mutationTree' = [mutationTree EXCEPT ![ei] = @ \cup {tx}]
            /\ spent' = [spent EXCEPT ![ei] = @ \cup Inputs[tx]]
            /\ created' = [created EXCEPT ![ei] = @ \cup Outputs[tx]]
    /\ UNCHANGED <<acceptanceEI, moving, counters, meshTree>>

(* The inclusion update takes a transaction from one open epoch to another one. *)
Moves(tx, old, new) ==
    /\ old # new
    /\ ~isEpochAlreadyCommitted(old) /\ ~isEpochAlreadyCommitted(new)
    /\ tx \in mutationTree[old]

(* Mutant: nothing is removed from the old epoch. *)
MutantMoveBetween(f, S, old, new) == [f EXCEPT ![new] = @ \cup S]

MoveBetween(f, S, old, new) == [f EXCEPT ![old] = @ \ S, ![new] = @ \cup S]

(* removeTransactionFromEpoch, then includeTransactionInEpoch. *)
OnTransactionInclusionUpdated(tx, oldTime, newTime) ==
    LET old == IndexFromTime(oldTime)
        new == IndexFromTime(newTime)
    IN  /\ Handle(InclusionUpdated(tx, oldTime, newTime))
        /\ IF Moves(tx, old, new)
           THEN /\ mutationTree' = MoveBetween(mutationTree, {tx}, old, new)
                /\ spent' = MoveBetween(spent, Inputs[tx], old, new)
                /\ created' = MoveBetween(created, Outputs[tx], old, new)
           ELSE UNCHANGED <<mutationTree, spent, created>>
        /\ UNCHANGED <<acceptanceEI, moving, counters, meshTree>>

(* increasePendingConflictCounter *)
OnConflictCreated(ev) ==
    LET ei == getConflictEI(ev.ID) IN
    /\ ev.type = "Created" /\ Handle(ev)
    /\ counters' = IF isEpochAlreadyCommitted(ei) THEN counters
                   ELSE [counters EXCEPT ![ei] = (@ + 1) % CounterSize]
    /\ UNCHANGED <<acceptanceEI, moving, epochVars>>

(* Mutant: a signed counter. *)
MutantDecreased(count) == count - 1

(* decreasePendingConflictCounter, on uint64 *)
Decreased(count) == (count + CounterSize - 1) % CounterSize

(* OnConflictAccepted and OnConflictRejected: decreasePendingConflictCounter *)
OnConflictResolved(ev) ==
    LET ei == getConflictEI(ev.ID)
        count == Decreased(counters[ei])
    IN  /\ ev.type \in {"Accepted", "Rejected"} /\ Handle(ev)
        /\ IF isEpochAlreadyCommitted(ei)
           THEN UNCHANGED <<counters, moving>>
           ELSE /\ counters' = [counters EXCEPT ![ei] = count]
                /\ moving' = IF count = 0 THEN ei ELSE 0
        /\ UNCHANGED <<acceptanceEI, epochVars>>

OnAcceptanceTimeUpdated(t) ==
    LET ei == IndexFromTime(t) IN
    /\ Handle(AcceptanceTimeUpdated(t))
    /\ IF ei > acceptanceEI
       THEN acceptanceEI' = ei /\ moving' = ei
       ELSE UNCHANGED <<acceptanceEI, moving>>
    /\ UNCHANGED <<counters, epochVars>>

-----------------------------------------------------------------------------
(* moveLatestCommittableEpoch, one epoch per step. *)

(* Mutant: stays one epoch behind. *)
MutantLedgerEpoch(ei) == ei - SnapshotDepth - 1

(* The epoch whose diff goes to the ledger state when ei is committed. *)
LedgerEpoch(ei) == ei - SnapshotDepth

(* Mutant: keeps the outputs that are created and spent in the epoch. *)
MutantReduced(f, g, ei) == f

(* loadDiffUTXOs removes what is created and spent in one epoch. *)
Reduced(f, g, ei) == [f EXCEPT ![ei] = @ \ g[ei]]

(***************************************************************************)
(* newEpochRoots and setLatestCommittableEpochIndex.  Created outputs go   *)
(* into the state tree before the spent ones leave it; the ledger state    *)
(* takes the diff of an earlier epoch, spent outputs first.                *)
(***************************************************************************)
CommitEpoch ==
    LET ei == committed + 1
        ledgerEI == LedgerEpoch(ei)
        roots == [mesh |-> meshTree[ei], mutations |-> mutationTree[ei], state |-> stateTree']
    IN  /\ committed < moving /\ isCommittable(ei)
        /\ spent' = Reduced(spent, created, ei) /\ created' = Reduced(created, spent, ei)
        /\ stateTree' = (stateTree \cup created'[ei]) \ spent'[ei]
        /\ ledgerState' = IF ledgerEI > 0 THEN (ledgerState \ spent'[ledgerEI]) \cup created'[ledgerEI]
                          ELSE ledgerState
        /\ ecRecords' = [e \in 1 .. ei |-> IF e = ei THEN roots ELSE ecRecords[e]]
        /\ meshTree' = [meshTree EXCEPT ![ei] = {}]
        /\ mutationTree' = [mutationTree EXCEPT ![ei] = {}]
        /\ committed' = ei
        /\ counters' = [counters EXCEPT ![ei] = 0]
        /\ UNCHANGED <<dagVars, meshVars, clockVars, inflight, acceptanceEI, moving>>

(* The loop ends and the handler unlocks. *)
StopMoving ==
    /\ moving > 0
    /\ committed < moving => ~isCommittable(committed + 1)
    /\ moving' = 0
    /\ UNCHANGED <<dagVars, meshVars, clockVars, inflight, acceptanceEI, counters, epochVars, commitVars>>

-----------------------------------------------------------------------------
Environment ==
    \/ \E b \in Block : StoreAttachment(b) \/ AcceptBlock(b) \/ UpdateATT(b)
    \/ \E tx \in Transaction : AcceptTransaction(tx)
    \/ \E c \in ConflictID : AddConflict(c) \/ AnnounceConflict(c) \/ AcceptConflict(c)
    \/ Bootstrap

Manager ==
    \/ \E b \in Block : OnBlockAccepted(b)
    \/ \E tx \in Transaction : OnTransactionAccepted(tx)
    \/ \E tx \in Transaction, old, new \in Time : OnTransactionInclusionUpdated(tx, old, new)
    \/ \E ev \in inflight : OnConflictCreated(ev) \/ OnConflictResolved(ev) \/ IgnoreEvent(ev)
    \/ \E t \in Time : OnAcceptanceTimeUpdated(t)
    \/ CommitEpoch \/ StopMoving

Next == Environment \/ Manager

Spec == Init /\ [][Next]_vars

-----------------------------------------------------------------------------
(* Correctness. *)

CreatedBy(S) == UNION {Outputs[tx] : tx \in S}
SpentBy(S) == UNION {Inputs[tx] : tx \in S}

(* What the manager has put into epoch ei, committed or not. *)
Mutations(ei) == IF ei <= committed THEN ecRecords[ei].mutations ELSE mutationTree[ei]

(***************************************************************************)
(* A transaction changes the state once: it is in the state mutation tree  *)
(* of one epoch at most, though its inclusion time moves and the events    *)
(* that tell of it arrive in any order.                                    *)
(***************************************************************************)
TransactionInOneEpoch ==
    \A e, f \in Epoch : Mutations(e) \cap Mutations(f) # {} => e = f

(***************************************************************************)
(* The diff of an epoch is what the transactions of its state mutation     *)
(* tree create and spend; in a committed epoch, without the outputs that   *)
(* came and went within it.                                                *)
(***************************************************************************)
DiffsMatchMutations ==
    \A ei \in Epoch :
        LET out == CreatedBy(Mutations(ei))
            in  == SpentBy(Mutations(ei))
        IN  IF ei <= committed
            THEN created[ei] = out \ in /\ spent[ei] = in \ out
            ELSE created[ei] = out /\ spent[ei] = in

(***************************************************************************)
(* A snapshot reproduces the committed state: the ledger state, advanced   *)
(* by the diffs of the last SnapshotDepth committed epochs, is what the    *)
(* latest commitment's state root stands for.                              *)
(***************************************************************************)
Changed(o) == {ei \in Epoch : committed - SnapshotDepth < ei /\ ei <= committed /\ o \in created[ei] \cup spent[ei]}

SnapshotReproducesState ==
    /\ \A o \in OutputID :
        o \in stateTree <=>
            IF Changed(o) = {} THEN o \in ledgerState
            ELSE \E ei \in Changed(o) : o \in created[ei] /\ \A e \in Changed(o) : e <= ei
    /\ committed > 0 => ecRecords[committed].state = stateTree

(***************************************************************************)
(* Nothing reaches an epoch after its commitment: what a late handler      *)
(* would add is missing from the roots that other nodes compare.           *)
(***************************************************************************)
CommittedEpochsClosed ==
    \A ei \in 1 .. committed : meshTree[ei] = {} /\ mutationTree[ei] = {} /\ counters[ei] = 0

(***************************************************************************)
(* The inductive invariant of the proofs.  A transaction is announced once *)
(* (OncePending), and accepted ones do not compete for an output, so its   *)
(* part of a diff can be moved to another epoch without touching what      *)
(* other transactions put there.  The conflict events name conflicts with  *)
(* an attachment (ConflictsAttached): their epoch exists.                  *)
(***************************************************************************)
EpochsTyped ==
    /\ attached \subseteq Block /\ acceptedTxs \subseteq Transaction
    /\ inclusionTime \in [Transaction -> Time]
    /\ committed \in 0 .. MaxEpoch /\ moving \in 0 .. MaxEpoch
    /\ counters \in [Epoch -> Nat]
    /\ meshTree \in [Epoch -> SUBSET Block]
    /\ mutationTree \in [Epoch -> SUBSET Transaction]
    /\ spent \in [Epoch -> SUBSET OutputID] /\ created \in [Epoch -> SUBSET OutputID]
    /\ stateTree \subseteq OutputID /\ ledgerState \subseteq OutputID
    /\ ecRecords \in [1 .. committed -> Roots]

ConflictsAttached ==
    /\ confirmationState \in [ConflictID -> State]
    /\ unannounced \subseteq Stored
    /\ \A c \in Stored : \E b \in attached : Payload[b] = c
    /\ \A ev \in inflight : ev.type \in {"Created", "Accepted", "Rejected"} => ev.ID \in Stored

OncePending ==
    /\ \A tx \in Transaction :
        /\ TransactionAccepted(tx) \in inflight => tx \in acceptedTxs
        /\ tx \notin acceptedTxs \/ TransactionAccepted(tx) \in inflight
                => \A ei \in Epoch : tx \notin Mutations(ei)
    /\ \A tx, u \in acceptedTxs : tx # u => Inputs[tx] \cap Inputs[u] = {}

NotarizationInv ==
    /\ EpochsTyped /\ ConflictsAttached /\ OncePending
    /\ TransactionInOneEpoch /\ DiffsMatchMutations
    /\ SnapshotReproducesState /\ CommittedEpochsClosed
=============================================================================
