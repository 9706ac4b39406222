------------------------------- MODULE Intake --------------------------------
(***************************************************************************)
(* How a block enters the mesh (packages/core/mesh_old): the Parser drops  *)
(* duplicates, the Storage keeps the block, the Solidifier waits for its   *)
(* past cone and has the Requester ask for what is missing, and the Booker *)
(* books it once its parents and its transaction are booked.               *)
(*                                                                         *)
(* The components call each other through events.  A Hook runs in the      *)
(* thread that triggers, an Attach and event.Loop.Submit hand a closure to *)
(* a pool of workers, so every call below is a task, and a step of a task  *)
(* is what it does between two points at which another one can interfere.  *)
(* What a booked block inherits from its parents is not modelled here.     *)
(***************************************************************************)
EXTENDS Mesh, Naturals, Sequences, Functions

CONSTANTS
    Genesis,                  \* EmptyBlockID, stored by storeGenesis
    Transaction,              \* transactions
    NoTransaction,            \* the payload of a block without a transaction
    Parents,                  \* the parents of a block
    LikeParents,              \* those it references as shallow like parents
    Payload,                  \* its payload
    IssuingTime,              \* its issuing time
    ByGenesisNode,            \* blocks of the node that may attach to the genesis
    Filtered,                 \* blocks that a filter behind the first one rejects
    Inputs,                   \* the transactions whose outputs a transaction spends
    MaxParentsTimeDifference, \* maxParentsTimeDifference
    MaxRequestThreshold,      \* RequesterOptions.MaxRequestThreshold
    FilterSize,               \* the size of the RecentlySeenBytesFilter
    Relayed,                  \* bound: blocks that peers without them ask for
    MaxArrivals,              \* bound on the blocks and requests received from peers
    MaxRestarts               \* bound on restarts of the node

ASSUME IntakeAssumption ==
    /\ Genesis \notin Block /\ NoTransaction \notin Transaction
    /\ Block \cap Transaction = {}
    /\ Parents \in [Block -> SUBSET (Block \cup {Genesis})]
    /\ \A b \in Block : Parents[b] # {} /\ LikeParents[b] \subseteq Parents[b] \ {Genesis}
    /\ Payload \in [Block -> Transaction \cup {NoTransaction}]
    /\ IssuingTime \in [Block -> Nat]
    /\ ByGenesisNode \subseteq Block /\ Filtered \subseteq Block /\ Relayed \subseteq Block
    /\ Inputs \in [Transaction -> SUBSET Transaction]
    /\ {MaxParentsTimeDifference, MaxRequestThreshold, MaxArrivals, MaxRestarts} \subseteq Nat
    /\ FilterSize \in Nat \ {0}

VARIABLES
    seen,        \* the RecentlySeenBytesFilter, oldest first
    metadata,    \* blockMetadataStorage
    stored,      \* blockStorage and childStorage
    missing,     \* missingBlockStorage
    solid,       \* BlockMetadata.IsSolid
    invalid,     \* BlockMetadata.IsObjectivelyInvalid
    booked,      \* BlockMetadata.IsBooked
    attachments, \* attachmentStorage: pairs of a transaction and a block
    ledger,      \* what the ledger has made of a transaction
    tasks,       \* the closures to run and those that run
    scheduled,   \* Requester.scheduledRequests: blocks with the count of their timer
    timers,      \* the timers in timedExecutor
    firing,      \* reRequest calls that have triggered RequestIssued
    failing,     \* requests given up, their MissingBlock still to be deleted
    failed,      \* blocks for which RequestFailed has been triggered
    arrivals,    \* blocks and requests received so far
    restarts     \* restarts so far

storageVars == <<metadata, stored, missing, solid, invalid, booked, attachments, ledger>>
requestVars == <<scheduled, timers, firing, failing, failed>>
vars == <<seen, storageVars, tasks, requestVars, arrivals, restarts>>

(* What a thread is about to do.  The closures in Queued have been submitted and have not *)
(* started; the other operations are the later steps of a call that has.                  *)
Queued == {"solidify", "processChildren", "book", "propagateBooking", "processBookedTransaction",
           "bookAttachment", "processTransaction"}
Running == {"storeBlock", "deleteMissing", "stopRequest", "blockStored", "checkParents",
            "blockSolid", "storeAndProcess", "bookBlock"}

(* rest: parents still to be looked at, or the block to ignore; solid: no parent so far was unsolid. *)
Task == [op : Queued \cup Running, id : Block \cup Transaction, rest : SUBSET (Block \cup {Genesis}), solid : BOOLEAN]

Do(op, id) == [op |-> op, id |-> id, rest |-> {}, solid |-> TRUE]

Timer == [id : Block, count : 0 .. MaxRequestThreshold]

Init ==
    /\ seen = <<>> /\ metadata = {Genesis} /\ stored = {} /\ missing = {}
    /\ solid = {Genesis} /\ invalid = {} /\ booked = {Genesis}
    /\ attachments = {} /\ ledger = [t \in Transaction |-> "unknown"]
    /\ tasks = {} /\ scheduled = <<>> /\ timers = {} /\ firing = {} /\ failing = {} /\ failed = {}
    /\ arrivals = 0 /\ restarts = 0

(* The thread of task t goes on with the tasks of next, and submits the tasks of new. *)
Continue(t, next, new) == tasks' = (tasks \ {t}) \cup next \cup new

Children(b) == {c \in stored : b \in Parents[c]}

-----------------------------------------------------------------------------
(* Parser and Storage. *)

(* The RecentlySeenBytesFilter keeps the latest blocks. *)
Remember(b) == IF Len(seen) = FilterSize THEN Append(Tail(seen), b) ELSE Append(seen, b)

(* Parse: the filter of recently seen bytes comes first, and what a later             *)
(* filter rejects has been seen as well.  StoreBlock takes the metadata as its guard.  *)
Receive(b) ==
    /\ arrivals < MaxArrivals
    /\ arrivals' = arrivals + 1
    /\ b \notin Range(seen)
    /\ seen' = Remember(b)
    /\ \/ /\ b \in Filtered \cup metadata
          /\ UNCHANGED <<metadata, tasks>>
       \/ /\ b \notin Filtered \cup metadata
          /\ metadata' = metadata \cup {b}
          /\ tasks' = tasks \cup {Do("storeBlock", b)}
    /\ UNCHANGED <<stored, missing, solid, invalid, booked, attachments, ledger, requestVars, restarts>>

StoreBlock(t) ==
    /\ t.op = "storeBlock"
    /\ stored' = stored \cup {t.id}
    /\ Continue(t, {Do("deleteMissing", t.id)}, {})
    /\ UNCHANGED <<metadata, missing, solid, invalid, booked, attachments, ledger, requestVars>>

DeleteMissing(t) ==
    /\ t.op = "deleteMissing"
    /\ missing' = missing \ {t.id}
    /\ Continue(t, {Do(IF t.id \in missing THEN "stopRequest" ELSE "blockStored", t.id)}, {})
    /\ UNCHANGED <<metadata, stored, solid, invalid, booked, attachments, ledger, requestVars>>

-----------------------------------------------------------------------------
(* Requester.  scheduledRequestsMutex is held by a step, and by a failing request. *)

Unlocked == failing = {}

StartRequest(b) ==
    /\ Unlocked
    /\ scheduled' = [x \in DOMAIN scheduled \cup {b} |-> IF x \in DOMAIN scheduled THEN scheduled[x] ELSE 0]
    /\ timers' = IF b \in DOMAIN scheduled THEN timers ELSE timers \cup {[id |-> b, count |-> 0]}
    /\ UNCHANGED <<firing, failing, failed>>

StopRequest(t) ==
    /\ t.op = "stopRequest" /\ Unlocked
    /\ scheduled' = Restrict(scheduled, DOMAIN scheduled \ {t.id})
    /\ timers' = {m \in timers : ~(m.id = t.id /\ t.id \in DOMAIN scheduled /\ m.count = scheduled[t.id])}
    /\ Continue(t, {Do("blockStored", t.id)}, {})
    /\ UNCHANGED <<storageVars, firing, failing, failed>>

(* The executor has one worker. *)
Fire(m) ==
    /\ firing = {} /\ Unlocked
    /\ timers' = timers \ {m}
    /\ firing' = {m}
    /\ UNCHANGED <<seen, storageVars, tasks, scheduled, failing, failed, arrivals, restarts>>

TooOften(count) == count > MaxRequestThreshold

(* The locked part of reRequest. *)
ReRequest(m) ==
    LET again  == [m EXCEPT !.count = m.count + 1]
        giveUp == TooOften(again.count)
    IN  /\ firing' = firing \ {m}
        /\ \/ /\ m.id \notin DOMAIN scheduled
              /\ UNCHANGED <<scheduled, timers, failing, failed>>
           \/ /\ m.id \in DOMAIN scheduled /\ giveUp
              /\ scheduled' = Restrict(scheduled, DOMAIN scheduled \ {m.id})
              /\ failing' = {m.id} /\ failed' = failed \cup {m.id}
              /\ UNCHANGED timers
           \/ /\ m.id \in DOMAIN scheduled /\ ~giveUp
              /\ scheduled' = [scheduled EXCEPT ![m.id] = again.count]
              /\ timers' = timers \cup {again}
              /\ UNCHANGED <<failing, failed>>
        /\ UNCHANGED <<seen, storageVars, tasks, arrivals, restarts>>

(* DeleteMissingBlock, before reRequest returns. *)
DeleteMissingBlock(b) ==
    /\ missing' = missing \ {b}
    /\ failing' = failing \ {b}
    /\ UNCHANGED <<seen, metadata, stored, solid, invalid, booked, attachments, ledger, tasks,
                   scheduled, timers, firing, failed, arrivals, restarts>>

-----------------------------------------------------------------------------
(* Solidifier. *)

(* Mutant: whether the block has arrived is not looked at. *)
MutantRetrieveMissingBlock(b) ==
    IF b \notin missing
    THEN missing' = missing \cup {b} /\ StartRequest(b)
    ELSE UNCHANGED <<missing, requestVars>>

(* The callback of ComputeIfAbsent excludes every other access to the metadata of b. *)
RetrieveMissingBlock(b) ==
    IF b \notin metadata \cup missing
    THEN missing' = missing \cup {b} /\ StartRequest(b)
    ELSE UNCHANGED <<missing, requestVars>>

(* checkBlockSolidity holds the lock of its block, a solid block needs no check. *)
Solidify(t) ==
    /\ t.op \in {"solidify", "blockStored"}
    /\ \A u \in tasks : ~(u.op = "checkParents" /\ u.id = t.id)
    /\ Continue(t, IF t.id \in solid THEN {}
                   ELSE {[Do("checkParents", t.id) EXCEPT !.rest = Parents[t.id]]}, {})
    /\ UNCHANGED <<storageVars, requestVars>>

(* Mutant: the first parent that is not solid ends the loop. *)
MutantCheckParent(t, p) ==
    /\ t.op = "checkParents" /\ p \in t.rest
    /\ IF p = Genesis \/ ~t.solid THEN UNCHANGED <<missing, requestVars>> ELSE RetrieveMissingBlock(p)
    /\ Continue(t, {[t EXCEPT !.rest = t.rest \ {p}, !.solid = p \in solid /\ t.solid]}, {})
    /\ UNCHANGED <<metadata, stored, solid, invalid, booked, attachments, ledger>>

(* isBlockSolid looks at every parent, and has the missing ones requested. *)
CheckParent(t, p) ==
    /\ t.op = "checkParents" /\ p \in t.rest
    /\ IF p = Genesis THEN UNCHANGED <<missing, requestVars>> ELSE RetrieveMissingBlock(p)
    /\ Continue(t, {[t EXCEPT !.rest = t.rest \ {p}, !.solid = p \in solid /\ t.solid]}, {})
    /\ UNCHANGED <<metadata, stored, solid, invalid, booked, attachments, ledger>>

areParentBlocksValid(b) ==
    \A p \in Parents[b] :
        IF p = Genesis THEN b \in ByGenesisNode
        ELSE /\ p \in LikeParents[b] => Payload[p] # NoTransaction
             /\ IssuingTime[p] <= IssuingTime[b] /\ IssuingTime[b] <= IssuingTime[p] + MaxParentsTimeDifference
             /\ p \notin invalid

ConcludeSolidity(t) ==
    /\ t.op = "checkParents" /\ t.rest = {}
    /\ \/ /\ ~t.solid
          /\ Continue(t, {}, {})
          /\ UNCHANGED <<solid, invalid>>
       \/ /\ t.solid /\ ~areParentBlocksValid(t.id)
          /\ invalid' = invalid \cup {t.id}
          /\ Continue(t, {}, {})
          /\ UNCHANGED solid
       \/ /\ t.solid /\ areParentBlocksValid(t.id)
          /\ solid' = solid \cup {t.id}
          /\ Continue(t, {Do("blockSolid", t.id)}, {Do("processChildren", t.id)})
          /\ UNCHANGED invalid
    /\ UNCHANGED <<metadata, stored, missing, booked, attachments, ledger, requestVars>>

ProcessChildren(t) ==
    /\ t.op = "processChildren"
    /\ Continue(t, {}, {Do("solidify", c) : c \in Children(t.id)})
    /\ UNCHANGED <<storageVars, requestVars>>

(* loadBlock of the gossip plugin: a peer has asked for a block this node does not have. *)
RelayRequest(b) ==
    /\ arrivals < MaxArrivals
    /\ arrivals' = arrivals + 1
    /\ b \notin stored
    /\ RetrieveMissingBlock(b)
    /\ UNCHANGED <<seen, metadata, stored, solid, invalid, booked, attachments, ledger, tasks, restarts>>

-----------------------------------------------------------------------------
(* Booker.  payloadBookingMutex of a block is held from readyForBooking to BookBlock. *)

IsBooking(b) == \E u \in tasks : u.op \in {"storeAndProcess", "bookBlock"} /\ u.id = b

(* Mutant: one booked parent is enough. *)
MutantReadyForBooking(b) == b \in solid /\ b \notin booked /\ Parents[b] \cap booked # {}

readyForBooking(b) == b \in solid /\ b \notin booked /\ Parents[b] \subseteq booked

(* Mutant: only the attachment of a booked transaction is stored. *)
MutantBook(t) ==
    /\ t.op \in {"book", "blockSolid"}
    /\ ~IsBooking(t.id)
    /\ LET ready == readyForBooking(t.id)
           tx    == Payload[t.id]
       IN  /\ Continue(t, IF ~ready THEN {}
                          ELSE {Do(IF tx = NoTransaction THEN "bookBlock" ELSE "storeAndProcess", t.id)}, {})
           /\ attachments' = IF ready /\ tx # NoTransaction /\ ledger[tx] = "booked"
                             THEN attachments \cup {<<tx, t.id>>} ELSE attachments
    /\ UNCHANGED <<metadata, stored, missing, solid, invalid, booked, ledger, requestVars>>

(* The attachment is stored before the ledger is asked. *)
Book(t) ==
    /\ t.op \in {"book", "blockSolid"}
    /\ ~IsBooking(t.id)
    /\ LET ready == readyForBooking(t.id)
           tx    == Payload[t.id]
       IN  /\ Continue(t, IF ~ready THEN {}
                          ELSE {Do(IF tx = NoTransaction THEN "bookBlock" ELSE "storeAndProcess", t.id)}, {})
           /\ attachments' = IF ready /\ tx # NoTransaction THEN attachments \cup {<<tx, t.id>>} ELSE attachments
    /\ UNCHANGED <<metadata, stored, missing, solid, invalid, booked, ledger, requestVars>>

(* TransactionBooked of a transaction, for all attachments but b, and the consumers that wait for it. *)
OnTransactionBooked(tx, b) ==
    {[Do("processBookedTransaction", tx) EXCEPT !.rest = b]}
    \cup {Do("processTransaction", c) : c \in {c \in Transaction : tx \in Inputs[c] /\ ledger[c] = "unsolid"}}

InputsBooked(tx) == \A i \in Inputs[tx] : ledger[i] = "booked"

(* StoreAndProcessTransaction fails for a transaction that is unsolid, also for its reattachments. *)
StoreAndProcessTransaction(t) ==
    LET tx == Payload[t.id]
        books == ledger[tx] = "unknown" /\ InputsBooked(tx)
    IN  /\ t.op = "storeAndProcess"
        /\ ledger' = [ledger EXCEPT ![tx] = IF books THEN "booked" ELSE IF @ = "unknown" THEN "unsolid" ELSE @]
        /\ Continue(t, IF books \/ ledger[tx] = "booked" THEN {Do("bookBlock", t.id)} ELSE {},
                       IF books THEN OnTransactionBooked(tx, {t.id}) ELSE {})
        /\ UNCHANGED <<metadata, stored, missing, solid, invalid, booked, attachments, requestVars>>

(* The ledger books a transaction whose last input has been booked. *)
ProcessTransaction(t) ==
    /\ t.op = "processTransaction"
    /\ LET books == ledger[t.id] = "unsolid" /\ InputsBooked(t.id)
       IN  /\ ledger' = IF books THEN [ledger EXCEPT ![t.id] = "booked"] ELSE ledger
           /\ Continue(t, {}, IF books THEN OnTransactionBooked(t.id, {}) ELSE {})
    /\ UNCHANGED <<metadata, stored, missing, solid, invalid, booked, attachments, requestVars>>

BookBlock(t) ==
    /\ t.op = "bookBlock"
    /\ booked' = booked \cup {t.id}
    /\ Continue(t, {}, {Do("propagateBooking", t.id)})
    /\ UNCHANGED <<metadata, stored, missing, solid, invalid, attachments, ledger, requestVars>>

PropagateBooking(t) ==
    /\ t.op = "propagateBooking"
    /\ Continue(t, {}, {Do("book", c) : c \in Children(t.id)})
    /\ UNCHANGED <<storageVars, requestVars>>

ProcessBookedTransaction(t) ==
    /\ t.op = "processBookedTransaction"
    /\ Continue(t, {}, {Do("bookAttachment", b) : b \in {b \in Block : <<t.id, b>> \in attachments /\ b \notin t.rest}})
    /\ UNCHANGED <<storageVars, requestVars>>

(* It takes the locks of the parents, too, and relies on the ledger having booked the transaction. *)
BookAttachment(t) ==
    /\ t.op = "bookAttachment"
    /\ \A b \in {t.id} \cup Parents[t.id] : ~IsBooking(b)
    /\ Continue(t, IF readyForBooking(t.id) THEN {Do("bookBlock", t.id)} ELSE {}, {})
    /\ UNCHANGED <<storageVars, requestVars>>

-----------------------------------------------------------------------------
(* Shutdown and start. *)

(* Shutdown stops the timers and waits for no closure: the ones that have not started are lost. *)
(* NewRequester requests every MissingBlock again.                                              *)
Restart ==
    /\ restarts < MaxRestarts
    /\ \A t \in tasks : t.op \in Queued
    /\ firing = {} /\ failing = {}
    /\ restarts' = restarts + 1
    /\ seen' = <<>> /\ tasks' = {}
    /\ scheduled' = [b \in missing |-> 0]
    /\ timers' = {[id |-> b, count |-> 0] : b \in missing}
    /\ UNCHANGED <<storageVars, firing, failing, failed, arrivals>>

TaskStep ==
    /\ \E t \in tasks :
          \/ StoreBlock(t) \/ DeleteMissing(t) \/ StopRequest(t)
          \/ Solidify(t) \/ (\E p \in t.rest : CheckParent(t, p)) \/ ConcludeSolidity(t) \/ ProcessChildren(t)
          \/ Book(t) \/ StoreAndProcessTransaction(t) \/ BookBlock(t) \/ PropagateBooking(t)
          \/ ProcessTransaction(t) \/ ProcessBookedTransaction(t) \/ BookAttachment(t)
    /\ UNCHANGED <<seen, arrivals, restarts>>

TimerStep ==
    \/ \E m \in timers : Fire(m)
    \/ \E m \in firing : ReRequest(m)
    \/ \E b \in failing : DeleteMissingBlock(b)

Next ==
    \/ \E b \in Block : Receive(b)
    \/ \E b \in Relayed : RelayRequest(b)
    \/ TaskStep
    \/ TimerStep
    \/ Restart

Spec == Init /\ [][Next]_vars

-----------------------------------------------------------------------------
(* Properties. *)

(* The state has its type; a request is never counted beyond MaxRequestThreshold. *)
IntakeTypeOK ==
    /\ seen \in Seq(Block) /\ Len(seen) <= FilterSize
    /\ metadata \subseteq Block \cup {Genesis} /\ solid \subseteq metadata /\ booked \subseteq metadata
    /\ {stored, missing, invalid, failing, failed} \subseteq SUBSET Block
    /\ attachments \subseteq Transaction \X Block
    /\ ledger \in [Transaction -> {"unknown", "unsolid", "booked"}]
    /\ tasks \subseteq Task
    /\ DOMAIN scheduled \subseteq Block
    /\ timers \subseteq Timer /\ firing \subseteq Timer
    /\ arrivals \in 0 .. MaxArrivals /\ restarts \in 0 .. MaxRestarts

(* The MissingBlocks are the blocks that are requested: a missing block has a request or one that  *)
(* is being given up, a request ends when its block is stored, and it has one timer, as reRequest  *)
(* takes for granted when it reschedules ("we schedule a request at most once per id").            *)
RequestsTracked ==
    /\ missing \subseteq DOMAIN scheduled \cup failing
    /\ \A b \in missing \cap metadata : Do("storeBlock", b) \in tasks \/ Do("deleteMissing", b) \in tasks
    /\ \A b \in DOMAIN scheduled :
          /\ b \in missing \/ Do("stopRequest", b) \in tasks
          /\ {m \in timers \cup firing : m.id = b} = {[id |-> b, count |-> scheduled[b]]}

(* A block that is stored and not solid, with no check of it to come, waits for something: unless  *)
(* the node was restarted, for a parent that is not solid or has still to wake its children up;    *)
(* and whatever happened, each parent it does not have was requested (Solidifier.isBlockSolid      *)
(* evaluates all parents, processChildren reads the children after SetSolid).                      *)
UnsolidHasReason ==
    \A b \in stored \ (solid \cup invalid) :
        (\A t \in tasks : t.id = b => t.op \notin {"deleteMissing", "stopRequest", "blockStored", "solidify", "checkParents"})
        => /\ restarts = 0 => \E p \in Parents[b] : p \notin solid \/ Do("processChildren", p) \in tasks
           /\ Parents[b] \subseteq metadata \cup missing \cup failed

(* The specification Intake implements: what becomes of the blocks and of the transactions. *)
Order == INSTANCE CausalOrder WITH transactions <- {t \in Transaction : ledger[t] = "booked"}

(* Whichever thread books a block, and also when processBookedTransaction books it without asking   *)
(* the ledger: blocks become solid, invalid or booked, and transactions booked, one after the other *)
(* in the causal order of CausalOrder, once and for good, across restarts.                          *)
BlocksInCausalOrder == Order!Spec

(* A solid block that is not booked, with no attempt to come, waits for something, unless the node *)
(* was restarted: for a parent that is not booked or has still to wake its children up, or for the *)
(* transaction it is recorded as an attachment of, which the ledger has not booked or has not told *)
(* the Booker about (propagateBooking and processBookedTransaction).                               *)
UnbookedHasReason ==
    \A b \in solid \ booked :
        /\ restarts = 0
        /\ \A t \in tasks : t.id = b => t.op \notin {"blockSolid", "book", "storeAndProcess", "bookBlock", "bookAttachment"}
        => \/ \E p \in Parents[b] : p \notin booked \/ Do("propagateBooking", p) \in tasks
           \/ /\ <<Payload[b], b>> \in attachments
              /\ \/ ledger[Payload[b]] # "booked"
                 \/ \E t \in tasks : t.op = "processBookedTransaction" /\ t.id = Payload[b] /\ b \notin t.rest

(* No wake-up is lost between the threads of the Solidifier, the Booker and the ledger: a block     *)
(* that waits, to become solid or to be booked, has a reason to wait.                               *)
NoLostWakeUps == UnsolidHasReason /\ UnbookedHasReason

(* The blocks of C are a complete past cone: parents are in it, all are valid, and they can be put  *)
(* in an order in which no block comes before its parents or before attachments of what it spends.  *)
CompleteCone(C) ==
    /\ \A c \in C : Parents[c] \subseteq C \cup {Genesis} /\ areParentBlocksValid(c)
    /\ \A S \in SUBSET C \ {{}} : \E c \in S :
        /\ Parents[c] \cap S = {}
        /\ Payload[c] # NoTransaction => \A i \in Inputs[Payload[c]] : \E d \in C \ S : Payload[d] = i

(* When nothing is left to run on a node that was not restarted, every block with a complete past   *)
(* cone is booked, in whatever order the blocks, the answers to requests and the events came.       *)
CompleteConesBooked ==
    tasks = {} /\ restarts = 0 =>
        \A C \in SUBSET (metadata \ {Genesis}) : CompleteCone(C) => C \subseteq booked

=============================================================================
