---------------------------- MODULE IntakeProofs -----------------------------
(***************************************************************************)
(* Proofs about the way of a block into the mesh: requests are tracked, no *)
(* wake-up is lost, complete past cones are booked, and Intake implements  *)
(* CausalOrder, for all blocks and transactions, all sizes of the filter,  *)
(* all request thresholds and any number of restarts.                      *)
(***************************************************************************)
EXTENDS Intake, TLAPS

-----------------------------------------------------------------------------
(* The inductive invariant, part by part. *)

TransactionOps == {"processBookedTransaction", "processTransaction"}

(* Tasks work on transactions, on blocks being stored or on blocks that are stored. *)
TasksKnown ==
    \A t \in tasks :
        /\ t.op \in TransactionOps => t.id \in Transaction
        /\ t.op = "storeBlock" => t.id \in metadata \ {Genesis}
        /\ t.op \notin TransactionOps \cup {"storeBlock"} => t.id \in stored
        /\ t.op = "storeAndProcess" => Payload[t.id] # NoTransaction

(* What is known about a block is known about a stored block. *)
StoredFirst ==
    /\ stored \subseteq metadata /\ solid \cup booked \subseteq stored \cup {Genesis} /\ invalid \subseteq stored
    /\ Genesis \in metadata \cap solid \cap booked
    /\ \A b \in metadata \ {Genesis} : b \in stored \/ Do("storeBlock", b) \in tasks
    /\ \A a \in attachments : a[2] \in stored /\ Payload[a[2]] = a[1]

TypesInv == IntakeTypeOK /\ TasksKnown /\ StoredFirst

(* The timers belong to requests, and one reRequest call runs at a time. *)
RequestsOwned ==
    /\ firing = {} \/ failing = {}
    /\ \A m, n \in firing : m = n
    /\ firing \cap timers = {} /\ failing \cap DOMAIN scheduled = {} /\ failing \subseteq failed
    /\ \A m \in timers : m.id \in DOMAIN scheduled
    /\ \A m \in firing : m.id \in DOMAIN scheduled \cup metadata
    /\ \A t \in tasks : t.op = "stopRequest" => t.id \notin missing

RequestsInv == RequestsTracked /\ RequestsOwned

(* What the steps of the Solidifier and the Booker have found out so far remains true. *)
SolidityChecked ==
    /\ \A t \in tasks : t.op = "checkParents" =>
        /\ t.id \notin solid /\ t.rest \subseteq Parents[t.id]
        /\ t.solid => Parents[t.id] \ t.rest \subseteq solid
    /\ \A t, u \in tasks : t.op = "checkParents" /\ u.op = "checkParents" /\ t.id = u.id => t = u
    /\ \A b \in invalid : b \notin solid /\ ~areParentBlocksValid(b)
    /\ \A b \in solid \ {Genesis} : Parents[b] \subseteq solid

(* A block that is being booked has its parents booked and its transaction asked for. *)
BookingTask(t) ==
    /\ t.op \in {"storeAndProcess", "bookBlock"} => t.id \in solid /\ Parents[t.id] \subseteq booked
    /\ t.op = "storeAndProcess" => <<Payload[t.id], t.id>> \in attachments
    /\ t.op \in {"bookBlock", "bookAttachment"} =>
            Payload[t.id] = NoTransaction \/ ledger[Payload[t.id]] = "booked"
    /\ t.op = "processBookedTransaction" => ledger[t.id] = "booked"

BookingChecked ==
    /\ \A t \in tasks : BookingTask(t)
    /\ booked \subseteq solid
    /\ \A b \in booked \ {Genesis} : Payload[b] = NoTransaction \/ ledger[Payload[b]] = "booked"
    /\ \A x \in Transaction : ledger[x] # "unknown" =>
        \E b \in solid \ {Genesis} : Payload[b] = x /\ Parents[b] \subseteq booked

OrderInv == SolidityChecked /\ BookingChecked

FirstCheck == {"deleteMissing", "stopRequest", "blockStored"}

Known == metadata \cup missing \cup failed

(* The check of a block has come so far, and has had the parents it looked at requested. *)
ParentsAsked(b) ==
    \/ \E t \in tasks : t.id = b /\ t.op \in FirstCheck
    \/ \E t \in tasks : t.id = b /\ t.op = "checkParents" /\ Parents[b] \ t.rest \subseteq Known
    \/ Parents[b] \subseteq Known

(* What a block that is not solid waits for. *)
Waits(b) == \E p \in Parents[b] : p \notin solid \/ Do("processChildren", p) \in tasks

(* A check that found a parent unsolid will be repeated. *)
ChecksRequest ==
    /\ \A b \in stored : ParentsAsked(b)
    /\ restarts = 0 => \A t \in tasks : t.op = "checkParents" /\ ~t.solid =>
        Waits(t.id) \/ Do("solidify", t.id) \in tasks

(* A transaction with an attachment has been given to the ledger, and an unsolid one is processed *)
(* again after its last input.                                                                    *)
TransactionsProcessed ==
    restarts = 0 =>
        /\ \A a \in attachments : ledger[a[1]] # "unknown" \/ Do("storeAndProcess", a[2]) \in tasks
        /\ \A x \in Transaction :
            ledger[x] = "unsolid" => ~InputsBooked(x) \/ Do("processTransaction", x) \in tasks

WakeUpsInv == ChecksRequest /\ TransactionsProcessed /\ UnsolidHasReason /\ UnbookedHasReason

IntakeInv == TypesInv /\ RequestsInv /\ OrderInv /\ WakeUpsInv

-----------------------------------------------------------------------------
(* Tasks. *)

(* A task is what it was created as. *)
LEMMA DoFields ==
    \A op, id : Do(op, id).op = op /\ Do(op, id).id = id /\ Do(op, id).rest = {} /\ Do(op, id).solid = TRUE
    BY DEF Do

LEMMA DoIsTask ==
    \A op \in Queued \cup Running, id \in Block \cup Transaction : Do(op, id) \in Task
    BY DEF Do, Task

(* The task of a later step of the Solidifier, and the one that tells the Booker of a transaction. *)
LEMMA ChangedTasks ==
    /\ \A t \in Task : \A R \in SUBSET (Block \cup {Genesis}), s \in BOOLEAN :
        LET u == [t EXCEPT !.rest = R, !.solid = s] IN
        u \in Task /\ u.op = t.op /\ u.id = t.id /\ u.rest = R /\ u.solid = s
    /\ \A t \in Task : \A R \in SUBSET (Block \cup {Genesis}) :
        LET u == [t EXCEPT !.rest = R] IN
        u \in Task /\ u.op = t.op /\ u.id = t.id /\ u.rest = R /\ u.solid = t.solid
    BY DEF Task

(* Types of the fields. *)
LEMMA TaskTyped ==
    ASSUME IntakeTypeOK, NEW t \in tasks
    PROVE  /\ t \in Task /\ t.op \in Queued \cup Running /\ t.id \in Block \cup Transaction
           /\ t.rest \in SUBSET (Block \cup {Genesis}) /\ t.solid \in BOOLEAN
    BY DEF IntakeTypeOK, Task

-----------------------------------------------------------------------------
(* The state has its type. *)

LEMMA InitTypes == Init => TypesInv
    BY IntakeAssumption DEF Init, TypesInv, IntakeTypeOK, TasksKnown, StoredFirst

LEMMA ReceiveTypes ==
    ASSUME TypesInv, NEW b \in Block, Receive(b)
    PROVE  TypesInv'
<1> USE DEF TypesInv
<1>1. seen' \in Seq(Block) /\ Len(seen') <= FilterSize
    <2>1. seen \in Seq(Block) /\ Len(seen) <= FilterSize /\ FilterSize \in Nat \ {0} /\ Len(seen) \in Nat
        BY IntakeAssumption DEF IntakeTypeOK
    <2>2. CASE Len(seen) = FilterSize
        BY <2>1, <2>2 DEF Receive, Remember
    <2>3. CASE Len(seen) # FilterSize
        BY <2>1, <2>3 DEF Receive, Remember
    <2> QED BY <2>2, <2>3
<1>2. arrivals' \in 0 .. MaxArrivals
    BY IntakeAssumption DEF Receive, IntakeTypeOK
<1>3. UNCHANGED <<stored, missing, solid, invalid, booked, attachments, ledger, requestVars, restarts>>
    BY DEF Receive
<1>4. /\ metadata \subseteq metadata' /\ metadata' \subseteq metadata \cup {b}
      /\ tasks \subseteq tasks' /\ tasks' \subseteq tasks \cup {Do("storeBlock", b)}
      /\ metadata' # metadata => Do("storeBlock", b) \in tasks'
      /\ b \in metadata'  \/ tasks' = tasks
    BY DEF Receive
<1>5. Do("storeBlock", b) \in Task
    BY DoIsTask DEF Running
<1>6. IntakeTypeOK'
    BY <1>1, <1>2, <1>3, <1>4, <1>5 DEF IntakeTypeOK, requestVars
<1>7. TasksKnown'
    BY <1>3, <1>4, DoFields, IntakeAssumption DEF TasksKnown, TransactionOps
<1>8. StoredFirst'
    BY <1>3, <1>4 DEF StoredFirst
<1> QED
    BY <1>6, <1>7, <1>8

(* A task that comes after the storing of a block is replaced by others of this kind. *)
AfterStoring(new) ==
    /\ new \subseteq Task
    /\ \A u \in new : /\ u.op # "storeBlock"
                      /\ u.op \in TransactionOps => u.id \in Transaction
                      /\ u.op \notin TransactionOps => u.id \in stored
                      /\ u.op = "storeAndProcess" => Payload[u.id] # NoTransaction

LEMMA TasksReplaced ==
    ASSUME TypesInv, NEW t \in tasks, t.op # "storeBlock", NEW new, AfterStoring(new),
           tasks' = (tasks \ {t}) \cup new, UNCHANGED <<metadata, stored>>
    PROVE  /\ tasks' \subseteq Task /\ TasksKnown'
           /\ \A b \in Block : Do("storeBlock", b) \in tasks => Do("storeBlock", b) \in tasks'
<1>1. tasks' \subseteq Task
    BY DEF AfterStoring, TypesInv, IntakeTypeOK
<1>2. TasksKnown'
    BY DEF AfterStoring, TypesInv, TasksKnown
<1>3. \A b \in Block : Do("storeBlock", b) # t
    BY DoFields
<1> QED
    BY <1>1, <1>2, <1>3

BlockOps == (Queued \cup Running) \ (TransactionOps \cup {"storeBlock", "storeAndProcess"})

(* The tasks that a step creates: single ones, and one for each child of a block. *)
LEMMA CreatedAfterStoring ==
    /\ AfterStoring({})
    /\ \A S, T : AfterStoring(S) /\ AfterStoring(T) => AfterStoring(S \cup T)
    /\ \A op \in BlockOps :
        \A b \in stored \cap Block : AfterStoring({Do(op, b)})
    /\ \A op \in BlockOps :
        \A B \in SUBSET (stored \cap Block) : AfterStoring({Do(op, b) : b \in B})
    /\ \A op \in TransactionOps : \A X \in SUBSET Transaction : AfterStoring({Do(op, x) : x \in X})
<1>1. AfterStoring({}) /\ \A S, T : AfterStoring(S) /\ AfterStoring(T) => AfterStoring(S \cup T)
    BY DEF AfterStoring
<1>2. ASSUME NEW op \in BlockOps, NEW b \in stored \cap Block
      PROVE  AfterStoring({Do(op, b)})
    BY DoIsTask, DoFields DEF AfterStoring, BlockOps
<1>3. ASSUME NEW op \in BlockOps,
             NEW B \in SUBSET (stored \cap Block)
      PROVE  AfterStoring({Do(op, b) : b \in B})
    BY DoIsTask, DoFields DEF AfterStoring, BlockOps
<1>4. ASSUME NEW op \in TransactionOps, NEW X \in SUBSET Transaction
      PROVE  AfterStoring({Do(op, x) : x \in X})
    <2>1. op \in Queued \cup Running /\ op # "storeBlock" /\ op # "storeAndProcess"
        BY DEF TransactionOps, Queued
    <2> QED BY <2>1, DoIsTask, DoFields DEF AfterStoring
<1> QED
    BY <1>1, <1>2, <1>3, <1>4

LEMMA ChildrenStored ==
    ASSUME TypesInv, NEW b
    PROVE  Children(b) \in SUBSET (stored \cap Block)
    BY DEF Children, TypesInv, IntakeTypeOK

(* The tasks of a transaction that has been booked. *)
LEMMA BookedTasks ==
    ASSUME NEW tx \in Transaction, NEW B \in SUBSET Block
    PROVE  AfterStoring(OnTransactionBooked(tx, B))
<1> DEFINE first == [Do("processBookedTransaction", tx) EXCEPT !.rest = B]
           X == {c \in Transaction : tx \in Inputs[c] /\ ledger[c] = "unsolid"}
<1>1. first \in Task /\ first.op = "processBookedTransaction" /\ first.id = tx
    BY DEF Do, Task, Queued
<1>2. AfterStoring({first})
    BY <1>1 DEF AfterStoring, TransactionOps
<1>3. AfterStoring({Do("processTransaction", c) : c \in X})
    BY CreatedAfterStoring DEF TransactionOps
<1>4. OnTransactionBooked(tx, B) = {first} \cup {Do("processTransaction", c) : c \in X}
    BY DEF OnTransactionBooked
<1> QED
    BY <1>2, <1>3, <1>4, CreatedAfterStoring

(* Tasks change as AfterStoring says; here is what else a step may change. *)
LEMMA TypesKept ==
    ASSUME TypesInv, NEW t \in tasks, t.op # "storeBlock", NEW new, AfterStoring(new),
           tasks' = (tasks \ {t}) \cup new, UNCHANGED <<seen, metadata, stored, arrivals, restarts>>,
           missing' \subseteq Block, failing' \subseteq Block, failed' \subseteq Block,
           solid' \subseteq stored \cup {Genesis}, booked' \subseteq stored \cup {Genesis},
           invalid' \subseteq stored, solid \subseteq solid', booked \subseteq booked',
           ledger' \in [Transaction -> {"unknown", "unsolid", "booked"}],
           attachments' \subseteq Transaction \X Block,
           \A a \in attachments' : a \in attachments \/ (a[2] \in stored /\ Payload[a[2]] = a[1]),
           DOMAIN scheduled' \subseteq Block, timers' \subseteq Timer, firing' \subseteq Timer
    PROVE  TypesInv'
<1>1. /\ tasks' \subseteq Task /\ TasksKnown'
      /\ \A b \in Block : Do("storeBlock", b) \in tasks => Do("storeBlock", b) \in tasks'
    BY TasksReplaced
<1>2. IntakeTypeOK'
    BY <1>1 DEF TypesInv, IntakeTypeOK, StoredFirst
<1>3. StoredFirst'
    BY <1>1 DEF TypesInv, StoredFirst, IntakeTypeOK
<1> QED
    BY <1>1, <1>2, <1>3 DEF TypesInv

LEMMA StoreBlockTypes ==
    ASSUME TypesInv, NEW t \in tasks, StoreBlock(t), UNCHANGED <<seen, arrivals, restarts>>
    PROVE  TypesInv'
<1> USE DEF TypesInv
<1>1. /\ t.op = "storeBlock" /\ stored' = stored \cup {t.id}
      /\ tasks' = (tasks \ {t}) \cup {Do("deleteMissing", t.id)}
      /\ UNCHANGED <<metadata, missing, solid, invalid, booked, attachments, ledger, requestVars>>
    BY DEF StoreBlock, Continue
<1>2. t.id \in metadata \ {Genesis} /\ t.id \in Block
    BY <1>1 DEF TasksKnown, IntakeTypeOK
<1>3. Do("deleteMissing", t.id) \in Task
    BY <1>2, DoIsTask DEF Running
<1>4. IntakeTypeOK'
    BY <1>1, <1>2, <1>3 DEF IntakeTypeOK, requestVars
<1>5. TasksKnown'
    BY <1>1, <1>2, DoFields DEF TasksKnown, TransactionOps
<1>6. \A b \in Block : Do("storeBlock", b) = t => b = t.id
    BY DoFields
<1>7. StoredFirst'
    BY <1>1, <1>2, <1>6 DEF StoredFirst, IntakeTypeOK
<1> QED
    BY <1>4, <1>5, <1>7

(* The requester's part of a step. *)
RequestsTyped ==
    /\ missing' \subseteq Block /\ failing' \subseteq Block /\ failed' \subseteq Block
    /\ DOMAIN scheduled' \subseteq Block /\ timers' \subseteq Timer /\ firing' \subseteq Timer

LEMMA RequestTypes ==
    ASSUME TypesInv
    PROVE  /\ UNCHANGED <<missing, requestVars>> => RequestsTyped
           /\ \A b \in Block : RetrieveMissingBlock(b) => RequestsTyped
<1> USE DEF TypesInv
<1>1. ASSUME UNCHANGED <<missing, requestVars>> PROVE RequestsTyped
    BY <1>1 DEF RequestsTyped, requestVars, IntakeTypeOK
<1>2. ASSUME NEW b \in Block, RetrieveMissingBlock(b) PROVE RequestsTyped
    <2>1. [id |-> b, count |-> 0] \in Timer
        BY IntakeAssumption DEF Timer
    <2>2. CASE b \notin metadata \cup missing
        <3>1. StartRequest(b) /\ missing' = missing \cup {b}
            BY <1>2, <2>2 DEF RetrieveMissingBlock
        <3>2. DOMAIN scheduled' = DOMAIN scheduled \cup {b}
            BY <3>1 DEF StartRequest
        <3>3. timers' \subseteq timers \cup {[id |-> b, count |-> 0]} /\ UNCHANGED <<firing, failing, failed>>
            BY <3>1 DEF StartRequest
        <3> QED BY <2>1, <3>1, <3>2, <3>3 DEF RequestsTyped, IntakeTypeOK
    <2>3. CASE b \in metadata \cup missing
        BY <1>1, <1>2, <2>3 DEF RetrieveMissingBlock
    <2> QED BY <2>2, <2>3
<1> QED
    BY <1>1, <1>2

LEMMA SolidifierTypes ==
    ASSUME TypesInv, NEW t \in tasks, UNCHANGED <<seen, arrivals, restarts>>,
           \/ DeleteMissing(t) \/ StopRequest(t) \/ Solidify(t)
           \/ (\E p \in t.rest : CheckParent(t, p)) \/ ConcludeSolidity(t) \/ ProcessChildren(t)
    PROVE  TypesInv'
<1> USE DEF TypesInv
<1> DEFINE Kept == UNCHANGED <<metadata, stored, booked, attachments, ledger>>
<1>1. /\ t.op \notin TransactionOps \cup {"storeBlock"} /\ t.id \in stored \cap Block /\ Kept
      /\ t \in Task /\ t.rest \in SUBSET (Block \cup {Genesis})
    BY TaskTyped DEF DeleteMissing, StopRequest, Solidify, CheckParent, ConcludeSolidity, ProcessChildren, storageVars,
           TransactionOps, TasksKnown, IntakeTypeOK
<1>2. RequestsTyped
    <2>1. CASE DeleteMissing(t)
        BY <2>1 DEF DeleteMissing, RequestsTyped, requestVars, IntakeTypeOK
    <2>2. CASE StopRequest(t)
        BY <2>2 DEF StopRequest, RequestsTyped, storageVars, IntakeTypeOK, Restrict
    <2>3. CASE Solidify(t) \/ ConcludeSolidity(t) \/ ProcessChildren(t)
        BY <2>3, RequestTypes DEF Solidify, ConcludeSolidity, ProcessChildren, storageVars
    <2>4. CASE \E p \in t.rest : CheckParent(t, p)
        BY <1>1, <2>4, RequestTypes DEF CheckParent
    <2> QED BY <2>1, <2>2, <2>3, <2>4
<1>3. /\ solid \subseteq solid' /\ solid' \subseteq solid \cup {t.id}
      /\ invalid' \subseteq invalid \cup {t.id}
    BY DEF DeleteMissing, StopRequest, Solidify, CheckParent, ConcludeSolidity, ProcessChildren, storageVars
<1>4. \E new : AfterStoring(new) /\ tasks' = (tasks \ {t}) \cup new
    <2>1. \A op \in {"stopRequest", "blockStored", "blockSolid", "processChildren"} : AfterStoring({Do(op, t.id)})
        BY <1>1, CreatedAfterStoring DEF BlockOps, Running, Queued, TransactionOps
    <2>2. CASE DeleteMissing(t)
        BY <2>1, <2>2 DEF DeleteMissing, Continue
    <2>3. CASE StopRequest(t)
        BY <2>1, <2>3 DEF StopRequest, Continue
    <2>4. CASE Solidify(t)
        <3> DEFINE u == [Do("checkParents", t.id) EXCEPT !.rest = Parents[t.id]]
        <3>1. u \in Task /\ u.op = "checkParents" /\ u.id = t.id
            BY <1>1, IntakeAssumption DEF Do, Task, Running
        <3>2. AfterStoring({u})
            BY <1>1, <3>1 DEF AfterStoring, TransactionOps
        <3>3. tasks' = (tasks \ {t}) \cup (IF t.id \in solid THEN {} ELSE {u})
            BY <2>4 DEF Solidify, Continue
        <3> HIDE DEF u
        <3> QED BY <3>2, <3>3, CreatedAfterStoring
    <2>5. CASE \E p \in t.rest : CheckParent(t, p)
        <3>1. PICK p \in t.rest : CheckParent(t, p)
            BY <2>5
        <3> DEFINE u == [t EXCEPT !.rest = t.rest \ {p}, !.solid = p \in solid /\ t.solid]
        <3>2. u \in Task /\ u.op = t.op /\ u.id = t.id
            BY <1>1 DEF Task
        <3>3. AfterStoring({u})
            BY <1>1, <3>1, <3>2 DEF AfterStoring, CheckParent
        <3>4. tasks' = (tasks \ {t}) \cup {u}
            BY <3>1 DEF CheckParent, Continue
        <3> QED BY <3>3, <3>4
    <2>6. CASE ConcludeSolidity(t)
        <3>1. AfterStoring({Do("blockSolid", t.id)} \cup {Do("processChildren", t.id)})
            BY <2>1, CreatedAfterStoring
        <3> QED BY <2>6, <3>1, CreatedAfterStoring DEF ConcludeSolidity, Continue
    <2>7. CASE ProcessChildren(t)
        <3>1. AfterStoring({Do("solidify", c) : c \in Children(t.id)})
            BY ChildrenStored, CreatedAfterStoring DEF BlockOps, Queued, TransactionOps
        <3> QED BY <2>7, <3>1 DEF ProcessChildren, Continue
    <2> QED BY <2>2, <2>3, <2>4, <2>5, <2>6, <2>7
<1>5. /\ solid' \subseteq stored \cup {Genesis} /\ booked' \subseteq stored \cup {Genesis} /\ invalid' \subseteq stored
      /\ booked \subseteq booked' /\ ledger' \in [Transaction -> {"unknown", "unsolid", "booked"}]
      /\ attachments' \subseteq Transaction \X Block /\ attachments' = attachments
    BY <1>1, <1>3 DEF StoredFirst, IntakeTypeOK
<1> QED
    BY <1>1, <1>2, <1>3, <1>4, <1>5, TypesKept DEF RequestsTyped

LEMMA BookerTypes ==
    ASSUME TypesInv, NEW t \in tasks, UNCHANGED <<seen, arrivals, restarts>>,
           \/ Book(t) \/ StoreAndProcessTransaction(t) \/ BookBlock(t) \/ PropagateBooking(t)
           \/ ProcessTransaction(t) \/ ProcessBookedTransaction(t) \/ BookAttachment(t)
    PROVE  TypesInv'
<1> USE DEF TypesInv
<1>1. /\ t.op # "storeBlock" /\ UNCHANGED <<metadata, stored, missing, solid, invalid, requestVars>>
      /\ t.op \notin TransactionOps => t.id \in stored \cap Block
      /\ t.op \in TransactionOps => t.id \in Transaction
    BY DEF Book, StoreAndProcessTransaction, BookBlock, PropagateBooking, ProcessTransaction, ProcessBookedTransaction,
           BookAttachment, storageVars, TransactionOps, TasksKnown, IntakeTypeOK
<1>2. RequestsTyped
    BY <1>1, RequestTypes
<1>3. Payload \in [Block -> Transaction \cup {NoTransaction}]
    BY IntakeAssumption
<1>4. /\ booked \subseteq booked' /\ booked' \subseteq stored \cup {Genesis}
      /\ ledger' \in [Transaction -> {"unknown", "unsolid", "booked"}]
      /\ attachments' \subseteq Transaction \X Block
      /\ \A a \in attachments' : a \in attachments \/ (a[2] \in stored /\ Payload[a[2]] = a[1])
    <2>1. /\ booked \subseteq stored \cup {Genesis} /\ ledger \in [Transaction -> {"unknown", "unsolid", "booked"}]
          /\ attachments \subseteq Transaction \X Block
        BY DEF StoredFirst, IntakeTypeOK
    <2>2. CASE Book(t)
        <3>1. t.id \in stored \cap Block /\ UNCHANGED <<booked, ledger>>
            BY <1>1, <2>2 DEF Book, TransactionOps
        <3>2. attachments' = attachments \/ (attachments' = attachments \cup {<<Payload[t.id], t.id>>} /\ Payload[t.id] # NoTransaction)
            BY <2>2 DEF Book
        <3> QED BY <1>3, <2>1, <3>1, <3>2
    <2>3. CASE StoreAndProcessTransaction(t)
        <3>1. Payload[t.id] \in Transaction /\ UNCHANGED <<booked, attachments>>
            BY <1>1, <1>3, <2>3 DEF StoreAndProcessTransaction, TransactionOps, TasksKnown
        <3>2. ledger' \in [Transaction -> {"unknown", "unsolid", "booked"}]
            BY <2>1, <2>3, <3>1 DEF StoreAndProcessTransaction
        <3> QED BY <2>1, <3>1, <3>2
    <2>4. CASE BookBlock(t)
        BY <1>1, <2>1, <2>4 DEF BookBlock, TransactionOps
    <2>5. CASE ProcessTransaction(t)
        BY <1>1, <2>1, <2>5 DEF ProcessTransaction
    <2>6. CASE PropagateBooking(t) \/ ProcessBookedTransaction(t) \/ BookAttachment(t)
        BY <2>1, <2>6 DEF PropagateBooking, ProcessBookedTransaction, BookAttachment, storageVars
    <2> QED BY <2>2, <2>3, <2>4, <2>5, <2>6
<1>5. \E new : AfterStoring(new) /\ tasks' = (tasks \ {t}) \cup new
    <2>1. \A op \in {"bookBlock", "propagateBooking"} : t.op \notin TransactionOps => AfterStoring({Do(op, t.id)})
        BY <1>1, CreatedAfterStoring DEF BlockOps, Running, Queued, TransactionOps
    <2>2. CASE Book(t)
        <3>1. t.id \in stored \cap Block /\ t.op \notin TransactionOps
            BY <1>1, <2>2 DEF Book, TransactionOps
        <3>2. Payload[t.id] # NoTransaction => AfterStoring({Do("storeAndProcess", t.id)})
            BY <3>1, DoIsTask, DoFields DEF AfterStoring, Running, TransactionOps
        <3> QED BY <2>1, <2>2, <3>1, <3>2, CreatedAfterStoring DEF Book, Continue
    <2>3. CASE StoreAndProcessTransaction(t)
        <3>1. t.id \in stored \cap Block /\ t.op \notin TransactionOps /\ Payload[t.id] \in Transaction
            BY <1>1, <1>3, <2>3 DEF StoreAndProcessTransaction, TransactionOps, TasksKnown
        <3>2. AfterStoring(OnTransactionBooked(Payload[t.id], {t.id}))
            BY <3>1, BookedTasks
        <3>3. \E S \in {{}, {Do("bookBlock", t.id)}}, T \in {{}, OnTransactionBooked(Payload[t.id], {t.id})} :
                tasks' = (tasks \ {t}) \cup S \cup T
            BY <2>3 DEF StoreAndProcessTransaction, Continue
        <3>4. \A S \in {{}, {Do("bookBlock", t.id)}}, T \in {{}, OnTransactionBooked(Payload[t.id], {t.id})} :
                AfterStoring(S \cup T)
            BY <2>1, <3>1, <3>2, CreatedAfterStoring
        <3> QED BY <3>3, <3>4
    <2>4. CASE BookBlock(t)
        BY <2>1, <2>4 DEF BookBlock, Continue, TransactionOps
    <2>5. CASE PropagateBooking(t)
        <3>1. AfterStoring({Do("book", c) : c \in Children(t.id)})
            BY ChildrenStored, CreatedAfterStoring DEF BlockOps, Queued, TransactionOps
        <3> QED BY <2>5, <3>1 DEF PropagateBooking, Continue
    <2>6. CASE ProcessTransaction(t)
        <3>1. AfterStoring(OnTransactionBooked(t.id, {}))
            BY <1>1, <2>6, BookedTasks DEF ProcessTransaction, TransactionOps
        <3> QED BY <2>6, <3>1, CreatedAfterStoring DEF ProcessTransaction, Continue
    <2>7. CASE ProcessBookedTransaction(t)
        <3> DEFINE B == {b \in Block : <<t.id, b>> \in attachments /\ b \notin t.rest}
        <3>1. \A b \in B : b \in stored
            BY DEF StoredFirst
        <3>2. AfterStoring({Do("bookAttachment", b) : b \in B})
            BY <3>1, CreatedAfterStoring DEF BlockOps, Queued, TransactionOps
        <3>3. tasks' = (tasks \ {t}) \cup {Do("bookAttachment", b) : b \in B}
            BY <2>7 DEF ProcessBookedTransaction, Continue
        <3> QED BY <3>2, <3>3
    <2>8. CASE BookAttachment(t)
        BY <2>1, <2>8, CreatedAfterStoring DEF BookAttachment, Continue, TransactionOps
    <2> QED BY <2>2, <2>3, <2>4, <2>5, <2>6, <2>7, <2>8
<1>6. solid' \subseteq stored \cup {Genesis} /\ invalid' \subseteq stored /\ solid \subseteq solid'
    BY <1>1 DEF StoredFirst
<1> QED
    BY <1>1, <1>2, <1>4, <1>5, <1>6, TypesKept DEF RequestsTyped

(* The steps outside the tasks. *)
LEMMA OtherTypes ==
    ASSUME TypesInv, TimerStep \/ Restart \/ \E b \in Relayed : RelayRequest(b)
    PROVE  TypesInv'
<1> USE DEF TypesInv
<1>1. CASE TimerStep
    <2>1. UNCHANGED <<seen, metadata, stored, solid, invalid, booked, attachments, ledger, tasks, arrivals, restarts>>
        BY <1>1 DEF TimerStep, Fire, ReRequest, DeleteMissingBlock, storageVars
    <2>2. RequestsTyped
        <3>1. ASSUME NEW m \in timers, Fire(m) PROVE RequestsTyped
            BY <3>1 DEF Fire, RequestsTyped, IntakeTypeOK, storageVars
        <3>2. ASSUME NEW m \in firing, ReRequest(m) PROVE RequestsTyped
            <4>1. m \in Timer /\ m.id \in Block /\ m.count \in Nat
                BY IntakeAssumption DEF IntakeTypeOK, Timer
            <4>2. UNCHANGED missing /\ firing' \subseteq firing /\ failing' \subseteq failing \cup {m.id}
                  /\ failed' \subseteq failed \cup {m.id}
                BY <3>2 DEF ReRequest, storageVars
            <4>3. DOMAIN scheduled' \subseteq DOMAIN scheduled
                BY <3>2 DEF ReRequest, Restrict
            <4>4. timers' \subseteq Timer
                <5>1. CASE TooOften(m.count + 1) \/ m.id \notin DOMAIN scheduled
                    BY <3>2, <5>1 DEF ReRequest, IntakeTypeOK, Timer
                <5>2. CASE ~TooOften(m.count + 1) /\ m.id \in DOMAIN scheduled
                    <6>1. [m EXCEPT !.count = m.count + 1] \in Timer
                        BY <4>1, <5>2, IntakeAssumption DEF TooOften, Timer
                    <6>2. [m EXCEPT !.count = m.count + 1].count = m.count + 1
                        BY <4>1 DEF Timer
                    <6> QED BY <3>2, <5>2, <6>1, <6>2 DEF ReRequest, IntakeTypeOK
                <5> QED BY <5>1, <5>2
            <4> QED BY <4>1, <4>2, <4>3, <4>4 DEF RequestsTyped, IntakeTypeOK
        <3>3. ASSUME NEW b \in failing, DeleteMissingBlock(b) PROVE RequestsTyped
            BY <3>3 DEF DeleteMissingBlock, RequestsTyped, IntakeTypeOK
        <3> QED BY <1>1, <3>1, <3>2, <3>3 DEF TimerStep
    <2> QED BY <2>1, <2>2 DEF RequestsTyped, IntakeTypeOK, TasksKnown, StoredFirst
<1>2. CASE \E b \in Relayed : RelayRequest(b)
    <2>1. PICK b \in Block : RelayRequest(b)
        BY <1>2, IntakeAssumption
    <2>2. UNCHANGED <<seen, metadata, stored, solid, invalid, booked, attachments, ledger, tasks, restarts>>
          /\ arrivals' \in 0 .. MaxArrivals
        BY <2>1, IntakeAssumption DEF RelayRequest, IntakeTypeOK
    <2>3. RequestsTyped
        BY <2>1, RequestTypes DEF RelayRequest
    <2> QED BY <2>2, <2>3 DEF RequestsTyped, IntakeTypeOK, TasksKnown, StoredFirst
<1>3. CASE Restart
    <2>1. /\ UNCHANGED <<storageVars, firing, failing, failed, arrivals>> /\ tasks' = {} /\ seen' = <<>>
          /\ DOMAIN scheduled' = missing /\ restarts' \in 0 .. MaxRestarts
        BY <1>3, IntakeAssumption DEF Restart, IntakeTypeOK
    <2>2. timers' \subseteq Timer
        BY <1>3, IntakeAssumption DEF Restart, IntakeTypeOK, Timer
    <2>3. \A b \in metadata \ {Genesis} : b \in stored
        <3>1. \A b \in metadata \ {Genesis} : Do("storeBlock", b) \notin tasks
            BY <1>3, DoFields DEF Restart, Queued
        <3> QED BY <3>1 DEF StoredFirst
    <2>4. IntakeTypeOK'
        BY <2>1, <2>2, IntakeAssumption DEF IntakeTypeOK, storageVars
    <2> QED BY <2>1, <2>3, <2>4 DEF TasksKnown, StoredFirst, storageVars
<1> QED
    BY <1>1, <1>2, <1>3

LEMMA TypesStep == TypesInv /\ [Next]_vars => TypesInv'
<1> SUFFICES ASSUME TypesInv, [Next]_vars PROVE TypesInv'
    OBVIOUS
<1>1. CASE UNCHANGED vars
    BY <1>1 DEF vars, storageVars, requestVars, TypesInv, IntakeTypeOK, TasksKnown, StoredFirst
<1>2. CASE TaskStep
    BY <1>2, StoreBlockTypes, SolidifierTypes, BookerTypes DEF TaskStep
<1> QED
    BY <1>1, <1>2, ReceiveTypes, OtherTypes DEF Next

-----------------------------------------------------------------------------
(* Which tasks a step of a task adds. *)

BookerOps == {"bookBlock", "storeAndProcess", "processBookedTransaction", "processTransaction",
              "propagateBooking", "book", "bookAttachment"}

(* The task is over and the other tasks remain. *)
Added(t, ops) == tasks \ {t} \subseteq tasks' /\ \A u \in tasks' : u \in tasks \ {t} \/ u.op \in ops

LEMMA OnTransactionBookedOps ==
    ASSUME NEW tx, NEW B, NEW u \in OnTransactionBooked(tx, B)
    PROVE  u.op \in {"processBookedTransaction", "processTransaction"}
    BY DoFields DEF OnTransactionBooked, Do

LEMMA BookerAdds ==
    ASSUME NEW t,
           \/ Book(t) \/ StoreAndProcessTransaction(t) \/ BookBlock(t) \/ PropagateBooking(t)
           \/ ProcessTransaction(t) \/ ProcessBookedTransaction(t) \/ BookAttachment(t)
    PROVE  Added(t, BookerOps)
<1> USE DEF Continue, Added, BookerOps
<1>1. CASE Book(t)
    BY <1>1, DoFields DEF Book
<1>2. CASE StoreAndProcessTransaction(t)
    BY <1>2, DoFields, OnTransactionBookedOps DEF StoreAndProcessTransaction
<1>3. CASE BookBlock(t) \/ PropagateBooking(t) \/ BookAttachment(t)
    BY <1>3, DoFields DEF BookBlock, PropagateBooking, BookAttachment
<1>4. CASE ProcessTransaction(t)
    BY <1>4, OnTransactionBookedOps DEF ProcessTransaction
<1>5. CASE ProcessBookedTransaction(t)
    <2> DEFINE B == {b \in Block : <<t.id, b>> \in attachments /\ b \notin t.rest}
    <2>1. tasks' = (tasks \ {t}) \cup {Do("bookAttachment", b) : b \in B}
        BY <1>5 DEF ProcessBookedTransaction
    <2> HIDE DEF B
    <2> QED BY <2>1, DoFields
<1> QED
    BY <1>1, <1>2, <1>3, <1>4, <1>5

LEMMA SolidifierAdds ==
    ASSUME TypesInv, NEW t \in tasks
    PROVE  /\ Solidify(t) => Added(t, {"checkParents"})
           /\ \A p : CheckParent(t, p) => Added(t, {"checkParents"})
           /\ ConcludeSolidity(t) => Added(t, {"blockSolid", "processChildren"})
           /\ ProcessChildren(t) => Added(t, {"solidify"})
<1> USE DEF Continue, Added
<1>1. [Do("checkParents", t.id) EXCEPT !.rest = Parents[t.id]].op = "checkParents"
    BY DEF Do
<1>2. ASSUME NEW p, CheckParent(t, p)
      PROVE  [t EXCEPT !.rest = t.rest \ {p}, !.solid = p \in solid /\ t.solid].op = "checkParents"
    BY <1>2, TaskTyped DEF CheckParent, Task, TypesInv
<1>3. Solidify(t) => Added(t, {"checkParents"})
    BY <1>1 DEF Solidify
<1>4. ASSUME NEW p, CheckParent(t, p) PROVE Added(t, {"checkParents"})
    BY <1>2, <1>4 DEF CheckParent
<1>5. ConcludeSolidity(t) => Added(t, {"blockSolid", "processChildren"})
    BY DoFields DEF ConcludeSolidity
<1>6. ProcessChildren(t) => Added(t, {"solidify"})
    BY DoFields DEF ProcessChildren
<1> QED
    BY <1>3, <1>4, <1>5, <1>6

-----------------------------------------------------------------------------
(* Requests are tracked. *)

RequestOps == {"storeBlock", "deleteMissing", "stopRequest"}

(* The tasks that a request depends on are not touched. *)
RequestTasksKept ==
    /\ \A b \in Block : \A op \in RequestOps : Do(op, b) \in tasks => Do(op, b) \in tasks'
    /\ \A u \in tasks' : u.op = "stopRequest" => u \in tasks

LEMMA OtherTasksKept ==
    ASSUME NEW t, NEW ops, Added(t, ops), t.op \notin RequestOps, "stopRequest" \notin ops
    PROVE  RequestTasksKept
    BY DoFields DEF Added, RequestTasksKept

LEMMA RequestsUnaffected ==
    ASSUME TypesInv, RequestsInv, RequestTasksKept, UNCHANGED <<metadata, missing, requestVars>>
    PROVE  RequestsInv'
<1>1. RequestsTracked'
    BY DEF RequestsInv, RequestsTracked, RequestTasksKept, RequestOps, requestVars, TypesInv, IntakeTypeOK
<1>2. RequestsOwned'
    BY DEF RequestsInv, RequestsOwned, RequestTasksKept, requestVars
<1> QED
    BY <1>1, <1>2 DEF RequestsInv

(* A block that is neither known nor missing has no request and no timer. *)
LEMMA RetrieveRequests ==
    ASSUME TypesInv, RequestsInv, NEW b \in Block, RetrieveMissingBlock(b), RequestTasksKept, UNCHANGED metadata
    PROVE  RequestsInv'
<1>1. CASE b \in metadata \cup missing
    BY <1>1, RequestsUnaffected DEF RetrieveMissingBlock
<1>2. CASE b \notin metadata \cup missing
    <2> DEFINE first == [id |-> b, count |-> 0]
    <2>1. missing' = missing \cup {b} /\ StartRequest(b) /\ failing = {}
        BY <1>2 DEF RetrieveMissingBlock, StartRequest, Unlocked
    <2>2. b \notin DOMAIN scheduled
        <3>1. Do("stopRequest", b) \notin tasks
            BY <1>2, DoFields DEF TypesInv, TasksKnown, TransactionOps, StoredFirst
        <3> QED BY <1>2, <3>1 DEF RequestsInv, RequestsTracked
    <2>3. /\ timers' = timers \cup {first} /\ UNCHANGED <<firing, failing, failed>>
          /\ DOMAIN scheduled' = DOMAIN scheduled \cup {b}
          /\ scheduled'[b] = 0 /\ \A x \in DOMAIN scheduled : scheduled'[x] = scheduled[x]
        BY <2>1, <2>2 DEF StartRequest
    <2>4. first.id = b /\ first.count = 0
        OBVIOUS
    <2>5. \A m \in timers \cup firing : m.id # b
        BY <1>2, <2>2 DEF RequestsInv, RequestsOwned
    <2>6. RequestsOwned'
        <3>1. \A u \in tasks' : u.op = "stopRequest" => u.id \notin missing'
            BY <1>2, <2>1 DEF RequestTasksKept, RequestsInv, RequestsOwned, TypesInv, TasksKnown, StoredFirst, TransactionOps
        <3> HIDE DEF first
        <3> QED BY <2>1, <2>3, <2>4, <2>5, <3>1 DEF RequestsInv, RequestsOwned
    <2>7. RequestsTracked'
        <3>1. {m \in timers' \cup firing' : m.id = b} = {[id |-> b, count |-> scheduled'[b]]}
            BY <2>3, <2>4, <2>5
        <3>2. ASSUME NEW x \in DOMAIN scheduled
              PROVE  {m \in timers' \cup firing' : m.id = x} = {[id |-> x, count |-> scheduled'[x]]}
            <4>1. x # b
                BY <2>2
            <4>2. {m \in timers' \cup firing' : m.id = x} = {m \in timers \cup firing : m.id = x}
                BY <2>3, <2>4, <4>1
            <4> QED BY <2>3, <4>2 DEF RequestsInv, RequestsTracked
        <3> HIDE DEF first
        <3> QED BY <1>2, <2>1, <2>3, <3>1, <3>2
                DEF RequestsInv, RequestsTracked, RequestTasksKept, RequestOps, TypesInv, IntakeTypeOK
    <2> QED BY <2>6, <2>7 DEF RequestsInv
<1> QED
    BY <1>1, <1>2

LEMMA StoringRequests ==
    ASSUME TypesInv, RequestsInv, NEW t \in tasks, StoreBlock(t) \/ DeleteMissing(t) \/ StopRequest(t)
    PROVE  RequestsInv'
<1> USE DEF RequestsInv
<1>0. UNCHANGED metadata
    BY DEF StoreBlock, DeleteMissing, StopRequest, storageVars
<1>1. CASE StoreBlock(t)
    <2>1. t.op = "storeBlock" /\ tasks' = (tasks \ {t}) \cup {Do("deleteMissing", t.id)} /\ UNCHANGED <<missing, requestVars>>
        BY <1>1 DEF StoreBlock, Continue
    <2>2. RequestsOwned'
        BY <1>0, <2>1, DoFields DEF RequestsOwned, requestVars
    <2>3. ASSUME NEW b \in missing \cap metadata
          PROVE  Do("storeBlock", b) \in tasks' \/ Do("deleteMissing", b) \in tasks'
        BY <2>1, DoFields DEF RequestsTracked
    <2>4. \A b : Do("stopRequest", b) \in tasks => Do("stopRequest", b) \in tasks'
        BY <2>1, DoFields
    <2> QED BY <1>0, <2>1, <2>2, <2>3, <2>4 DEF RequestsTracked, requestVars
<1>2. CASE DeleteMissing(t)
    <2>1. /\ t.op = "deleteMissing" /\ missing' = missing \ {t.id} /\ UNCHANGED requestVars
          /\ tasks' = (tasks \ {t}) \cup {Do(IF t.id \in missing THEN "stopRequest" ELSE "blockStored", t.id)}
        BY <1>2 DEF DeleteMissing, Continue
    <2>2. RequestsOwned'
        BY <1>0, <2>1, DoFields DEF RequestsOwned, requestVars
    <2>3. ASSUME NEW b \in missing' \cap metadata
          PROVE  Do("storeBlock", b) \in tasks' \/ Do("deleteMissing", b) \in tasks'
        BY <2>1, DoFields DEF RequestsTracked
    <2>4. ASSUME NEW b \in DOMAIN scheduled
          PROVE  b \in missing' \/ Do("stopRequest", b) \in tasks'
        BY <2>1, DoFields DEF RequestsTracked
    <2> QED BY <1>0, <2>1, <2>2, <2>3, <2>4 DEF RequestsTracked, requestVars
<1>3. CASE StopRequest(t)
    <2>1. /\ t.op = "stopRequest" /\ failing = {} /\ UNCHANGED <<missing, firing, failing, failed>>
          /\ tasks' = (tasks \ {t}) \cup {Do("blockStored", t.id)}
        BY <1>3 DEF StopRequest, Continue, Unlocked, storageVars
    <2>2. DOMAIN scheduled' = DOMAIN scheduled \ {t.id} /\ \A x \in DOMAIN scheduled' : scheduled'[x] = scheduled[x]
        BY <1>3 DEF StopRequest, Restrict
    <2>3. timers' \subseteq timers /\ \A m \in timers : m.id # t.id => m \in timers'
        BY <1>3 DEF StopRequest
    <2>4. t.id \notin missing /\ t.id \in metadata
        BY <2>1 DEF RequestsOwned, TypesInv, TasksKnown, StoredFirst, TransactionOps
    <2>5. ASSUME NEW m \in timers' PROVE m.id # t.id
        <3>1. SUFFICES ASSUME m.id = t.id PROVE FALSE
            OBVIOUS
        <3>2. t.id \in DOMAIN scheduled
            BY <2>3, <3>1 DEF RequestsOwned
        <3>3. m = [id |-> t.id, count |-> scheduled[t.id]]
            BY <2>3, <3>1, <3>2 DEF RequestsTracked
        <3> QED BY <1>3, <3>1, <3>2, <3>3 DEF StopRequest
    <2>6. RequestsOwned'
        BY <1>0, <2>1, <2>2, <2>3, <2>4, <2>5, DoFields DEF RequestsOwned
    <2>7. ASSUME NEW b \in DOMAIN scheduled'
          PROVE  {m \in timers' \cup firing' : m.id = b} = {[id |-> b, count |-> scheduled'[b]]}
        <3>1. b \in DOMAIN scheduled /\ b # t.id /\ scheduled'[b] = scheduled[b]
            BY <2>2
        <3>2. {m \in timers' \cup firing' : m.id = b} = {m \in timers \cup firing : m.id = b}
            BY <2>1, <2>3, <3>1
        <3> QED BY <3>1, <3>2 DEF RequestsTracked
    <2>8. \A b : b # t.id /\ Do("stopRequest", b) \in tasks => Do("stopRequest", b) \in tasks'
        BY <2>1, DoFields
    <2>9. ASSUME NEW b \in missing' \cap metadata
          PROVE  Do("storeBlock", b) \in tasks' \/ Do("deleteMissing", b) \in tasks'
        BY <2>1, DoFields DEF RequestsTracked
    <2> QED BY <1>0, <2>1, <2>2, <2>4, <2>6, <2>7, <2>8, <2>9 DEF RequestsTracked
<1> QED
    BY <1>1, <1>2, <1>3

LEMMA TimerRequests ==
    ASSUME TypesInv, RequestsInv, TimerStep
    PROVE  RequestsInv'
<1> USE DEF RequestsInv
<1>0. UNCHANGED <<metadata, tasks>>
    BY DEF TimerStep, Fire, ReRequest, DeleteMissingBlock, storageVars
<1>1. ASSUME NEW m \in timers, Fire(m) PROVE RequestsInv'
    <2>1. /\ firing = {} /\ failing = {} /\ timers' = timers \ {m} /\ firing' = {m}
          /\ UNCHANGED <<missing, scheduled, failing, failed>>
        BY <1>1 DEF Fire, Unlocked, storageVars
    <2>2. timers' \cup firing' = timers \cup firing
        BY <2>1
    <2>3. RequestsOwned'
        BY <1>0, <2>1 DEF RequestsOwned
    <2> QED BY <1>0, <2>1, <2>2, <2>3 DEF RequestsTracked
<1>2. ASSUME NEW m \in firing, ReRequest(m) PROVE RequestsInv'
    <2> DEFINE again == [m EXCEPT !.count = m.count + 1]
    <2>1. m \in Timer /\ m.id \in Block /\ again.id = m.id /\ again.count = m.count + 1 /\ m.count \in Nat
        BY IntakeAssumption DEF TypesInv, IntakeTypeOK, Timer
    <2>2. firing = {m} /\ failing = {} /\ firing' = {} /\ UNCHANGED missing
        BY <1>2 DEF RequestsOwned, ReRequest, storageVars
    <2>3. m.id \in DOMAIN scheduled =>
            /\ m = [id |-> m.id, count |-> scheduled[m.id]]
            /\ \A n \in timers : n.id # m.id
        <3>1. SUFFICES ASSUME m.id \in DOMAIN scheduled
                       PROVE  m = [id |-> m.id, count |-> scheduled[m.id]] /\ \A n \in timers : n.id # m.id
            OBVIOUS
        <3>2. {n \in timers \cup firing : n.id = m.id} = {[id |-> m.id, count |-> scheduled[m.id]]}
            BY <3>1 DEF RequestsTracked
        <3>3. m = [id |-> m.id, count |-> scheduled[m.id]]
            BY <3>2
        <3>4. \A n \in timers : n.id = m.id => n = m
            BY <3>2, <3>3
        <3> QED BY <3>3, <3>4 DEF RequestsOwned
    <2>4. CASE m.id \notin DOMAIN scheduled
        <3>1. UNCHANGED <<scheduled, timers, failing, failed>>
            BY <1>2, <2>4 DEF ReRequest
        <3>2. RequestsOwned'
            BY <1>0, <2>2, <3>1 DEF RequestsOwned
        <3>3. ASSUME NEW b \in DOMAIN scheduled
              PROVE  {n \in timers' \cup firing' : n.id = b} = {n \in timers \cup firing : n.id = b}
            BY <2>2, <2>4, <3>1
        <3> QED BY <1>0, <2>2, <3>1, <3>2, <3>3 DEF RequestsTracked
    <2>5. CASE m.id \in DOMAIN scheduled /\ TooOften(again.count)
        <3>1. failing' = {m.id} /\ failed' = failed \cup {m.id} /\ timers' = timers
            BY <1>2, <2>5 DEF ReRequest
        <3>2. DOMAIN scheduled' = DOMAIN scheduled \ {m.id} /\ \A x \in DOMAIN scheduled' : scheduled'[x] = scheduled[x]
            BY <1>2, <2>5 DEF ReRequest, Restrict
        <3> HIDE DEF again
        <3>3. RequestsOwned'
            BY <1>0, <2>2, <2>3, <2>5, <3>1, <3>2 DEF RequestsOwned
        <3>4. ASSUME NEW b \in DOMAIN scheduled'
              PROVE  {n \in timers' \cup firing' : n.id = b} = {[id |-> b, count |-> scheduled'[b]]}
            <4>1. b \in DOMAIN scheduled /\ b # m.id /\ scheduled'[b] = scheduled[b]
                BY <3>2
            <4>2. {n \in timers' \cup firing' : n.id = b} = {n \in timers \cup firing : n.id = b}
                BY <2>2, <3>1, <4>1
            <4> QED BY <4>1, <4>2 DEF RequestsTracked
        <3> QED BY <1>0, <2>2, <3>1, <3>2, <3>3, <3>4 DEF RequestsTracked
    <2>6. CASE m.id \in DOMAIN scheduled /\ ~TooOften(again.count)
        <3>1. timers' = timers \cup {again} /\ UNCHANGED <<failing, failed>>
            BY <1>2, <2>6 DEF ReRequest
        <3>2. /\ DOMAIN scheduled' = DOMAIN scheduled /\ scheduled'[m.id] = again.count
              /\ \A x \in DOMAIN scheduled : x # m.id => scheduled'[x] = scheduled[x]
            BY <1>2, <2>6 DEF ReRequest
        <3>3. again = [id |-> m.id, count |-> again.count]
            BY <2>1 DEF Timer
        <3> HIDE DEF again
        <3>4. RequestsOwned'
            BY <1>0, <2>1, <2>2, <2>6, <3>1, <3>2 DEF RequestsOwned
        <3>5. ASSUME NEW b \in DOMAIN scheduled'
              PROVE  {n \in timers' \cup firing' : n.id = b} = {[id |-> b, count |-> scheduled'[b]]}
            <4>1. CASE b = m.id
                <5>1. {n \in timers' \cup firing' : n.id = b} = {again}
                    BY <2>1, <2>2, <2>3, <2>6, <3>1, <4>1
                <5> QED BY <3>2, <3>3, <4>1, <5>1
            <4>2. CASE b # m.id
                <5>1. {n \in timers' \cup firing' : n.id = b} = {n \in timers \cup firing : n.id = b}
                    BY <2>1, <2>2, <3>1, <4>2
                <5> QED BY <3>2, <4>2, <5>1 DEF RequestsTracked
            <4> QED BY <4>1, <4>2
        <3> QED BY <1>0, <2>2, <3>1, <3>2, <3>4, <3>5 DEF RequestsTracked
    <2> QED BY <2>4, <2>5, <2>6
<1>3. ASSUME NEW b \in failing, DeleteMissingBlock(b) PROVE RequestsInv'
    <2>1. missing' = missing \ {b} /\ failing' = failing \ {b} /\ UNCHANGED <<scheduled, timers, firing, failed>>
        BY <1>3 DEF DeleteMissingBlock
    <2>2. RequestsOwned'
        BY <1>0, <2>1 DEF RequestsOwned
    <2>3. b \notin DOMAIN scheduled
        BY DEF RequestsOwned
    <2> QED BY <1>0, <2>1, <2>2, <2>3 DEF RequestsTracked
<1> QED
    BY <1>1, <1>2, <1>3 DEF TimerStep

LEMMA RestartRequests ==
    ASSUME TypesInv, RequestsInv, Restart
    PROVE  RequestsInv'
<1>1. /\ tasks' = {} /\ firing = {} /\ failing = {} /\ scheduled' = [b \in missing |-> 0]
      /\ timers' = {[id |-> b, count |-> 0] : b \in missing}
      /\ UNCHANGED <<missing, metadata, firing, failing, failed>> /\ \A t \in tasks : t.op \in Queued
    BY DEF Restart, storageVars
<1>2. missing \cap metadata = {}
    BY <1>1, DoFields DEF RequestsInv, RequestsTracked, Queued
<1>3. RequestsOwned'
    BY <1>1 DEF RequestsInv, RequestsOwned
<1>4. ASSUME NEW b \in missing
      PROVE  {m \in timers' \cup firing' : m.id = b} = {[id |-> b, count |-> scheduled'[b]]}
    BY <1>1
<1> QED
    BY <1>1, <1>2, <1>3, <1>4 DEF RequestsInv, RequestsTracked

LEMMA ReceiveRequests ==
    ASSUME TypesInv, RequestsInv, NEW b \in Block, Receive(b)
    PROVE  RequestsInv'
<1>1. /\ UNCHANGED <<missing, requestVars>> /\ tasks \subseteq tasks' /\ tasks' \subseteq tasks \cup {Do("storeBlock", b)}
      /\ metadata \subseteq metadata' /\ metadata' \subseteq metadata \cup {b}
      /\ b \in metadata \/ b \notin metadata' \/ Do("storeBlock", b) \in tasks'
    BY DEF Receive
<1>2. RequestsOwned'
    BY <1>1, DoFields DEF RequestsInv, RequestsOwned, requestVars
<1>3. RequestsTracked'
    BY <1>1 DEF RequestsInv, RequestsTracked, requestVars
<1> QED
    BY <1>2, <1>3 DEF RequestsInv

LEMMA RequestsStep == TypesInv /\ RequestsInv /\ [Next]_vars => RequestsInv'
<1> SUFFICES ASSUME TypesInv, RequestsInv, [Next]_vars PROVE RequestsInv'
    OBVIOUS
<1>1. CASE UNCHANGED vars
    BY <1>1 DEF vars, storageVars, requestVars, RequestsInv, RequestsTracked, RequestsOwned
<1>2. CASE TaskStep
    <2>1. PICK t \in tasks :
              \/ StoreBlock(t) \/ DeleteMissing(t) \/ StopRequest(t)
              \/ Solidify(t) \/ (\E p \in t.rest : CheckParent(t, p)) \/ ConcludeSolidity(t) \/ ProcessChildren(t)
              \/ Book(t) \/ StoreAndProcessTransaction(t) \/ BookBlock(t) \/ PropagateBooking(t)
              \/ ProcessTransaction(t) \/ ProcessBookedTransaction(t) \/ BookAttachment(t)
        BY <1>2 DEF TaskStep
    <2>2. CASE StoreBlock(t) \/ DeleteMissing(t) \/ StopRequest(t)
        BY <2>2, StoringRequests
    <2>3. CASE Solidify(t) \/ ConcludeSolidity(t) \/ ProcessChildren(t)
        <3>1. RequestTasksKept
            <4>1. Added(t, {"checkParents"}) \/ Added(t, {"blockSolid", "processChildren"}) \/ Added(t, {"solidify"})
                BY <2>3, SolidifierAdds
            <4>2. t.op \notin RequestOps
                BY <2>3 DEF RequestOps, Solidify, ConcludeSolidity, ProcessChildren
            <4> QED BY <4>1, <4>2, OtherTasksKept
        <3> QED BY <2>3, <3>1, RequestsUnaffected DEF Solidify, ConcludeSolidity, ProcessChildren, storageVars
    <2>4. CASE \E p \in t.rest : CheckParent(t, p)
        <3>1. PICK p \in t.rest : CheckParent(t, p)
            BY <2>4
        <3>2. RequestTasksKept
            BY <3>1, SolidifierAdds, OtherTasksKept DEF RequestOps, CheckParent
        <3>3. p \in Block \cup {Genesis} /\ UNCHANGED metadata
            BY <3>1, TaskTyped DEF TypesInv, CheckParent
        <3> QED BY <3>1, <3>2, <3>3, RequestsUnaffected, RetrieveRequests DEF CheckParent
    <2>5. CASE \/ Book(t) \/ StoreAndProcessTransaction(t) \/ BookBlock(t) \/ PropagateBooking(t)
               \/ ProcessTransaction(t) \/ ProcessBookedTransaction(t) \/ BookAttachment(t)
        <3>1. UNCHANGED <<metadata, missing, requestVars>> /\ t.op \notin RequestOps
            BY <2>5 DEF Book, StoreAndProcessTransaction, BookBlock, PropagateBooking, ProcessTransaction,
                        ProcessBookedTransaction, BookAttachment, storageVars, RequestOps
        <3>2. RequestTasksKept
            BY <2>5, <3>1, BookerAdds, OtherTasksKept DEF BookerOps
        <3> QED BY <3>1, <3>2, RequestsUnaffected
    <2> QED BY <2>1, <2>2, <2>3, <2>4, <2>5
<1>3. CASE \E b \in Relayed : RelayRequest(b)
    <2>1. PICK b \in Block : RelayRequest(b)
        BY <1>3, IntakeAssumption
    <2>2. RequestTasksKept
        BY <2>1 DEF RelayRequest, RequestTasksKept
    <2> QED BY <2>1, <2>2, RetrieveRequests DEF RelayRequest
<1> QED
    BY <1>1, <1>2, <1>3, ReceiveRequests, TimerRequests, RestartRequests DEF Next

-----------------------------------------------------------------------------
(* Blocks and transactions in causal order. *)

LEMMA InitOrder == Init => OrderInv
    BY IntakeAssumption DEF Init, OrderInv, SolidityChecked, BookingChecked

CheckedOps == {"checkParents", "storeAndProcess", "bookBlock", "bookAttachment", "processBookedTransaction"}

orderState == <<solid, invalid, booked, attachments, ledger>>

LEMMA OrderUnaffected ==
    ASSUME OrderInv, \A u \in tasks' : u \in tasks \/ u.op \notin CheckedOps, UNCHANGED orderState
    PROVE  OrderInv'
<1>1. SolidityChecked'
    BY DEF OrderInv, SolidityChecked, CheckedOps, orderState, areParentBlocksValid
<1>2. BookingChecked'
    BY DEF OrderInv, BookingChecked, BookingTask, CheckedOps, orderState
<1> QED
    BY <1>1, <1>2 DEF OrderInv

(* What a booking relies on is not taken back. *)
LEMMA BookingMonotone ==
    ASSUME solid \subseteq solid', booked \subseteq booked', attachments \subseteq attachments',
           \A x : ledger[x] = "booked" => ledger'[x] = "booked", NEW t, BookingTask(t)
    PROVE  BookingTask(t)'
    BY DEF BookingTask

(* A Booker step: the Solidifier's part is not touched. *)
LEMMA SolidityUnaffected ==
    ASSUME SolidityChecked, UNCHANGED <<solid, invalid>>, \A u \in tasks' : u \in tasks \/ u.op # "checkParents"
    PROVE  SolidityChecked'
    BY DEF SolidityChecked, areParentBlocksValid

LEMMA SolidifierOrder ==
    ASSUME TypesInv, OrderInv, NEW t \in tasks,
           Solidify(t) \/ (\E p \in t.rest : CheckParent(t, p)) \/ ConcludeSolidity(t)
    PROVE  OrderInv'
<1> USE DEF OrderInv
<1>1. UNCHANGED <<booked, attachments, ledger>> /\ solid \subseteq solid'
    BY DEF Solidify, CheckParent, ConcludeSolidity, storageVars
<1>2. \A u \in tasks' : u \in tasks \/ u.op \in {"checkParents", "blockSolid", "processChildren"}
    BY SolidifierAdds DEF Added
<1>3. BookingChecked'
    <2>1. \A u \in tasks' : BookingTask(u)'
        BY <1>1, <1>2, BookingMonotone DEF BookingChecked, BookingTask
    <2> QED BY <1>1, <2>1 DEF BookingChecked
<1>4. CASE Solidify(t)
    <2> DEFINE v == [Do("checkParents", t.id) EXCEPT !.rest = Parents[t.id]]
    <2>1. UNCHANGED <<solid, invalid>> /\ tasks' = (tasks \ {t}) \cup (IF t.id \in solid THEN {} ELSE {v})
        BY <1>4 DEF Solidify, Continue, storageVars
    <2>2. v.op = "checkParents" /\ v.id = t.id /\ v.rest = Parents[t.id]
        BY DEF Do
    <2>3. \A u \in tasks : u.op = "checkParents" => u.id # t.id
        BY <1>4 DEF Solidify
    <2> HIDE DEF v
    <2>4. SolidityChecked'
        BY <2>1, <2>2, <2>3 DEF SolidityChecked, areParentBlocksValid
    <2> QED BY <1>3, <2>4
<1>5. CASE \E p \in t.rest : CheckParent(t, p)
    <2>1. PICK p \in t.rest : CheckParent(t, p)
        BY <1>5
    <2> DEFINE v == [t EXCEPT !.rest = t.rest \ {p}, !.solid = p \in solid /\ t.solid]
    <2>2. t.op = "checkParents" /\ UNCHANGED <<solid, invalid>> /\ tasks' = (tasks \ {t}) \cup {v}
        BY <2>1 DEF CheckParent, Continue
    <2>3. v.op = "checkParents" /\ v.id = t.id /\ v.rest = t.rest \ {p} /\ v.solid = (p \in solid /\ t.solid)
        BY <2>2, TaskTyped DEF TypesInv, Task
    <2> HIDE DEF v
    <2>4. /\ v.id \notin solid /\ v.rest \subseteq Parents[v.id]
          /\ v.solid => Parents[v.id] \ v.rest \subseteq solid
        BY <2>2, <2>3 DEF SolidityChecked
    <2>5. \A u \in tasks' : u.op = "checkParents" /\ u.id = v.id => u = v
        BY <2>2, <2>3 DEF SolidityChecked
    <2>6. \A b \in invalid' : b \notin solid' /\ ~areParentBlocksValid(b)'
        BY <2>2 DEF SolidityChecked, areParentBlocksValid
    <2>7. SolidityChecked'
        BY <2>2, <2>4, <2>5, <2>6 DEF SolidityChecked
    <2> QED BY <1>3, <2>7
<1>6. CASE ConcludeSolidity(t)
    <2>1. /\ t.op = "checkParents" /\ \A u \in tasks' : u.op = "checkParents" => u \in tasks \ {t}
        BY <1>6, SolidifierAdds DEF ConcludeSolidity, Added
    <2>2. \A u \in tasks' : u.op = "checkParents" => u.id # t.id
        BY <2>1 DEF SolidityChecked
    <2>3. /\ solid' = solid \/ (solid' = solid \cup {t.id} /\ areParentBlocksValid(t.id) /\ invalid' = invalid)
          /\ invalid' = invalid \/ (invalid' = invalid \cup {t.id} /\ ~areParentBlocksValid(t.id) /\ solid' = solid)
        BY <1>6 DEF ConcludeSolidity
    <2>4. \A b : areParentBlocksValid(b)' => areParentBlocksValid(b)
        BY <2>3 DEF areParentBlocksValid
    <2>5. \A b \in solid' \ {Genesis} : Parents[b] \subseteq solid'
        BY <1>6, <2>3 DEF SolidityChecked, ConcludeSolidity
    <2>6. SolidityChecked'
        BY <2>1, <2>2, <2>3, <2>4, <2>5 DEF SolidityChecked
    <2> QED BY <1>3, <2>6
<1> QED
    BY <1>4, <1>5, <1>6

LEMMA BookerOrder ==
    ASSUME TypesInv, OrderInv, NEW t \in tasks,
           \/ Book(t) \/ StoreAndProcessTransaction(t) \/ BookBlock(t) \/ PropagateBooking(t)
           \/ ProcessTransaction(t) \/ ProcessBookedTransaction(t) \/ BookAttachment(t)
    PROVE  OrderInv'
<1> USE DEF OrderInv
<1>1. UNCHANGED <<solid, invalid>>
    BY DEF Book, StoreAndProcessTransaction, BookBlock, PropagateBooking, ProcessTransaction,
           ProcessBookedTransaction, BookAttachment, storageVars
<1>2. SolidityChecked'
    BY <1>1, BookerAdds, SolidityUnaffected DEF Added, BookerOps
<1>3. Payload \in [Block -> Transaction \cup {NoTransaction}] /\ ledger \in [Transaction -> {"unknown", "unsolid", "booked"}]
    BY IntakeAssumption DEF TypesInv, IntakeTypeOK
<1>4. CASE Book(t)
    <2>1. /\ t.id \in stored \cap Block /\ UNCHANGED <<booked, ledger>> /\ attachments \subseteq attachments'
        BY <1>4 DEF Book, TypesInv, TasksKnown, TransactionOps, IntakeTypeOK
    <2>2. ASSUME NEW u \in tasks', u \notin tasks PROVE BookingTask(u)'
        <3>1. /\ t.id \in solid /\ Parents[t.id] \subseteq booked
              /\ \/ u = Do("bookBlock", t.id) /\ Payload[t.id] = NoTransaction
                 \/ u = Do("storeAndProcess", t.id) /\ <<Payload[t.id], t.id>> \in attachments'
            BY <1>4, <2>2 DEF Book, Continue, readyForBooking
        <3> QED BY <1>1, <2>1, <3>1, DoFields DEF BookingTask
    <2>3. \A u \in tasks' : BookingTask(u)'
        BY <1>1, <2>1, <2>2, BookingMonotone DEF BookingChecked
    <2> QED BY <1>1, <1>2, <2>1, <2>3 DEF BookingChecked
<1>5. CASE StoreAndProcessTransaction(t)
    <2> DEFINE tx == Payload[t.id]
               books == ledger[tx] = "unknown" /\ InputsBooked(tx)
    <2>1. /\ t.op = "storeAndProcess" /\ UNCHANGED <<booked, attachments>>
          /\ ledger' = [ledger EXCEPT ![tx] = IF books THEN "booked" ELSE IF @ = "unknown" THEN "unsolid" ELSE @]
          /\ tasks' = (tasks \ {t}) \cup (IF books \/ ledger[tx] = "booked" THEN {Do("bookBlock", t.id)} ELSE {})
                                    \cup (IF books THEN OnTransactionBooked(tx, {t.id}) ELSE {})
        BY <1>5 DEF StoreAndProcessTransaction, Continue
    <2>2. t.id \in stored \cap Block /\ tx \in Transaction /\ t.id \in solid /\ Parents[t.id] \subseteq booked
        BY <1>3, <2>1 DEF TypesInv, TasksKnown, TransactionOps, IntakeTypeOK, BookingChecked, BookingTask
    <2>3. /\ \A x \in Transaction : x # tx => ledger'[x] = ledger[x]
          /\ books \/ ledger[tx] = "booked" => ledger'[tx] = "booked"
        BY <1>3, <2>1, <2>2
    <2>4. \A x : ledger[x] = "booked" => ledger'[x] = "booked"
        BY <1>3, <2>1, <2>2
    <2>5. ASSUME NEW u \in tasks', u \notin tasks PROVE BookingTask(u)'
        <3>1. /\ ledger'[tx] = "booked"
              /\ u = Do("bookBlock", t.id) \/ u \in OnTransactionBooked(tx, {t.id})
            BY <2>1, <2>3, <2>5
        <3>2. u \in OnTransactionBooked(tx, {t.id}) =>
                u.op = "processTransaction" \/ (u.op = "processBookedTransaction" /\ u.id = tx)
            BY DoFields DEF OnTransactionBooked, Do
        <3> QED BY <1>1, <2>1, <2>2, <3>1, <3>2, DoFields DEF BookingTask
    <2>6. \A u \in tasks' : BookingTask(u)'
        BY <1>1, <2>1, <2>4, <2>5, BookingMonotone DEF BookingChecked
    <2>7. t.id # Genesis
        BY <2>2, IntakeAssumption
    <2>8. \A x \in Transaction : ledger'[x] # "unknown" =>
            \E b \in solid \ {Genesis} : Payload[b] = x /\ Parents[b] \subseteq booked
        BY <2>2, <2>3, <2>7 DEF BookingChecked
    <2> QED BY <1>1, <1>2, <2>1, <2>4, <2>6, <2>8 DEF BookingChecked
<1>6. CASE BookBlock(t)
    <2>1. /\ t.op = "bookBlock" /\ booked' = booked \cup {t.id} /\ UNCHANGED <<attachments, ledger>>
          /\ tasks' = (tasks \ {t}) \cup {Do("propagateBooking", t.id)}
        BY <1>6 DEF BookBlock, Continue
    <2>2. t.id \in solid /\ (Payload[t.id] = NoTransaction \/ ledger[Payload[t.id]] = "booked")
        BY <2>1 DEF BookingChecked, BookingTask
    <2>3. BookingTask(Do("propagateBooking", t.id))'
        BY DoFields DEF BookingTask
    <2>4. \A u \in tasks' : BookingTask(u)'
        BY <1>1, <2>1, <2>3, BookingMonotone DEF BookingChecked
    <2> QED BY <1>1, <1>2, <2>1, <2>2, <2>4 DEF BookingChecked
<1>7. CASE PropagateBooking(t)
    <2>1. UNCHANGED orderState
        BY <1>7 DEF PropagateBooking, storageVars, orderState
    <2>2. \A u \in tasks' : u \in tasks \/ u.op \notin CheckedOps
        BY <1>7, DoFields DEF PropagateBooking, Continue, CheckedOps
    <2> QED BY <2>1, <2>2, OrderUnaffected
<1>8. CASE ProcessTransaction(t)
    <2> DEFINE books == ledger[t.id] = "unsolid" /\ InputsBooked(t.id)
    <2>1. /\ t.op = "processTransaction" /\ UNCHANGED <<booked, attachments>>
          /\ ledger' = IF books THEN [ledger EXCEPT ![t.id] = "booked"] ELSE ledger
          /\ tasks' = (tasks \ {t}) \cup (IF books THEN OnTransactionBooked(t.id, {}) ELSE {})
        BY <1>8 DEF ProcessTransaction, Continue
    <2>2. t.id \in Transaction
        BY <2>1 DEF TypesInv, TasksKnown, TransactionOps
    <2>3. /\ \A x : ledger[x] = "booked" => ledger'[x] = "booked"
          /\ \A x \in Transaction : ledger'[x] # "unknown" => ledger[x] # "unknown"
          /\ books => ledger'[t.id] = "booked"
        BY <1>3, <2>1, <2>2
    <2>4. ASSUME NEW u \in tasks', u \notin tasks PROVE BookingTask(u)'
        <3>1. ledger'[t.id] = "booked" /\ u \in OnTransactionBooked(t.id, {})
            BY <2>1, <2>3, <2>4
        <3>2. u.op = "processTransaction" \/ (u.op = "processBookedTransaction" /\ u.id = t.id)
            BY <3>1, DoFields DEF OnTransactionBooked, Do
        <3> QED BY <3>1, <3>2 DEF BookingTask
    <2>5. \A u \in tasks' : BookingTask(u)'
        BY <1>1, <2>1, <2>3, <2>4, BookingMonotone DEF BookingChecked
    <2> QED BY <1>1, <1>2, <2>1, <2>3, <2>5 DEF BookingChecked
<1>9. CASE ProcessBookedTransaction(t)
    <2> DEFINE B == {b \in Block : <<t.id, b>> \in attachments /\ b \notin t.rest}
    <2>1. /\ UNCHANGED <<booked, attachments, ledger>> /\ ledger[t.id] = "booked"
          /\ tasks' = (tasks \ {t}) \cup {Do("bookAttachment", b) : b \in B}
        BY <1>9 DEF ProcessBookedTransaction, Continue, storageVars, BookingChecked, BookingTask
    <2>2. \A b \in B : Payload[b] = t.id
        BY DEF TypesInv, StoredFirst
    <2>3. \A b \in B : BookingTask(Do("bookAttachment", b))'
        BY <2>1, <2>2, DoFields DEF BookingTask
    <2> HIDE DEF B
    <2>4. \A u \in tasks' : BookingTask(u)'
        BY <1>1, <2>1, <2>3, BookingMonotone DEF BookingChecked
    <2> QED BY <1>1, <1>2, <2>1, <2>4 DEF BookingChecked
<1>10. CASE BookAttachment(t)
    <2>1. /\ UNCHANGED <<booked, attachments, ledger>> /\ t.op = "bookAttachment"
          /\ tasks' = (tasks \ {t}) \cup (IF readyForBooking(t.id) THEN {Do("bookBlock", t.id)} ELSE {})
        BY <1>10 DEF BookAttachment, Continue, storageVars
    <2>2. readyForBooking(t.id) => BookingTask(Do("bookBlock", t.id))'
        BY <1>1, <2>1, DoFields DEF BookingTask, BookingChecked, readyForBooking
    <2>3. \A u \in tasks' : BookingTask(u)'
        BY <1>1, <2>1, <2>2, BookingMonotone DEF BookingChecked
    <2> QED BY <1>1, <1>2, <2>1, <2>3 DEF BookingChecked
<1> QED
    BY <1>4, <1>5, <1>6, <1>7, <1>8, <1>9, <1>10

LEMMA OrderStep == TypesInv /\ OrderInv /\ [Next]_vars => OrderInv'
<1> SUFFICES ASSUME TypesInv, OrderInv, [Next]_vars PROVE OrderInv'
    OBVIOUS
<1>1. CASE UNCHANGED vars
    BY <1>1, OrderUnaffected DEF vars, storageVars, orderState
<1>2. CASE (\E b \in Block : Receive(b)) \/ (\E b \in Relayed : RelayRequest(b)) \/ TimerStep \/ Restart
    <2>1. UNCHANGED orderState
        BY <1>2 DEF Receive, RelayRequest, TimerStep, Fire, ReRequest, DeleteMissingBlock, Restart, storageVars, orderState
    <2>2. \A u \in tasks' : u \in tasks \/ u.op \notin CheckedOps
        <3>1. \/ tasks' = {} \/ tasks' = tasks
              \/ \E b : tasks' = tasks \cup {Do("storeBlock", b)}
            BY <1>2 DEF Receive, RelayRequest, TimerStep, Fire, ReRequest, DeleteMissingBlock, Restart
        <3> QED BY <3>1, DoFields DEF CheckedOps
    <2> QED BY <2>1, <2>2, OrderUnaffected
<1>3. CASE TaskStep
    <2>1. ASSUME NEW t \in tasks, StoreBlock(t) \/ DeleteMissing(t) \/ StopRequest(t) \/ ProcessChildren(t)
          PROVE  OrderInv'
        <3>1. UNCHANGED orderState
            BY <2>1 DEF StoreBlock, DeleteMissing, StopRequest, ProcessChildren, storageVars, orderState
        <3>2. \A u \in tasks' : u \in tasks \/ u.op \notin CheckedOps
            BY <2>1, DoFields DEF StoreBlock, DeleteMissing, StopRequest, ProcessChildren, Continue, CheckedOps
        <3> QED BY <3>1, <3>2, OrderUnaffected
    <2> QED BY <1>3, <2>1, SolidifierOrder, BookerOrder DEF TaskStep
<1> QED
    BY <1>1, <1>2, <1>3 DEF Next

(* A step of Intake is one of CausalOrder, or changes nothing there. *)
LEMMA OrderSteps ==
    ASSUME TypesInv, OrderInv, [Next]_vars
    PROVE  [Order!Next]_(Order!orderVars)
<1> DEFINE Spent == {x \in Transaction : ledger[x] = "booked"}
<1>0. ledger \in [Transaction -> {"unknown", "unsolid", "booked"}] /\ Payload \in [Block -> Transaction \cup {NoTransaction}]
    BY IntakeAssumption DEF TypesInv, IntakeTypeOK
<1>1. CASE UNCHANGED <<solid, invalid, booked, ledger>>
    BY <1>1 DEF Order!orderVars
<1>2. CASE \E t \in tasks : ConcludeSolidity(t)
    <2>1. PICK t \in tasks : ConcludeSolidity(t)
        BY <1>2
    <2>2. UNCHANGED <<booked, ledger>> /\ t.op = "checkParents" /\ t.rest = {} /\ t.id \in Block
        BY <2>1 DEF ConcludeSolidity, TypesInv, TasksKnown, TransactionOps, IntakeTypeOK
    <2>3. CASE ~t.solid
        BY <1>1, <2>1, <2>2, <2>3 DEF ConcludeSolidity
    <2>4. CASE t.solid /\ ~areParentBlocksValid(t.id)
        <3>1. solid' = solid /\ invalid' = invalid \cup {t.id} /\ Parents[t.id] \subseteq solid /\ t.id \notin solid
            BY <2>1, <2>2, <2>4 DEF ConcludeSolidity, OrderInv, SolidityChecked
        <3>2. CASE t.id \in invalid
            BY <1>1, <2>2, <3>1, <3>2
        <3>3. CASE t.id \notin invalid
            <4>1. Order!Discard(t.id)
                BY <2>2, <3>1, <3>3 DEF Order!Discard, Order!Decidable
            <4> QED BY <2>2, <4>1 DEF Order!Next
        <3> QED BY <3>2, <3>3
    <2>5. CASE t.solid /\ areParentBlocksValid(t.id)
        <3>1. /\ solid' = solid \cup {t.id} /\ invalid' = invalid /\ Parents[t.id] \subseteq solid
              /\ t.id \notin solid /\ t.id \notin invalid
            BY <2>1, <2>2, <2>5 DEF ConcludeSolidity, OrderInv, SolidityChecked
        <3>2. Order!Solidify(t.id)
            BY <2>2, <3>1 DEF Order!Solidify, Order!Decidable
        <3> QED BY <2>2, <3>2 DEF Order!Next
    <2> QED BY <2>3, <2>4, <2>5
<1>3. CASE \E t \in tasks : BookBlock(t)
    <2>1. PICK t \in tasks : BookBlock(t)
        BY <1>3
    <2>2. /\ UNCHANGED <<solid, invalid, ledger>> /\ booked' = booked \cup {t.id} /\ t.id \in Block
          /\ t.id \in solid /\ Parents[t.id] \subseteq booked
          /\ Payload[t.id] = NoTransaction \/ ledger[Payload[t.id]] = "booked"
        BY <2>1 DEF BookBlock, TypesInv, TasksKnown, TransactionOps, IntakeTypeOK, OrderInv, BookingChecked, BookingTask
    <2>3. Payload[t.id] \in Spent \cup {NoTransaction}
        BY <1>0, <2>2
    <2>4. CASE t.id \in booked
        BY <1>1, <2>2, <2>4
    <2>5. CASE t.id \notin booked
        <3>1. Order!Book(t.id)
            BY <2>2, <2>3, <2>5 DEF Order!Book
        <3> QED BY <2>2, <3>1 DEF Order!Next
    <2> QED BY <2>4, <2>5
<1>4. ASSUME NEW x \in Transaction, ledger[x] = "unknown" \/ ledger[x] = "unsolid", InputsBooked(x),
             ledger' = [ledger EXCEPT ![x] = "booked"], UNCHANGED <<solid, invalid, booked>>,
             \E b \in solid \ {Genesis} : Payload[b] = x /\ Parents[b] \subseteq booked
      PROVE  Order!Next
    <2>1. {y \in Transaction : ledger'[y] = "booked"} = Spent \cup {x}
        BY <1>0, <1>4
    <2>2. Inputs[x] \subseteq Spent /\ x \notin Spent
        BY <1>4, IntakeAssumption DEF InputsBooked
    <2>3. Order!BookTransaction(x)
        BY <1>4, <2>1, <2>2 DEF Order!BookTransaction
    <2> QED BY <2>3 DEF Order!Next
<1>5. CASE \E t \in tasks : StoreAndProcessTransaction(t)
    <2>1. PICK t \in tasks : StoreAndProcessTransaction(t)
        BY <1>5
    <2> DEFINE tx == Payload[t.id]
    <2>2. /\ UNCHANGED <<solid, invalid, booked>> /\ t.id \in Block /\ tx \in Transaction
          /\ t.id \in solid \ {Genesis} /\ Parents[t.id] \subseteq booked
        <3>1. t.op = "storeAndProcess" /\ UNCHANGED <<solid, invalid, booked>>
            BY <2>1 DEF StoreAndProcessTransaction
        <3>2. t.id \in Block /\ t.id # Genesis /\ Payload[t.id] # NoTransaction
            BY <3>1, IntakeAssumption DEF TypesInv, TasksKnown, TransactionOps, IntakeTypeOK
        <3>3. t.id \in solid /\ Parents[t.id] \subseteq booked
            BY <3>1 DEF OrderInv, BookingChecked, BookingTask
        <3> QED BY <1>0, <3>1, <3>2, <3>3
    <2>3. CASE ledger[tx] = "unknown" /\ InputsBooked(tx)
        <3>1. ledger' = [ledger EXCEPT ![tx] = "booked"]
            BY <2>1, <2>3 DEF StoreAndProcessTransaction
        <3> QED BY <1>4, <2>2, <2>3, <3>1
    <2>4. CASE ~(ledger[tx] = "unknown" /\ InputsBooked(tx))
        <3>1. ledger' = [ledger EXCEPT ![tx] = IF @ = "unknown" THEN "unsolid" ELSE @]
            BY <2>1, <2>4 DEF StoreAndProcessTransaction
        <3>2. {y \in Transaction : ledger'[y] = "booked"} = Spent
            BY <1>0, <2>2, <3>1
        <3> QED BY <2>2, <3>2 DEF Order!orderVars
    <2> QED BY <2>3, <2>4
<1>6. CASE \E t \in tasks : ProcessTransaction(t)
    <2>1. PICK t \in tasks : ProcessTransaction(t)
        BY <1>6
    <2>2. UNCHANGED <<solid, invalid, booked>> /\ t.id \in Transaction
        BY <2>1 DEF ProcessTransaction, TypesInv, TasksKnown, TransactionOps
    <2>3. CASE ledger[t.id] = "unsolid" /\ InputsBooked(t.id)
        <3>1. ledger' = [ledger EXCEPT ![t.id] = "booked"]
            BY <2>1, <2>3 DEF ProcessTransaction
        <3>2. \E b \in solid \ {Genesis} : Payload[b] = t.id /\ Parents[b] \subseteq booked
            BY <2>2, <2>3 DEF OrderInv, BookingChecked
        <3> QED BY <1>4, <2>2, <2>3, <3>1, <3>2
    <2>4. CASE ~(ledger[t.id] = "unsolid" /\ InputsBooked(t.id))
        BY <1>1, <2>1, <2>2, <2>4 DEF ProcessTransaction
    <2> QED BY <2>3, <2>4
<1>7. \/ UNCHANGED <<solid, invalid, booked, ledger>>
      \/ \E t \in tasks : ConcludeSolidity(t) \/ BookBlock(t) \/ StoreAndProcessTransaction(t) \/ ProcessTransaction(t)
    <2>1. CASE UNCHANGED vars
        BY <2>1 DEF vars, storageVars
    <2>2. CASE (\E b \in Block : Receive(b)) \/ (\E b \in Relayed : RelayRequest(b)) \/ TimerStep \/ Restart
        BY <2>2 DEF Receive, RelayRequest, TimerStep, Fire, ReRequest, DeleteMissingBlock, Restart, storageVars
    <2>3. CASE TaskStep
        BY <2>3 DEF TaskStep, StoreBlock, DeleteMissing, StopRequest, Solidify, CheckParent, ProcessChildren, Book,
                    PropagateBooking, ProcessBookedTransaction, BookAttachment, storageVars
    <2> QED BY <2>1, <2>2, <2>3 DEF Next
<1> QED
    BY <1>1, <1>2, <1>3, <1>5, <1>6, <1>7

-----------------------------------------------------------------------------
(* No wake-up is lost. *)

LEMMA InitWakeUps == Init => RequestsInv /\ WakeUpsInv
<1> SUFFICES ASSUME Init PROVE RequestsInv /\ WakeUpsInv
    OBVIOUS
<1>1. RequestsInv
    BY DEF Init, RequestsInv, RequestsTracked, RequestsOwned
<1>2. WakeUpsInv
    BY DEF Init, WakeUpsInv, ChecksRequest, TransactionsProcessed, UnsolidHasReason, UnbookedHasReason
<1> QED
    BY <1>1, <1>2

TaskAction(t) ==
    \/ StoreBlock(t) \/ DeleteMissing(t) \/ StopRequest(t)
    \/ Solidify(t) \/ (\E p \in t.rest : CheckParent(t, p)) \/ ConcludeSolidity(t) \/ ProcessChildren(t)
    \/ Book(t) \/ StoreAndProcessTransaction(t) \/ BookBlock(t) \/ PropagateBooking(t)
    \/ ProcessTransaction(t) \/ ProcessBookedTransaction(t) \/ BookAttachment(t)

(* The other tasks remain, and the fields of a block only ever gain. *)
LEMMA OthersRemain ==
    ASSUME NEW t, TaskAction(t)
    PROVE  /\ tasks \ {t} \subseteq tasks'
           /\ stored \subseteq stored' /\ attachments \subseteq attachments' /\ metadata' = metadata
           /\ solid \subseteq solid' /\ booked \subseteq booked' /\ invalid \subseteq invalid'
<1>1. CASE \/ StoreBlock(t) \/ DeleteMissing(t) \/ StopRequest(t) \/ Solidify(t)
           \/ (\E p \in t.rest : CheckParent(t, p)) \/ ConcludeSolidity(t) \/ ProcessChildren(t)
    BY <1>1 DEF StoreBlock, DeleteMissing, StopRequest, Solidify, CheckParent, ConcludeSolidity, ProcessChildren,
                Continue, storageVars
<1>2. CASE \/ Book(t) \/ StoreAndProcessTransaction(t) \/ BookBlock(t) \/ PropagateBooking(t)
           \/ ProcessTransaction(t) \/ ProcessBookedTransaction(t) \/ BookAttachment(t)
    <2>1. tasks \ {t} \subseteq tasks'
        BY <1>2, BookerAdds DEF Added
    <2> QED BY <1>2, <2>1 DEF Book, StoreAndProcessTransaction, BookBlock, PropagateBooking, ProcessTransaction,
                ProcessBookedTransaction, BookAttachment, storageVars
<1> QED
    BY <1>1, <1>2 DEF TaskAction

(* SetSolid is followed by events, and so is SetBooked. *)
LEMMA ChangesTold ==
    ASSUME NEW t, TaskAction(t)
    PROVE  /\ \/ solid' = solid
              \/ /\ solid' = solid \cup {t.id}
                 /\ Do("processChildren", t.id) \in tasks' /\ Do("blockSolid", t.id) \in tasks'
           /\ \/ booked' = booked
              \/ booked' = booked \cup {t.id} /\ Do("propagateBooking", t.id) \in tasks'
<1>1. CASE ConcludeSolidity(t)
    BY <1>1 DEF ConcludeSolidity, Continue
<1>2. CASE BookBlock(t)
    BY <1>2 DEF BookBlock, Continue
<1>3. CASE \/ StoreBlock(t) \/ DeleteMissing(t) \/ StopRequest(t) \/ Solidify(t)
           \/ (\E p \in t.rest : CheckParent(t, p)) \/ ProcessChildren(t)
           \/ Book(t) \/ StoreAndProcessTransaction(t) \/ PropagateBooking(t)
           \/ ProcessTransaction(t) \/ ProcessBookedTransaction(t) \/ BookAttachment(t)
    <2>1. UNCHANGED <<solid, booked>>
        BY <1>3 DEF StoreBlock, DeleteMissing, StopRequest, Solidify, CheckParent, ProcessChildren, storageVars,
                    Book, StoreAndProcessTransaction, PropagateBooking, ProcessTransaction,
                    ProcessBookedTransaction, BookAttachment
    <2> QED BY <2>1
<1> QED
    BY <1>1, <1>2, <1>3 DEF TaskAction

(* The steps outside the tasks. *)
LEMMA OutsideTasks ==
    ASSUME [Next]_vars, ~TaskStep, ~Restart
    PROVE  /\ tasks \subseteq tasks' /\ \A u \in tasks' : u \in tasks \/ u.op = "storeBlock"
           /\ UNCHANGED <<stored, solid, invalid, booked, attachments, ledger, restarts>>
<1>1. CASE UNCHANGED vars
    BY <1>1 DEF vars, storageVars
<1>2. CASE \E b \in Block : Receive(b)
    BY <1>2, DoFields DEF Receive
<1>3. CASE (\E b \in Relayed : RelayRequest(b)) \/ TimerStep
    BY <1>3 DEF RelayRequest, TimerStep, Fire, ReRequest, DeleteMissingBlock, storageVars
<1> QED
    BY <1>1, <1>2, <1>3 DEF Next

(* A MissingBlock is deleted when its block is known, or given up. *)
LEMMA KnownKept == TypesInv /\ RequestsInv /\ [Next]_vars => Known \subseteq Known'
<1> SUFFICES ASSUME TypesInv, RequestsInv, [Next]_vars PROVE Known \subseteq Known'
    OBVIOUS
<1> USE DEF Known
<1>1. CASE UNCHANGED vars
    BY <1>1 DEF vars, storageVars, requestVars
<1>2. CASE \E b \in Block : Receive(b)
    BY <1>2 DEF Receive, requestVars
<1>3. \A b : RetrieveMissingBlock(b) => missing \subseteq missing' /\ failed' = failed
    BY DEF RetrieveMissingBlock, StartRequest, requestVars
<1>4. CASE \E b \in Relayed : RelayRequest(b)
    BY <1>3, <1>4 DEF RelayRequest
<1>5. CASE TimerStep
    <2>1. \A m \in timers : Fire(m) => UNCHANGED <<metadata, missing, failed>>
        BY DEF Fire, storageVars
    <2>2. \A m \in firing : ReRequest(m) => UNCHANGED <<metadata, missing>> /\ failed \subseteq failed'
        BY DEF ReRequest, storageVars
    <2>3. \A b \in failing : DeleteMissingBlock(b) => missing' = missing \ {b} /\ UNCHANGED <<metadata, failed>>
        BY DEF DeleteMissingBlock
    <2>4. failing \subseteq failed
        BY DEF RequestsInv, RequestsOwned
    <2> QED BY <1>5, <2>1, <2>2, <2>3, <2>4 DEF TimerStep
<1>6. CASE Restart
    BY <1>6 DEF Restart, storageVars
<1>7. CASE TaskStep
    <2>1. PICK t \in tasks : TaskAction(t)
        BY <1>7 DEF TaskStep, TaskAction
    <2>2. CASE DeleteMissing(t)
        <3>1. t.id \in metadata
            BY <2>2 DEF DeleteMissing, TypesInv, TasksKnown, TransactionOps, StoredFirst
        <3> QED BY <2>2, <3>1 DEF DeleteMissing, requestVars
    <2>3. CASE \E p \in t.rest : CheckParent(t, p)
        BY <1>3, <2>3 DEF CheckParent, requestVars
    <2>4. CASE \/ StoreBlock(t) \/ StopRequest(t) \/ Solidify(t) \/ ConcludeSolidity(t) \/ ProcessChildren(t)
               \/ Book(t) \/ StoreAndProcessTransaction(t) \/ BookBlock(t) \/ PropagateBooking(t)
               \/ ProcessTransaction(t) \/ ProcessBookedTransaction(t) \/ BookAttachment(t)
        BY <2>4 DEF StoreBlock, StopRequest, Solidify, ConcludeSolidity, ProcessChildren, storageVars, requestVars,
                    Book, StoreAndProcessTransaction, BookBlock, PropagateBooking, ProcessTransaction,
                    ProcessBookedTransaction, BookAttachment
    <2> QED BY <2>1, <2>2, <2>3, <2>4 DEF TaskAction
<1> QED
    BY <1>1, <1>2, <1>4, <1>5, <1>6, <1>7 DEF Next

(* Who waits goes on waiting, or is woken up. *)
LEMMA WaitsKept ==
    ASSUME TypesInv, [Next]_vars, restarts' = 0, NEW b \in stored, Waits(b)
    PROVE  Waits(b)' \/ Do("solidify", b) \in tasks'
<1>0. ~Restart
    BY IntakeAssumption DEF TypesInv, IntakeTypeOK, Restart
<1>1. CASE ~TaskStep
    <2>1. tasks \subseteq tasks' /\ solid' = solid
        BY <1>0, <1>1, OutsideTasks
    <2> QED BY <2>1 DEF Waits
<1>2. CASE TaskStep
    <2>1. PICK t \in tasks : TaskAction(t)
        BY <1>2 DEF TaskStep, TaskAction
    <2>2. PICK p \in Parents[b] : p \notin solid \/ Do("processChildren", p) \in tasks
        BY DEF Waits
    <2>3. tasks \ {t} \subseteq tasks'
        BY <2>1, OthersRemain
    <2>4. CASE p \notin solid
        BY <2>1, <2>2, <2>4, ChangesTold DEF Waits
    <2>5. CASE Do("processChildren", p) \in tasks /\ Do("processChildren", p) # t
        BY <2>2, <2>3, <2>5 DEF Waits
    <2>6. CASE Do("processChildren", p) = t
        <3>1. t.op = "processChildren" /\ t.id = p
            BY <2>6, DoFields
        <3>2. ProcessChildren(t)
            BY <2>1, <3>1 DEF TaskAction, StoreBlock, DeleteMissing, StopRequest, Solidify, CheckParent, ConcludeSolidity,
                Book, StoreAndProcessTransaction, BookBlock, PropagateBooking, ProcessTransaction,
                ProcessBookedTransaction, BookAttachment
        <3> QED BY <2>2, <3>1, <3>2 DEF ProcessChildren, Continue, Children
    <2> QED BY <2>2, <2>4, <2>5, <2>6
<1> QED
    BY <1>1, <1>2

(* The task decides which action it is. *)
LEMMA ActionOfTask ==
    ASSUME NEW t, TaskAction(t)
    PROVE  /\ t.op = "deleteMissing" => DeleteMissing(t)
           /\ t.op = "stopRequest" => StopRequest(t)
           /\ t.op \in {"solidify", "blockStored"} => Solidify(t)
           /\ t.op = "checkParents" => ConcludeSolidity(t) \/ \E p \in t.rest : CheckParent(t, p)
           /\ t.op \in {"book", "blockSolid"} => Book(t)
           /\ t.op = "storeAndProcess" => StoreAndProcessTransaction(t)
           /\ t.op = "bookBlock" => BookBlock(t)
           /\ t.op = "propagateBooking" => PropagateBooking(t)
           /\ t.op = "processTransaction" => ProcessTransaction(t)
           /\ t.op = "processBookedTransaction" => ProcessBookedTransaction(t)
           /\ t.op = "bookAttachment" => BookAttachment(t)
    BY DEF TaskAction, StoreBlock, DeleteMissing, StopRequest, Solidify, CheckParent, ConcludeSolidity, ProcessChildren,
           Book, StoreAndProcessTransaction, BookBlock, PropagateBooking, ProcessTransaction,
           ProcessBookedTransaction, BookAttachment

LEMMA ParentsAskedStep ==
    ASSUME TypesInv, RequestsInv, OrderInv, [Next]_vars, \A b \in stored : ParentsAsked(b), NEW b \in stored'
    PROVE  ParentsAsked(b)'
<1>0. Known \subseteq Known'
    BY KnownKept
<1>1. CASE Restart
    <2>1. b \in stored /\ \A t \in tasks : t.op \in Queued
        BY <1>1 DEF Restart, storageVars
    <2>2. Parents[b] \subseteq Known
        BY <2>1 DEF ParentsAsked, FirstCheck, Queued
    <2> QED BY <1>0, <2>2 DEF ParentsAsked
<1>2. CASE ~TaskStep /\ ~Restart
    BY <1>0, <1>2, OutsideTasks DEF ParentsAsked
<1>3. CASE TaskStep
    <2>1. PICK t \in tasks : TaskAction(t)
        BY <1>3 DEF TaskStep, TaskAction
    <2>2. tasks \ {t} \subseteq tasks' /\ metadata' = metadata
        BY <2>1, OthersRemain
    <2>3. CASE b \notin stored
        <3>1. StoreBlock(t)
            BY <2>1, <2>3 DEF TaskAction, DeleteMissing, StopRequest, Solidify, CheckParent, ConcludeSolidity,
                ProcessChildren, storageVars, Book, StoreAndProcessTransaction, BookBlock, PropagateBooking,
                ProcessTransaction, ProcessBookedTransaction, BookAttachment
        <3>2. t.id = b /\ Do("deleteMissing", b) \in tasks'
            BY <2>3, <3>1 DEF StoreBlock, Continue
        <3> QED BY <3>2, DoFields DEF ParentsAsked, FirstCheck
    <2>4. CASE b \in stored /\ t.id = b /\ t.op \in FirstCheck
        <3>1. CASE t.op = "deleteMissing"
            <4>1. DeleteMissing(t)
                BY <2>1, <3>1, ActionOfTask
            <4>2. Do("stopRequest", b) \in tasks' \/ Do("blockStored", b) \in tasks'
                BY <2>4, <4>1 DEF DeleteMissing, Continue
            <4> QED BY <4>2, DoFields DEF ParentsAsked, FirstCheck
        <3>2. CASE t.op = "stopRequest"
            <4>1. StopRequest(t)
                BY <2>1, <3>2, ActionOfTask
            <4>2. Do("blockStored", b) \in tasks'
                BY <2>4, <4>1 DEF StopRequest, Continue
            <4> QED BY <4>2, DoFields DEF ParentsAsked, FirstCheck
        <3>3. CASE t.op = "blockStored"
            <4>1. Solidify(t)
                BY <2>1, <3>3, ActionOfTask
            <4>2. CASE b \in solid
                <5>1. b # Genesis
                    BY <2>4, IntakeAssumption DEF TypesInv, IntakeTypeOK
                <5>2. Parents[b] \subseteq solid /\ solid \subseteq metadata
                    BY <4>2, <5>1 DEF OrderInv, SolidityChecked, TypesInv, IntakeTypeOK
                <5> QED BY <1>0, <5>2 DEF ParentsAsked, Known
            <4>3. CASE b \notin solid
                <5> DEFINE v == [Do("checkParents", b) EXCEPT !.rest = Parents[b]]
                <5>1. v \in tasks'
                    BY <2>4, <4>1, <4>3 DEF Solidify, Continue
                <5>2. v.id = b /\ v.op = "checkParents" /\ Parents[b] \ v.rest = {}
                    BY DEF Do
                <5> HIDE DEF v
                <5> QED BY <5>1, <5>2 DEF ParentsAsked
            <4> QED BY <4>2, <4>3
        <3> QED BY <2>4, <3>1, <3>2, <3>3 DEF FirstCheck
    <2>5. CASE b \in stored /\ t.id = b /\ t.op = "checkParents" /\ Parents[b] \ t.rest \subseteq Known
        <3>1. CASE ConcludeSolidity(t)
            <4>1. Parents[b] \subseteq Known
                BY <2>5, <3>1 DEF ConcludeSolidity
            <4> QED BY <1>0, <4>1 DEF ParentsAsked
        <3>2. CASE \E p \in t.rest : CheckParent(t, p)
            <4>1. PICK p \in t.rest : CheckParent(t, p)
                BY <3>2
            <4> DEFINE v == [t EXCEPT !.rest = t.rest \ {p}, !.solid = p \in solid /\ t.solid]
            <4>2. v \in tasks' /\ v.id = b /\ v.op = "checkParents" /\ v.rest = t.rest \ {p}
                BY <2>5, <4>1, TaskTyped DEF CheckParent, Continue, TypesInv, Task
            <4>3. p \in Known'
                BY <2>2, <4>1 DEF CheckParent, RetrieveMissingBlock, Known, TypesInv, StoredFirst
            <4> HIDE DEF v
            <4>4. Parents[b] \ v.rest \subseteq Known'
                BY <1>0, <2>5, <4>2, <4>3
            <4> QED BY <4>2, <4>4 DEF ParentsAsked
        <3> QED BY <2>1, <2>5, <3>1, <3>2, ActionOfTask
    <2>6. CASE /\ b \in stored /\ ~(t.id = b /\ t.op \in FirstCheck)
               /\ ~(t.id = b /\ t.op = "checkParents" /\ Parents[b] \ t.rest \subseteq Known)
        BY <1>0, <2>2, <2>6 DEF ParentsAsked
    <2> QED BY <2>3, <2>4, <2>5, <2>6
<1> QED
    BY <1>1, <1>2, <1>3

(* A check that has seen an unsolid parent. *)
LEMMA RecheckStep ==
    ASSUME TypesInv, OrderInv, ChecksRequest, [Next]_vars, restarts' = 0,
           NEW u \in tasks', u.op = "checkParents", ~u.solid
    PROVE  Waits(u.id)' \/ Do("solidify", u.id) \in tasks'
<1>0. ~Restart
    BY IntakeAssumption DEF TypesInv, IntakeTypeOK, Restart
<1>1. restarts = 0
    BY <1>0, OutsideTasks DEF TaskStep
<1>2. ASSUME NEW t \in tasks, t.op = "checkParents", Waits(t.id) PROVE Waits(t.id)' \/ Do("solidify", t.id) \in tasks'
    <2>1. t.id \in stored
        BY <1>2 DEF TypesInv, TasksKnown, TransactionOps
    <2> QED BY <1>2, <2>1, WaitsKept
<1>3. CASE ~TaskStep
    BY <1>0, <1>1, <1>2, <1>3, OutsideTasks DEF ChecksRequest
<1>4. CASE TaskStep
    <2>1. PICK t \in tasks : TaskAction(t)
        BY <1>4 DEF TaskStep, TaskAction
    <2>2. tasks \ {t} \subseteq tasks'
        BY <2>1, OthersRemain
    <2>3. CASE u \in tasks
        <3>1. Waits(u.id) \/ Do("solidify", u.id) \in tasks
            BY <1>1, <2>3 DEF ChecksRequest
        <3>2. Do("solidify", u.id) # t
            <4>1. SUFFICES ASSUME Do("solidify", u.id) = t PROVE FALSE
                OBVIOUS
            <4>2. t.op = "solidify" /\ t.id = u.id
                BY <4>1, DoFields
            <4>3. Solidify(t)
                BY <2>1, <4>2, ActionOfTask
            <4> QED BY <2>3, <4>2, <4>3 DEF Solidify
        <3> QED BY <1>2, <2>2, <2>3, <3>1, <3>2
    <2>4. CASE u \notin tasks
        <3>1. Solidify(t) \/ \E p \in t.rest : CheckParent(t, p)
            <4>1. ~(StoreBlock(t) \/ DeleteMissing(t) \/ StopRequest(t))
                BY <2>4, DoFields DEF StoreBlock, DeleteMissing, StopRequest, Continue
            <4>2. ~(ConcludeSolidity(t) \/ ProcessChildren(t))
                BY <2>4, SolidifierAdds DEF Added
            <4>3. ~(\/ Book(t) \/ StoreAndProcessTransaction(t) \/ BookBlock(t) \/ PropagateBooking(t)
                    \/ ProcessTransaction(t) \/ ProcessBookedTransaction(t) \/ BookAttachment(t))
                BY <2>4, BookerAdds DEF Added, BookerOps
            <4> QED BY <2>1, <4>1, <4>2, <4>3 DEF TaskAction
        <3>2. ~Solidify(t)
            <4>1. SUFFICES ASSUME Solidify(t) PROVE FALSE
                OBVIOUS
            <4>2. u = [Do("checkParents", t.id) EXCEPT !.rest = Parents[t.id]]
                BY <2>4, <4>1 DEF Solidify, Continue
            <4> QED BY <4>2 DEF Do
        <3>3. PICK p \in t.rest : CheckParent(t, p)
            BY <3>1, <3>2
        <3>4. t.op = "checkParents" /\ u = [t EXCEPT !.rest = t.rest \ {p}, !.solid = p \in solid /\ t.solid] /\ solid' = solid
            BY <2>4, <3>3 DEF CheckParent, Continue
        <3>5. u.id = t.id /\ (p \notin solid \/ ~t.solid)
            BY <3>4, TaskTyped DEF TypesInv, Task
        <3>6. p \in Parents[t.id]
            BY <3>3, <3>4 DEF OrderInv, SolidityChecked
        <3>7. CASE p \notin solid
            BY <3>4, <3>5, <3>6, <3>7 DEF Waits
        <3>8. CASE ~t.solid
            <4>1. Waits(t.id) \/ Do("solidify", t.id) \in tasks
                BY <1>1, <3>4, <3>8 DEF ChecksRequest
            <4>2. Do("solidify", t.id) # t
                BY <3>4, DoFields
            <4> QED BY <1>2, <2>2, <3>4, <3>5, <4>1, <4>2
        <3> QED BY <3>5, <3>7, <3>8
    <2> QED BY <2>3, <2>4
<1> QED
    BY <1>3, <1>4

LEMMA ChecksStep ==
    ASSUME TypesInv, RequestsInv, OrderInv, ChecksRequest, [Next]_vars
    PROVE  ChecksRequest'
<1>1. \A b \in stored' : ParentsAsked(b)'
    BY ParentsAskedStep DEF ChecksRequest
<1>2. restarts' = 0 => \A u \in tasks' : u.op = "checkParents" /\ ~u.solid =>
        Waits(u.id)' \/ Do("solidify", u.id) \in tasks'
    BY RecheckStep
<1> QED
    BY <1>1, <1>2 DEF ChecksRequest

CheckOps == {"deleteMissing", "stopRequest", "blockStored", "solidify", "checkParents"}

(* The last check of a block that remains unsolid has seen what the block waits for. *)
LEMMA LastCheck ==
    ASSUME TypesInv, OrderInv, ChecksRequest, NEW t \in tasks, TaskAction(t), t.op \in CheckOps, restarts = 0,
           \A u \in tasks' : u.id = t.id => u.op \notin CheckOps, t.id \notin solid', t.id \notin invalid'
    PROVE  t.op = "checkParents" /\ ~t.solid /\ Waits(t.id)
<1>0. tasks \ {t} \subseteq tasks' /\ solid \subseteq solid'
    BY OthersRemain
<1>1. \A op \in CheckOps : Do(op, t.id) \notin tasks'
    BY DoFields
<1>2. t.op # "deleteMissing"
    BY <1>1, ActionOfTask DEF DeleteMissing, Continue, CheckOps
<1>3. t.op # "stopRequest"
    BY <1>1, ActionOfTask DEF StopRequest, Continue, CheckOps
<1>4. t.op \notin {"solidify", "blockStored"}
    <2> DEFINE v == [Do("checkParents", t.id) EXCEPT !.rest = Parents[t.id]]
    <2>1. v.id = t.id /\ v.op = "checkParents"
        BY DEF Do
    <2>2. v \notin tasks'
        BY <2>1 DEF CheckOps
    <2> QED BY <1>0, <2>2, ActionOfTask DEF Solidify, Continue
<1>5. ~\E p \in t.rest : CheckParent(t, p)
    <2>1. SUFFICES ASSUME NEW p \in t.rest, CheckParent(t, p) PROVE FALSE
        OBVIOUS
    <2> DEFINE v == [t EXCEPT !.rest = t.rest \ {p}, !.solid = p \in solid /\ t.solid]
    <2>2. v.id = t.id /\ v.op = t.op
        BY TaskTyped DEF TypesInv, Task
    <2>3. v \in tasks'
        BY <2>1 DEF CheckParent, Continue
    <2> QED BY <2>2, <2>3
<1>6. t.op = "checkParents" /\ ConcludeSolidity(t)
    BY <1>2, <1>3, <1>4, <1>5, ActionOfTask DEF CheckOps
<1>7. ~t.solid
    BY <1>6 DEF ConcludeSolidity
<1>8. Do("solidify", t.id) \notin tasks
    BY <1>0, <1>1, <1>6, DoFields DEF CheckOps
<1> QED
    BY <1>6, <1>7, <1>8 DEF ChecksRequest

LEMMA UnsolidStep ==
    ASSUME TypesInv, RequestsInv, OrderInv, ChecksRequest, UnsolidHasReason, [Next]_vars
    PROVE  UnsolidHasReason'
<1>1. SUFFICES ASSUME NEW b \in stored' \ (solid' \cup invalid'),
                      \A u \in tasks' : u.id = b => u.op \notin CheckOps
               PROVE  (restarts' = 0 => Waits(b)') /\ Parents[b] \subseteq Known'
    BY DEF UnsolidHasReason, CheckOps, Waits, Known
<1>2. Parents[b] \subseteq Known'
    <2>1. ParentsAsked(b)'
        BY ChecksStep DEF ChecksRequest
    <2> QED BY <1>1, <2>1 DEF ParentsAsked, CheckOps, FirstCheck
<1>3. ASSUME restarts' = 0 PROVE Waits(b)'
    <2>0. ~Restart
        BY <1>3, IntakeAssumption DEF TypesInv, IntakeTypeOK, Restart
    <2>1. restarts = 0
        BY <1>3, <2>0, OutsideTasks DEF TaskStep
    <2>2. Do("solidify", b) \notin tasks'
        BY <1>1, DoFields DEF CheckOps
    <2>3. ASSUME b \in stored, Waits(b) PROVE Waits(b)'
        BY <1>3, <2>2, <2>3, WaitsKept
    <2>4. CASE b \in stored \ (solid \cup invalid) /\ \A t \in tasks : t.id = b => t.op \notin CheckOps
        BY <2>1, <2>3, <2>4 DEF UnsolidHasReason, CheckOps, Waits
    <2>5. CASE ~TaskStep
        BY <1>1, <2>0, <2>4, <2>5, OutsideTasks
    <2>6. CASE TaskStep
        <3>1. PICK t \in tasks : TaskAction(t)
            BY <2>6 DEF TaskStep, TaskAction
        <3>2. tasks \ {t} \subseteq tasks' /\ solid \subseteq solid' /\ invalid \subseteq invalid'
            BY <3>1, OthersRemain
        <3>3. CASE t.id = b /\ t.op \in CheckOps
            <4>1. Waits(b)
                BY <1>1, <2>1, <3>1, <3>3, LastCheck
            <4>2. b \in stored
                BY <3>3 DEF CheckOps, TypesInv, TasksKnown, TransactionOps
            <4> QED BY <2>3, <4>1, <4>2
        <3>4. CASE ~(t.id = b /\ t.op \in CheckOps)
            <4>1. \A u \in tasks : u.id = b => u.op \notin CheckOps
                BY <1>1, <3>2, <3>4
            <4>2. b \in stored
                <5>1. SUFFICES ASSUME b \notin stored PROVE FALSE
                    OBVIOUS
                <5>2. StoreBlock(t)
                    BY <1>1, <3>1, <5>1 DEF TaskAction, DeleteMissing, StopRequest, Solidify, CheckParent, ConcludeSolidity,
                        ProcessChildren, storageVars, Book, StoreAndProcessTransaction, BookBlock, PropagateBooking,
                        ProcessTransaction, ProcessBookedTransaction, BookAttachment
                <5>3. t.id = b /\ Do("deleteMissing", b) \in tasks'
                    BY <1>1, <5>1, <5>2 DEF StoreBlock, Continue
                <5> QED BY <1>1, <5>3, DoFields DEF CheckOps
            <4> QED BY <1>1, <2>4, <3>2, <4>1, <4>2
        <3> QED BY <3>3, <3>4
    <2> QED BY <2>5, <2>6
<1> QED
    BY <1>2, <1>3

(* The consumers of a transaction that is booked are processed again. *)
LEMMA ConsumersProcessed ==
    ASSUME NEW tx \in Transaction, NEW B, ledger \in [Transaction -> {"unknown", "unsolid", "booked"}],
           ledger' = [ledger EXCEPT ![tx] = "booked"], OnTransactionBooked(tx, B) \subseteq tasks',
           NEW x \in Transaction, x # tx, ledger[x] = "unsolid", ~InputsBooked(x), InputsBooked(x)'
    PROVE  Do("processTransaction", x) \in tasks'
<1>1. Inputs[x] \subseteq Transaction
    BY IntakeAssumption
<1>2. tx \in Inputs[x]
    BY <1>1 DEF InputsBooked
<1> QED
    BY <1>2 DEF OnTransactionBooked

LEMMA TransactionsStep ==
    ASSUME TypesInv, OrderInv, TransactionsProcessed, [Next]_vars
    PROVE  TransactionsProcessed'
<1>1. SUFFICES ASSUME restarts' = 0
               PROVE  /\ \A a \in attachments' : ledger'[a[1]] # "unknown" \/ Do("storeAndProcess", a[2]) \in tasks'
                      /\ \A x \in Transaction : ledger'[x] = "unsolid" =>
                            ~InputsBooked(x)' \/ Do("processTransaction", x) \in tasks'
    BY DEF TransactionsProcessed
<1>2. ~Restart
    BY <1>1, IntakeAssumption DEF TypesInv, IntakeTypeOK, Restart
<1>3. restarts = 0
    BY <1>1, <1>2, OutsideTasks DEF TaskStep
<1>4. ledger \in [Transaction -> {"unknown", "unsolid", "booked"}] /\ attachments \subseteq Transaction \X Block
    BY DEF TypesInv, IntakeTypeOK
<1>5. CASE ~TaskStep
    <2>1. tasks \subseteq tasks' /\ UNCHANGED <<attachments, ledger>>
        BY <1>2, <1>5, OutsideTasks
    <2>2. \A x : InputsBooked(x)' = InputsBooked(x)
        BY <2>1 DEF InputsBooked
    <2> QED BY <1>3, <2>1, <2>2 DEF TransactionsProcessed
<1>6. CASE TaskStep
    <2>1. PICK t \in tasks : TaskAction(t)
        BY <1>6 DEF TaskStep, TaskAction
    <2>2. tasks \ {t} \subseteq tasks'
        BY <2>1, OthersRemain
    <2>3. CASE t.op = "storeAndProcess"
        <3> DEFINE tx == Payload[t.id]
                   books == ledger[tx] = "unknown" /\ InputsBooked(tx)
        <3>1. StoreAndProcessTransaction(t)
            BY <2>1, <2>3, ActionOfTask
        <3>2. tx \in Transaction
            <4>1. t.id \in Block /\ tx # NoTransaction
                BY <2>3 DEF TypesInv, TasksKnown, TransactionOps, IntakeTypeOK
            <4> QED BY <4>1, IntakeAssumption
        <3>3. /\ attachments' = attachments
              /\ ledger' = [ledger EXCEPT ![tx] = IF books THEN "booked" ELSE IF @ = "unknown" THEN "unsolid" ELSE @]
              /\ books => OnTransactionBooked(tx, {t.id}) \subseteq tasks'
            BY <3>1 DEF StoreAndProcessTransaction, Continue
        <3>4. ASSUME NEW a \in attachments PROVE ledger'[a[1]] # "unknown" \/ Do("storeAndProcess", a[2]) \in tasks'
            <4>1. a[1] \in Transaction /\ Payload[a[2]] = a[1]
                BY <1>4 DEF TypesInv, StoredFirst
            <4>2. CASE Do("storeAndProcess", a[2]) = t
                <5>1. a[1] = tx
                    BY <4>1, <4>2, DoFields
                <5> QED BY <1>4, <3>2, <3>3, <5>1
            <4>3. CASE Do("storeAndProcess", a[2]) # t
                <5>1. ledger[a[1]] # "unknown" => ledger'[a[1]] # "unknown"
                    BY <1>4, <3>2, <3>3, <4>1
                <5> QED BY <1>3, <2>2, <4>3, <5>1 DEF TransactionsProcessed
            <4> QED BY <4>2, <4>3
        <3>5. ASSUME NEW x \in Transaction, ledger'[x] = "unsolid", InputsBooked(x)'
              PROVE  Do("processTransaction", x) \in tasks'
            <4>1. Do("processTransaction", x) # t
                BY <2>3, DoFields
            <4>2. CASE ledger[x] = "unsolid" /\ InputsBooked(x)
                BY <1>3, <2>2, <4>1, <4>2 DEF TransactionsProcessed
            <4>3. CASE ledger[x] = "unsolid" /\ ~InputsBooked(x)
                <5>1. CASE books
                    <6>1. ledger' = [ledger EXCEPT ![tx] = "booked"] /\ x # tx
                        BY <3>3, <4>3, <5>1
                    <6> QED BY <1>4, <3>2, <3>3, <3>5, <4>3, <5>1, <6>1, ConsumersProcessed
                <5>2. CASE ~books
                    <6>1. \A i \in Transaction : ledger'[i] = "booked" => ledger[i] = "booked"
                        BY <1>4, <3>2, <3>3, <5>2
                    <6>2. InputsBooked(x)
                        BY <3>5, <6>1, IntakeAssumption DEF InputsBooked
                    <6> QED BY <4>3, <6>2
                <5> QED BY <5>1, <5>2
            <4>4. CASE ledger[x] # "unsolid"
                <5>1. x = tx /\ ledger[tx] = "unknown" /\ ~InputsBooked(tx)
                    BY <1>4, <3>2, <3>3, <3>5, <4>4
                <5>2. \A i \in Transaction : ledger'[i] = "booked" => ledger[i] = "booked"
                    BY <1>4, <3>2, <3>3, <5>1
                <5>3. InputsBooked(tx)
                    BY <3>5, <5>1, <5>2, IntakeAssumption DEF InputsBooked
                <5> QED BY <5>1, <5>3
            <4> QED BY <4>2, <4>3, <4>4
        <3> QED BY <3>3, <3>4, <3>5
    <2>4. CASE t.op = "processTransaction"
        <3> DEFINE books == ledger[t.id] = "unsolid" /\ InputsBooked(t.id)
        <3>1. ProcessTransaction(t)
            BY <2>1, <2>4, ActionOfTask
        <3>2. t.id \in Transaction
            BY <2>4 DEF TypesInv, TasksKnown, TransactionOps
        <3>3. /\ attachments' = attachments
              /\ ledger' = IF books THEN [ledger EXCEPT ![t.id] = "booked"] ELSE ledger
              /\ books => OnTransactionBooked(t.id, {}) \subseteq tasks'
            BY <3>1 DEF ProcessTransaction, Continue
        <3>4. ASSUME NEW a \in attachments PROVE ledger'[a[1]] # "unknown" \/ Do("storeAndProcess", a[2]) \in tasks'
            <4>1. a[1] \in Transaction /\ Do("storeAndProcess", a[2]) # t
                BY <1>4, <2>4, DoFields
            <4>2. ledger[a[1]] # "unknown" => ledger'[a[1]] # "unknown"
                BY <1>4, <3>2, <3>3, <4>1
            <4> QED BY <1>3, <2>2, <4>1, <4>2 DEF TransactionsProcessed
        <3>5. ASSUME NEW x \in Transaction, ledger'[x] = "unsolid", InputsBooked(x)'
              PROVE  Do("processTransaction", x) \in tasks'
            <4>0. ledger[x] = "unsolid"
                BY <1>4, <3>2, <3>3, <3>5
            <4>1. CASE books
                <5>1. ledger' = [ledger EXCEPT ![t.id] = "booked"] /\ x # t.id
                    BY <1>4, <3>2, <3>3, <3>5, <4>1
                <5>2. Do("processTransaction", x) # t
                    BY <5>1, DoFields
                <5>3. CASE InputsBooked(x)
                    BY <1>3, <2>2, <4>0, <5>2, <5>3 DEF TransactionsProcessed
                <5>4. CASE ~InputsBooked(x)
                    BY <1>4, <3>2, <3>3, <3>5, <4>0, <4>1, <5>1, <5>4, ConsumersProcessed
                <5> QED BY <5>3, <5>4
            <4>2. CASE ~books
                <5>1. ledger' = ledger
                    BY <3>3, <4>2
                <5>2. InputsBooked(x)
                    BY <3>5, <5>1 DEF InputsBooked
                <5>3. x # t.id
                    BY <4>0, <4>2, <5>2
                <5>4. Do("processTransaction", x) # t
                    BY <5>3, DoFields
                <5> QED BY <1>3, <2>2, <4>0, <5>2, <5>4 DEF TransactionsProcessed
            <4> QED BY <4>1, <4>2
        <3> QED BY <3>3, <3>4, <3>5
    <2>5. CASE t.op \notin {"storeAndProcess", "processTransaction"}
        <3>1. ledger' = ledger
            BY <2>1, <2>5 DEF TaskAction, StoreBlock, DeleteMissing, StopRequest, Solidify, CheckParent, ConcludeSolidity,
                ProcessChildren, storageVars, Book, StoreAndProcessTransaction, BookBlock, PropagateBooking,
                ProcessTransaction, ProcessBookedTransaction, BookAttachment
        <3>2. \A a \in attachments' : a \in attachments \/ Do("storeAndProcess", a[2]) \in tasks'
            <4>1. CASE Book(t)
                <5>1. \/ attachments' = attachments
                      \/ /\ attachments' = attachments \cup {<<Payload[t.id], t.id>>}
                         /\ Do("storeAndProcess", t.id) \in tasks'
                    BY <4>1 DEF Book, Continue
                <5> QED BY <5>1
            <4>2. CASE ~Book(t)
                BY <2>1, <2>5, <4>2 DEF TaskAction, StoreBlock, DeleteMissing, StopRequest, Solidify, CheckParent,
                    ConcludeSolidity, ProcessChildren, storageVars, StoreAndProcessTransaction, BookBlock,
                    PropagateBooking, ProcessTransaction, ProcessBookedTransaction, BookAttachment
            <4> QED BY <4>1, <4>2
        <3>3. \A y : Do("storeAndProcess", y) # t /\ Do("processTransaction", y) # t
            BY <2>5, DoFields
        <3>4. \A x : InputsBooked(x)' = InputsBooked(x)
            BY <3>1 DEF InputsBooked
        <3> QED BY <1>3, <2>2, <3>1, <3>2, <3>3, <3>4 DEF TransactionsProcessed
    <2> QED BY <2>3, <2>4, <2>5
<1> QED
    BY <1>5, <1>6

BookOps == {"blockSolid", "book", "storeAndProcess", "bookBlock", "bookAttachment"}

(* What a solid block waits for: a parent, or its transaction. *)
WaitsForParent(b) == \E p \in Parents[b] : p \notin booked \/ Do("propagateBooking", p) \in tasks
WaitsForTransaction(b) ==
    /\ <<Payload[b], b>> \in attachments
    /\ \/ ledger[Payload[b]] # "booked"
       \/ \E t \in tasks : t.op = "processBookedTransaction" /\ t.id = Payload[b] /\ b \notin t.rest

LEMMA WaitsForParentKept ==
    ASSUME NEW t \in tasks, TaskAction(t), NEW b \in stored, WaitsForParent(b), Do("book", b) \notin tasks'
    PROVE  WaitsForParent(b)'
<1>1. PICK p \in Parents[b] : p \notin booked \/ Do("propagateBooking", p) \in tasks
    BY DEF WaitsForParent
<1>2. tasks \ {t} \subseteq tasks'
    BY OthersRemain
<1>3. CASE p \notin booked
    BY <1>1, <1>3, ChangesTold DEF WaitsForParent
<1>4. CASE Do("propagateBooking", p) \in tasks /\ Do("propagateBooking", p) # t
    BY <1>1, <1>2, <1>4 DEF WaitsForParent
<1>5. CASE Do("propagateBooking", p) = t
    <2>1. t.op = "propagateBooking" /\ t.id = p
        BY <1>5, DoFields
    <2>2. PropagateBooking(t)
        BY <2>1, ActionOfTask
    <2> QED BY <1>1, <2>1, <2>2 DEF PropagateBooking, Continue, Children
<1> QED
    BY <1>1, <1>3, <1>4, <1>5

(* processBookedTransaction comes for every attachment, but for the one of the thread that books. *)
LEMMA WaitsForTransactionKept ==
    ASSUME TypesInv, NEW t \in tasks, TaskAction(t), NEW b \in Block, WaitsForTransaction(b),
           Do("bookAttachment", b) \notin tasks', ~(t.op = "storeAndProcess" /\ t.id = b)
    PROVE  WaitsForTransaction(b)'
<1> DEFINE x == Payload[b]
<1>1. <<x, b>> \in attachments' /\ tasks \ {t} \subseteq tasks' /\ x \in Transaction
    BY OthersRemain DEF WaitsForTransaction, TypesInv, IntakeTypeOK
<1>2. ledger \in [Transaction -> {"unknown", "unsolid", "booked"}]
    BY DEF TypesInv, IntakeTypeOK
<1>3. CASE ledger'[x] # "booked"
    BY <1>1, <1>3 DEF WaitsForTransaction
<1>4. CASE ledger[x] # "booked" /\ ledger'[x] = "booked"
    <2>1. StoreAndProcessTransaction(t) \/ ProcessTransaction(t)
        BY <1>4 DEF TaskAction, StoreBlock, DeleteMissing, StopRequest, Solidify, CheckParent, ConcludeSolidity,
            ProcessChildren, storageVars, Book, BookBlock, PropagateBooking, ProcessBookedTransaction, BookAttachment
    <2>2. \E B : b \notin B /\ OnTransactionBooked(x, B) \subseteq tasks'
        <3>1. CASE StoreAndProcessTransaction(t)
            <4>1. t.op = "storeAndProcess" /\ b \notin {t.id}
                BY <3>1 DEF StoreAndProcessTransaction
            <4>2. x = Payload[t.id] /\ OnTransactionBooked(Payload[t.id], {t.id}) \subseteq tasks'
                BY <1>1, <1>2, <1>4, <3>1 DEF StoreAndProcessTransaction, Continue
            <4> QED BY <4>1, <4>2
        <3>2. CASE ProcessTransaction(t)
            <4>1. x = t.id /\ OnTransactionBooked(t.id, {}) \subseteq tasks'
                BY <1>1, <1>2, <1>4, <3>2 DEF ProcessTransaction, Continue
            <4> QED BY <4>1
        <3> QED BY <2>1, <3>1, <3>2
    <2>3. PICK B : b \notin B /\ OnTransactionBooked(x, B) \subseteq tasks'
        BY <2>2
    <2> DEFINE u == [Do("processBookedTransaction", x) EXCEPT !.rest = B]
    <2>4. u \in tasks' /\ u.op = "processBookedTransaction" /\ u.id = x /\ u.rest = B
        BY <2>3 DEF OnTransactionBooked, Do
    <2> HIDE DEF u
    <2> QED BY <1>1, <2>3, <2>4 DEF WaitsForTransaction
<1>5. CASE ledger[x] = "booked"
    <2>1. PICK u \in tasks : u.op = "processBookedTransaction" /\ u.id = x /\ b \notin u.rest
        BY <1>5 DEF WaitsForTransaction
    <2>2. u # t
        <3>1. SUFFICES ASSUME u = t PROVE FALSE
            OBVIOUS
        <3>2. ProcessBookedTransaction(t)
            BY <2>1, <3>1, ActionOfTask
        <3>3. <<t.id, b>> \in attachments /\ b \notin t.rest
            BY <2>1, <3>1 DEF WaitsForTransaction
        <3> QED BY <3>2, <3>3 DEF ProcessBookedTransaction, Continue
    <2> QED BY <1>1, <2>1, <2>2 DEF WaitsForTransaction
<1> QED
    BY <1>3, <1>4, <1>5

(* The last attempt to book a block that remains unbooked has seen what the block waits for. *)
LEMMA LastAttempt ==
    ASSUME TypesInv, OrderInv, NEW t \in tasks, TaskAction(t), t.op \in BookOps, t.id \in solid, t.id \notin booked',
           \A u \in tasks' : u.id = t.id => u.op \notin BookOps
    PROVE  WaitsForParent(t.id)' \/ WaitsForTransaction(t.id)'
<1>0. \A op \in BookOps : Do(op, t.id) \notin tasks'
    BY DoFields
<1>1. booked \subseteq booked' /\ t.id \notin booked
    BY OthersRemain
<1>2. CASE t.op \in {"book", "blockSolid"}
    <2>1. Book(t)
        BY <1>2, ActionOfTask
    <2>2. ~readyForBooking(t.id) /\ booked' = booked
        BY <1>0, <2>1 DEF Book, Continue, BookOps
    <2> QED BY <1>1, <2>2 DEF readyForBooking, WaitsForParent
<1>3. CASE t.op = "bookAttachment"
    <2>1. BookAttachment(t)
        BY <1>3, ActionOfTask
    <2>2. ~readyForBooking(t.id) /\ booked' = booked
        BY <1>0, <2>1 DEF BookAttachment, Continue, BookOps, storageVars
    <2> QED BY <1>1, <2>2 DEF readyForBooking, WaitsForParent
<1>4. CASE t.op = "storeAndProcess"
    <2> DEFINE tx == Payload[t.id]
    <2>1. StoreAndProcessTransaction(t)
        BY <1>4, ActionOfTask
    <2>2. tx \in Transaction /\ <<tx, t.id>> \in attachments /\ attachments' = attachments
        <3>1. <<tx, t.id>> \in attachments
            BY <1>4 DEF OrderInv, BookingChecked, BookingTask
        <3>2. attachments \subseteq Transaction \X Block
            BY DEF TypesInv, IntakeTypeOK
        <3> QED BY <2>1, <3>1, <3>2 DEF StoreAndProcessTransaction
    <2>3. ~(ledger[tx] = "unknown" /\ InputsBooked(tx)) /\ ledger[tx] # "booked"
        BY <1>0, <2>1 DEF StoreAndProcessTransaction, Continue, BookOps
    <2>4. ledger'[tx] # "booked"
        <3>1. ledger \in [Transaction -> {"unknown", "unsolid", "booked"}]
            BY DEF TypesInv, IntakeTypeOK
        <3>2. ledger' = [ledger EXCEPT ![tx] = IF @ = "unknown" THEN "unsolid" ELSE @]
            BY <2>1, <2>3 DEF StoreAndProcessTransaction
        <3> QED BY <2>2, <2>3, <3>1, <3>2
    <2> QED BY <2>2, <2>4 DEF WaitsForTransaction
<1>5. t.op # "bookBlock"
    BY ActionOfTask DEF BookBlock
<1> QED
    BY <1>2, <1>3, <1>4, <1>5 DEF BookOps

LEMMA UnbookedStep ==
    ASSUME TypesInv, OrderInv, UnbookedHasReason, [Next]_vars
    PROVE  UnbookedHasReason'
<1>1. SUFFICES ASSUME NEW b \in solid' \ booked', restarts' = 0,
                      \A u \in tasks' : u.id = b => u.op \notin BookOps
               PROVE  WaitsForParent(b)' \/ WaitsForTransaction(b)'
    BY DEF UnbookedHasReason, BookOps, WaitsForParent, WaitsForTransaction
<1>2. ~Restart
    BY <1>1, IntakeAssumption DEF TypesInv, IntakeTypeOK, Restart
<1>3. restarts = 0
    BY <1>1, <1>2, OutsideTasks DEF TaskStep
<1>4. \A op \in BookOps : Do(op, b) \notin tasks'
    BY <1>1, DoFields
<1>5. ASSUME b \in solid \ booked, \A u \in tasks : u.id = b => u.op \notin BookOps
      PROVE  WaitsForParent(b) \/ WaitsForTransaction(b)
    BY <1>3, <1>5 DEF UnbookedHasReason, BookOps, WaitsForParent, WaitsForTransaction
<1>6. CASE ~TaskStep
    <2>1. tasks \subseteq tasks' /\ UNCHANGED <<solid, booked, attachments, ledger>>
        BY <1>2, <1>6, OutsideTasks
    <2>2. WaitsForParent(b) \/ WaitsForTransaction(b)
        BY <1>1, <1>5, <2>1
    <2> QED BY <2>1, <2>2 DEF WaitsForParent, WaitsForTransaction
<1>7. CASE TaskStep
    <2>1. PICK t \in tasks : TaskAction(t)
        BY <1>7 DEF TaskStep, TaskAction
    <2>2. tasks \ {t} \subseteq tasks' /\ booked \subseteq booked'
        BY <2>1, OthersRemain
    <2>3. b \in solid
        BY <1>1, <1>4, <2>1, ChangesTold DEF BookOps
    <2>4. CASE t.id = b /\ t.op \in BookOps
        BY <1>1, <2>1, <2>3, <2>4, LastAttempt
    <2>5. CASE ~(t.id = b /\ t.op \in BookOps)
        <3>1. \A u \in tasks : u.id = b => u.op \notin BookOps
            BY <1>1, <2>2, <2>5
        <3>2. WaitsForParent(b) \/ WaitsForTransaction(b)
            BY <1>1, <1>5, <2>2, <2>3, <3>1
        <3>3. b # Genesis /\ b \in stored \cap Block
            BY <1>1, <2>2, <2>3 DEF TypesInv, StoredFirst, IntakeTypeOK
        <3>4. WaitsForParent(b) => WaitsForParent(b)'
            BY <1>4, <2>1, <3>3, WaitsForParentKept DEF BookOps
        <3>5. WaitsForTransaction(b) => WaitsForTransaction(b)'
            BY <1>4, <2>1, <2>5, <3>3, WaitsForTransactionKept DEF BookOps
        <3> QED BY <3>2, <3>4, <3>5
    <2> QED BY <2>4, <2>5
<1> QED
    BY <1>6, <1>7

-----------------------------------------------------------------------------
(* Theorems. *)

(* The inductive invariant holds in every state of Intake. *)
THEOREM IntakeInvariant == Spec => []IntakeInv
<1>1. Init => IntakeInv
    BY InitTypes, InitOrder, InitWakeUps DEF IntakeInv
<1>2. IntakeInv /\ [Next]_vars => IntakeInv'
    <2> SUFFICES ASSUME IntakeInv, [Next]_vars PROVE IntakeInv'
        OBVIOUS
    <2>1. TypesInv' /\ RequestsInv' /\ OrderInv'
        BY TypesStep, RequestsStep, OrderStep DEF IntakeInv
    <2>2. WakeUpsInv'
        BY ChecksStep, TransactionsStep, UnsolidStep, UnbookedStep DEF IntakeInv, WakeUpsInv
    <2> QED BY <2>1, <2>2 DEF IntakeInv
<1> QED
    BY <1>1, <1>2, PTL DEF Spec

(* The storages, the tasks and the timers have their types: the filter of recently seen bytes keeps *)
(* its size and no request is counted beyond MaxRequestThreshold.                                   *)
THEOREM IntakeTypeCorrect == Spec => []IntakeTypeOK
<1>1. IntakeInv => IntakeTypeOK
    BY DEF IntakeInv, TypesInv
<1> QED
    BY <1>1, IntakeInvariant, PTL

(* Storage and Requester agree on what is missing, between any steps of the threads that store      *)
(* blocks, start, repeat and give up requests, and across restarts (storage.go, requester.go).      *)
THEOREM MissingBlocksRequested == Spec => []RequestsTracked
<1>1. IntakeInv => RequestsTracked
    BY DEF IntakeInv, RequestsInv
<1> QED
    BY <1>1, IntakeInvariant, PTL

(* A block that waits has a reason to wait, whatever order the events of the Solidifier, the Booker *)
(* and the ledger come in.                                                                          *)
THEOREM WakeUpsNotLost == Spec => []NoLostWakeUps
<1>1. IntakeInv => NoLostWakeUps
    BY DEF IntakeInv, WakeUpsInv, NoLostWakeUps
<1> QED
    BY <1>1, IntakeInvariant, PTL

(* When nothing is left to run, every complete past cone is solid and booked. *)
LEMMA ConesBooked == IntakeInv => CompleteConesBooked
<1>1. SUFFICES ASSUME IntakeInv, tasks = {}, restarts = 0, NEW C \in SUBSET (metadata \ {Genesis}), CompleteCone(C)
               PROVE  C \subseteq booked
    BY DEF CompleteConesBooked
<1>2. C \subseteq stored /\ C \subseteq Block /\ Genesis \in solid \cap booked
    BY <1>1 DEF IntakeInv, TypesInv, StoredFirst, IntakeTypeOK
<1>3. \A c \in C : Parents[c] \subseteq C \cup {Genesis} /\ c \notin invalid
    BY <1>1 DEF CompleteCone, IntakeInv, OrderInv, SolidityChecked
<1>4. C \subseteq solid
    <2>1. SUFFICES ASSUME C \ solid # {} PROVE FALSE
        OBVIOUS
    <2>2. PICK c \in C \ solid : Parents[c] \cap (C \ solid) = {}
        BY <1>1, <2>1 DEF CompleteCone
    <2>3. \E p \in Parents[c] : p \notin solid
        BY <1>1, <1>2, <1>3 DEF IntakeInv, WakeUpsInv, UnsolidHasReason
    <2> QED BY <1>2, <1>3, <2>2, <2>3
<1>5. SUFFICES ASSUME C \ booked # {} PROVE FALSE
    OBVIOUS
<1>6. PICK c \in C \ booked :
        /\ Parents[c] \cap (C \ booked) = {}
        /\ Payload[c] # NoTransaction => \A i \in Inputs[Payload[c]] : \E d \in C \ (C \ booked) : Payload[d] = i
    BY <1>1, <1>5 DEF CompleteCone
<1>7. Parents[c] \subseteq booked
    BY <1>2, <1>3, <1>6
<1>8. <<Payload[c], c>> \in attachments /\ ledger[Payload[c]] # "booked"
    BY <1>1, <1>4, <1>7 DEF IntakeInv, WakeUpsInv, UnbookedHasReason
<1>9. /\ Payload[c] \in Transaction /\ Payload[c] # NoTransaction
      /\ ledger \in [Transaction -> {"unknown", "unsolid", "booked"}]
    BY <1>1, <1>8, IntakeAssumption DEF IntakeInv, TypesInv, IntakeTypeOK
<1>10. InputsBooked(Payload[c])
    <2>1. ASSUME NEW i \in Inputs[Payload[c]] PROVE ledger[i] = "booked"
        <3>1. PICK d \in C \cap booked : Payload[d] = i
            BY <1>6, <1>9
        <3>2. i \in Transaction /\ i # NoTransaction /\ d # Genesis
            BY <1>2, <1>9, IntakeAssumption
        <3> QED BY <1>1, <3>1, <3>2 DEF IntakeInv, OrderInv, BookingChecked
    <2> QED BY <2>1 DEF InputsBooked
<1>11. ledger[Payload[c]] = "unsolid"
    <2>1. ledger[Payload[c]] # "unknown"
        BY <1>1, <1>8 DEF IntakeInv, WakeUpsInv, TransactionsProcessed
    <2> QED BY <1>8, <1>9, <2>1
<1> QED
    BY <1>1, <1>9, <1>10, <1>11 DEF IntakeInv, WakeUpsInv, TransactionsProcessed

(* A node that was not restarted books every block with a complete past cone, in whatever order the *)
(* blocks, the answers to requests and the events came.                                             *)
THEOREM ConesBookedInTheEnd == Spec => []CompleteConesBooked
    BY ConesBooked, IntakeInvariant, PTL

(* Intake implements CausalOrder: solidity, invalidity and booking follow the causal order, once    *)
(* and for good, whichever thread books and across restarts.                                        *)
THEOREM IntakeImplementsCausalOrder == Spec => BlocksInCausalOrder
<1>1. Init => Order!Init
    BY DEF Init, Order!Init
<1>2. IntakeInv /\ [Next]_vars => [Order!Next]_(Order!orderVars)
    BY OrderSteps DEF IntakeInv
<1> QED
    BY <1>1, <1>2, IntakeInvariant, PTL DEF Spec, BlocksInCausalOrder, Order!Spec

=============================================================================
