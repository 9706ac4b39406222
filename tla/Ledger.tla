------------------------------- MODULE Ledger -------------------------------
(***************************************************************************)
(* The UTXO ledger of packages/core/ledger on top of the conflict DAG:     *)
(* storing and booking transactions, forking the first spender of an       *)
(* output when a second one is booked, spreading the new conflict through  *)
(* the future cone, and accepting or rejecting transactions.               *)
(*                                                                         *)
(* A transaction is booked by at most one thread at a time, the one that   *)
(* holds its lock in Ledger.mutex, so threads are named by the transaction *)
(* they book.  A thread may additionally lock a transaction it forks or    *)
(* updates, one at a time; lock[t] is the thread that holds t.  Handlers   *)
(* attached to events run asynchronously: tasks is the set of events whose *)
(* handler has not run yet.                                                *)
(*                                                                         *)
(* A conflict is identified by the transaction that spends the contested   *)
(* output and a resource is an output, so ConflictID is the set of         *)
(* transactions and ResourceID the set of outputs.                         *)
(***************************************************************************)
EXTENDS ConflictDAG

CONSTANTS
    Inputs,     \* the outputs a transaction spends
    Creator,    \* the transaction that creates an output, or Genesis
    Genesis,    \* creator of the snapshot's outputs
    Invalid,    \* transactions the VM refuses to execute
    Loaded,     \* transactions booked before the behaviour starts
    Includable, \* transactions some block of which may be accepted
    None        \* no transaction

ASSUME LedgerAssumption ==
    /\ Genesis \notin ConflictID /\ None \notin ConflictID
    /\ Inputs \in [ConflictID -> SUBSET ResourceID]
    /\ Creator \in [ResourceID -> ConflictID \cup {Genesis}]
    /\ Loaded \subseteq ConflictID
    /\ \A t, u \in Loaded : t # u => Inputs[t] \cap Inputs[u] = {}
    /\ \A t \in Loaded : \A o \in Inputs[t] : Creator[o] \in Loaded \cup {Genesis}
    \* An identifier is a hash over the identifiers of the inputs: no cycles.
    /\ \A S \in SUBSET ConflictID : S # {} =>
            \E t \in S : \A o \in Inputs[t] : Creator[o] \notin S

VARIABLES
    submitted,      \* transactions StoreAndProcessTransaction was called for
    stored,         \* transactions with Transaction and TransactionMetadata
    booked,         \* TransactionMetadata.Booked; their outputs are stored
    conflictIDs,    \* TransactionMetadata.ConflictIDs, and those of its outputs
    firstConsumer,  \* OutputMetadata.FirstConsumer
    consumers,      \* Consumer references <<output, transaction>>
    bookedRefs,     \* the Consumer references with Booked set
    included,       \* transactions with an InclusionTime
    txState,        \* TransactionMetadata.ConfirmationState
    lock,           \* Ledger.mutex
    thread,         \* the booking threads
    tasks           \* triggered events whose attached handler is still to run

bookVars == <<stored, booked, conflictIDs, firstConsumer, consumers, bookedRefs, lock, thread>>
ledgerVars == <<bookVars, submitted, included, txState, tasks>>
vars == <<dagVars, ledgerVars>>

TransactionID == ConflictID
OutputID == ResourceID

Task == {"Booked", "Process", "Invalid", "Accepted", "Rejected"} \X TransactionID

(***************************************************************************)
(* A thread's program counter and local variables: the data-flow params    *)
(* (own: it created the Consumers), the inherited conflicts, the inputs    *)
(* still to register, the conflicting inputs and the consumers to fork;    *)
(* during a fork the forked transaction, its previous conflicts and the    *)
(* walker through its future cone.                                         *)
(***************************************************************************)
Idle == [pc |-> "idle", own |-> FALSE, inherited |-> {}, register |-> {}, conflicting |-> {},
         fork |-> {}, forked |-> None, previous |-> {}, outputs |-> {}, visit |-> {}, seen |-> {}]

Thread == [pc : {"idle", "check", "register", "fork", "update", "walk"}, own : BOOLEAN,
           inherited : SUBSET TransactionID, register : SUBSET OutputID,
           conflicting : SUBSET OutputID, fork : SUBSET TransactionID,
           forked : TransactionID \cup {None}, previous : SUBSET TransactionID,
           outputs : SUBSET OutputID, visit : SUBSET TransactionID, seen : SUBSET TransactionID]

LedgerTypeOK ==
    /\ TypeOK
    /\ booked \subseteq stored /\ stored \subseteq submitted /\ submitted \subseteq TransactionID
    /\ conflictIDs \in [TransactionID -> SUBSET TransactionID]
    /\ firstConsumer \in [OutputID -> TransactionID \cup {None}]
    /\ bookedRefs \subseteq consumers /\ consumers \subseteq OutputID \X TransactionID
    /\ included \subseteq booked
    /\ txState \in [TransactionID -> {Rejected, Pending, Accepted}]
    /\ lock \in [TransactionID -> TransactionID \cup {None}]
    /\ thread \in [TransactionID -> Thread]
    /\ tasks \subseteq Task

(***************************************************************************)
(* The transactions of Loaded, none of which spend the same output, have   *)
(* been booked one after the other and all handlers have run.              *)
(***************************************************************************)
InitLedger ==
    /\ InitDAG
    /\ submitted = Loaded /\ stored = Loaded /\ booked = Loaded
    /\ conflictIDs = [t \in TransactionID |-> {}]
    /\ consumers = {ref \in OutputID \X Loaded : ref[1] \in Inputs[ref[2]]}
    /\ bookedRefs = consumers
    /\ firstConsumer = [o \in OutputID |->
            IF \E t \in Loaded : o \in Inputs[t] THEN CHOOSE t \in Loaded : o \in Inputs[t] ELSE None]
    /\ included = {}
    /\ txState = [t \in TransactionID |-> Pending]
    /\ lock = [t \in TransactionID |-> None]
    /\ thread = [t \in TransactionID |-> Idle]
    /\ tasks = {}

-----------------------------------------------------------------------------
(* Helpers. *)

(* TransactionMetadata.OutputIDs: set when the transaction is booked. *)
OutputIDs(t) == IF t \in booked THEN {o \in OutputID : Creator[o] = t} ELSE {}

ConsumersOf(O) == {t \in TransactionID : \E o \in O : <<o, t>> \in consumers}

(* The transactions that consume an output of t. *)
ConsumingTransactions(t) == ConsumersOf(OutputIDs(t))

(* The edges WalkConsumingTransactionID follows. *)
ConsumerEdges == {e \in TransactionID \X TransactionID : e[2] \in ConsumingTransactions(e[1])}

IsConflicting(t) == conflictIDs[t] = {t}

IsSolid(t) == \A o \in Inputs[t] : Creator[o] \in booked \cup {Genesis}

InputConflictIDs(t) == UNION {conflictIDs[Creator[o]] : o \in {i \in Inputs[t] : Creator[i] # Genesis}}

(* Mutant: starts at the unspent outputs. *)
MutantOutputsCausallyRelated(t) ==
    LET unspent == {o \in Inputs[t] : firstConsumer[o] = None}
        cone    == Walk(ConsumersOf(unspent), ConsumerEdges)
    IN  \E x \in cone : OutputIDs(x) \cap Inputs[t] # {}

(* outputsCausallyRelated: some input was created in the future cone of another one. *)
OutputsCausallyRelated(t) ==
    LET spent == {o \in Inputs[t] : firstConsumer[o] # None}
        cone  == Walk(ConsumersOf(spent), ConsumerEdges)
    IN  \E x \in cone : OutputIDs(x) \cap Inputs[t] # {}

(* The creators of a transaction's inputs, and all transactions it builds on. *)
CreatorEdges == {e \in TransactionID \X TransactionID : \E o \in Inputs[e[1]] : Creator[o] = e[2]}

PastCone(t) == Walk({t}, CreatorEdges)

AcceptedConflicts == {c \in TransactionID : IsAccepted(confirmationState[c])}

Running(t, pc) == thread[t].pc = pc

Unlock(S) == [x \in TransactionID |-> IF x \in S THEN None ELSE lock[x]]

-----------------------------------------------------------------------------
(* Storing a transaction and deciding whether it can be booked. *)

(***************************************************************************)
(* StoreAndProcessTransaction up to the end of storeTransactionCommand.    *)
(* For a transaction that is stored already it changes nothing; one that   *)
(* was pruned is not submitted again (a bound of the model).               *)
(***************************************************************************)
StoreTransaction(t) ==
    /\ t \notin submitted
    /\ submitted' = submitted \cup {t}
    /\ stored' = stored \cup {t}
    /\ consumers' = consumers \cup (Inputs[t] \X {t})
    /\ lock' = [lock EXCEPT ![t] = t]
    /\ thread' = [thread EXCEPT ![t] = [Idle EXCEPT !.pc = "check", !.own = TRUE]]
    /\ UNCHANGED <<dagVars, booked, conflictIDs, firstConsumer, bookedRefs, included, txState, tasks>>

(* The submitted processTransaction; checkAlreadyBookedCommand ends it for a booked one. *)
ProcessTransaction(t) ==
    /\ <<"Process", t>> \in tasks /\ lock[t] = None
    /\ tasks' = tasks \ {<<"Process", t>>}
    /\ IF t \in stored \ booked
       THEN /\ lock' = [lock EXCEPT ![t] = t]
            /\ thread' = [thread EXCEPT ![t] = [Idle EXCEPT !.pc = "check"]]
       ELSE UNCHANGED <<lock, thread>>
    /\ UNCHANGED <<dagVars, submitted, stored, booked, conflictIDs, firstConsumer, consumers, bookedRefs,
                   included, txState>>

(* The checks fail: an unsolid transaction waits, an invalid one is reported. *)
AbortProcessing(t) ==
    /\ Running(t, "check")
    /\ ~IsSolid(t) \/ OutputsCausallyRelated(t) \/ t \in Invalid
    /\ tasks' = IF IsSolid(t) THEN tasks \cup {<<"Invalid", t>>} ELSE tasks
    /\ lock' = Unlock({t})
    /\ thread' = [thread EXCEPT ![t] = Idle]
    /\ UNCHANGED <<dagVars, submitted, stored, booked, conflictIDs, firstConsumer, consumers, bookedRefs,
                   included, txState>>

(* The checks succeed, and inheritConflictIDs reads the conflicts of the inputs. *)
InheritConflictIDs(t) ==
    /\ Running(t, "check")
    /\ IsSolid(t) /\ ~OutputsCausallyRelated(t) /\ t \notin Invalid
    /\ thread' = [thread EXCEPT ![t].pc = "register", ![t].register = Inputs[t],
                                ![t].inherited = UnconfirmedConflicts(InputConflictIDs(t))]
    /\ UNCHANGED <<dagVars, submitted, stored, booked, conflictIDs, firstConsumer, consumers, bookedRefs,
                   lock, included, txState, tasks>>

-----------------------------------------------------------------------------
(* Booking. *)

(* Mutant: an input that was spent before does not make the transaction conflicting. *)
MutantRegistered(t, o) == [thread[t] EXCEPT !.register = @ \ {o}]

(* determineConflictDetails with the answer for input o; FirstConsumerForked is never set. *)
Registered(t, o) ==
    IF firstConsumer[o] = None
    THEN [thread[t] EXCEPT !.register = @ \ {o}]
    ELSE [thread[t] EXCEPT !.register = @ \ {o}, !.conflicting = @ \cup {o},
                           !.fork = @ \cup {firstConsumer[o]}]

RegisterBookedConsumer(t, o) ==
    /\ Running(t, "register") /\ o \in thread[t].register
    /\ firstConsumer' = [firstConsumer EXCEPT ![o] = IF @ = None THEN t ELSE @]
    /\ thread' = [thread EXCEPT ![t] = Registered(t, o)]
    /\ UNCHANGED <<dagVars, submitted, stored, booked, conflictIDs, consumers, bookedRefs, lock,
                   included, txState, tasks>>

(* SetConflictIDs, storeOutputs, SetBooked, TransactionBooked and the deferred unlock. *)
Book(t, ids) ==
    /\ conflictIDs' = [conflictIDs EXCEPT ![t] = ids]
    /\ booked' = booked \cup {t}
    /\ bookedRefs' = IF thread[t].own THEN bookedRefs \cup (Inputs[t] \X {t}) ELSE bookedRefs
    /\ tasks' = tasks \cup {<<"Booked", t>>}
    /\ lock' = Unlock({t})
    /\ thread' = [thread EXCEPT ![t] = Idle]
    /\ UNCHANGED <<dagVars, submitted, stored, firstConsumer, consumers, included, txState>>

BookWithoutConflict(t) ==
    /\ Running(t, "register") /\ thread[t].register = {} /\ thread[t].conflicting = {}
    /\ Book(t, thread[t].inherited)

(* The transaction becomes a conflict itself. *)
BookConflict(t) ==
    /\ Running(t, "register") /\ thread[t].register = {} /\ thread[t].conflicting # {}
    /\ CreateConflict(t, thread[t].inherited, thread[t].conflicting)
    /\ thread' = [thread EXCEPT ![t].pc = "fork"]
    /\ UNCHANGED <<submitted, stored, booked, conflictIDs, firstConsumer, consumers, bookedRefs, lock,
                   included, txState, tasks>>

BookForked(t) ==
    /\ Running(t, "fork") /\ thread[t].fork = {}
    /\ t \notin unannounced
    /\ Book(t, {t})

-----------------------------------------------------------------------------
(* Forking the first consumers of the contested outputs. *)

(* Mutant: the complement. *)
MutantConflictingInputs(t, f) == Inputs[f] \ thread[t].conflicting

ConflictingInputs(t, f) == Inputs[f] \cap thread[t].conflicting

(* forkTransaction of an f that is no conflict yet; f stays locked. *)
ForkTransaction(t, f) ==
    /\ Running(t, "fork") /\ f \in thread[t].fork
    /\ t \notin unannounced /\ lock[f] = None
    /\ CreateConflict(f, conflictIDs[f], ConflictingInputs(t, f))
    /\ lock' = [lock EXCEPT ![f] = t]
    /\ thread' = [thread EXCEPT ![t].pc = "update", ![t].forked = f,
                                ![t].previous = conflictIDs[f]]
    /\ UNCHANGED <<submitted, stored, booked, conflictIDs, firstConsumer, consumers, bookedRefs,
                   included, txState, tasks>>

(* forkTransaction of an f that is a conflict already. *)
ForkConflicting(t, f) ==
    /\ Running(t, "fork") /\ f \in thread[t].fork
    /\ t \notin unannounced /\ lock[f] = None
    /\ \E last \in ConflictingInputs(t, f) :
            UpdateConflictingResources(f, ConflictingInputs(t, f), last)
    /\ thread' = [thread EXCEPT ![t].fork = @ \ {f}]
    /\ UNCHANGED <<submitted, stored, booked, conflictIDs, firstConsumer, consumers, bookedRefs, lock,
                   included, txState, tasks>>

(* Mutant: the forked conflict is not added. *)
MutantConflictIDsAfterFork(t, forked, previous) ==
    UnconfirmedConflicts(conflictIDs[t] \ previous)

(* The new ConflictIDs of updateConflictsAfterFork. *)
ConflictIDsAfterFork(t, forked, previous) ==
    UnconfirmedConflicts((conflictIDs[t] \ previous) \cup {forked})

(* updateConflictsAfterFork of the forked transaction itself, and its unlock. *)
UpdateForked(t) ==
    LET f == thread[t].forked IN
    /\ Running(t, "update") /\ f \notin unannounced
    /\ conflictIDs' = [conflictIDs EXCEPT ![f] = ConflictIDsAfterFork(f, f, thread[t].previous)]
    /\ lock' = Unlock({f})
    /\ thread' = [thread EXCEPT ![t].pc = "walk", ![t].outputs = OutputIDs(f)]
    /\ UNCHANGED <<dagVars, submitted, stored, booked, firstConsumer, consumers, bookedRefs,
                   included, txState, tasks>>

(* The walker of propagateForkedConflictToFutureCone loads the Consumers of its next output. *)
WalkOutput(t, o) ==
    /\ Running(t, "walk") /\ thread[t].visit = {} /\ o \in thread[t].outputs
    /\ thread' = [thread EXCEPT ![t].outputs = @ \ {o},
                                ![t].visit = ConsumersOf({o}) \ thread[t].seen]
    /\ UNCHANGED <<dagVars, submitted, stored, booked, conflictIDs, firstConsumer, consumers, bookedRefs,
                   lock, included, txState, tasks>>

(***************************************************************************)
(* propagateForkedConflictToFutureCone visits a consuming transaction d:   *)
(* it locks d, runs updateConflictsAfterFork and unlocks d.  The walk ends *)
(* at a conflict, which is re-parented, and at a transaction that has      *)
(* inherited the forked conflict already.                                  *)
(***************************************************************************)
PropagateForkedConflict(t, d) ==
    LET forked   == thread[t].forked
        previous == thread[t].previous
        Seen(pushed) == [thread EXCEPT ![t].visit = @ \ {d}, ![t].seen = @ \cup {d},
                                       ![t].outputs = @ \cup pushed]
    IN  /\ Running(t, "walk") /\ d \in thread[t].visit /\ lock[d] = None
        /\ \/ /\ IsConflicting(d) /\ forked \notin parents[d]
              /\ UpdateConflictParents(d, previous, forked)
              /\ thread' = Seen({})
              /\ UNCHANGED conflictIDs
           \/ /\ \/ d \notin stored
                 \/ IsConflicting(d) /\ forked \in parents[d]
                 \/ ~IsConflicting(d) /\ forked \in conflictIDs[d]
              /\ thread' = Seen({})
              /\ UNCHANGED <<dagVars, conflictIDs>>
           \/ /\ d \in stored /\ ~IsConflicting(d) /\ forked \notin conflictIDs[d]
              /\ conflictIDs' = [conflictIDs EXCEPT ![d] = ConflictIDsAfterFork(d, forked, previous)]
              /\ thread' = Seen(OutputIDs(d))
              /\ UNCHANGED dagVars
        /\ UNCHANGED <<submitted, stored, booked, firstConsumer, consumers, bookedRefs, lock,
                       included, txState, tasks>>

(* The walk is over: the next consumer to fork. *)
EndPropagation(t) ==
    /\ Running(t, "walk") /\ thread[t].visit = {} /\ thread[t].outputs = {}
    /\ thread' = [thread EXCEPT ![t].pc = "fork", ![t].fork = @ \ {thread[t].forked},
                                ![t].forked = None, ![t].previous = {}, ![t].seen = {}]
    /\ UNCHANGED <<dagVars, submitted, stored, booked, conflictIDs, firstConsumer, consumers, bookedRefs,
                   lock, included, txState, tasks>>

-----------------------------------------------------------------------------
(* Event handlers. *)

(* Mutant: the condition on IsBooked inverted. *)
MutantUnprocessedConsumingTransactions(O) ==
    {d \in TransactionID : \E o \in O : <<o, d>> \in bookedRefs}

UnprocessedConsumingTransactions(O) ==
    {d \in TransactionID : \E o \in O : <<o, d>> \in consumers \ bookedRefs}

(* processConsumingTransactions after TransactionBooked. *)
ProcessConsumingTransactions(t) ==
    /\ <<"Booked", t>> \in tasks
    /\ tasks' = (tasks \ {<<"Booked", t>>})
                    \cup ({"Process"} \X UnprocessedConsumingTransactions(OutputIDs(t)))
    /\ UNCHANGED <<dagVars, submitted, bookVars, included, txState>>

(* t and the future cone that the OutputIDs of the metadata lead to. *)
Pruned(t) == stored \cap Walk({t}, {e \in ConsumerEdges : e[1] \in stored})

(* pruneTransaction after TransactionInvalid.  It takes no lock. *)
PruneTransaction(t) ==
    LET pruned == Pruned(t) IN
    /\ <<"Invalid", t>> \in tasks
    /\ tasks' = tasks \ {<<"Invalid", t>>}
    /\ stored' = stored \ pruned
    /\ booked' = booked \ pruned
    /\ consumers' = {ref \in consumers : ref[2] \notin pruned}
    /\ bookedRefs' = {ref \in bookedRefs : ref[2] \notin pruned}
    /\ conflictIDs' = [x \in TransactionID |-> IF x \in pruned THEN {} ELSE conflictIDs[x]]
    /\ included' = included \ pruned
    /\ txState' = [x \in TransactionID |-> IF x \in pruned THEN Pending ELSE txState[x]]
    /\ UNCHANGED <<dagVars, submitted, firstConsumer, lock, thread>>

(* The consuming transactions for which triggerAcceptedEvent is called. *)
SkipsAcceptance(d) == IsAccepted(ConfirmationState(conflictIDs[d]))

CanAccept(t) == t \in included /\ txState[t] # Accepted

(* propagateAcceptanceToIncludedTransactions after ConflictAccepted. *)
PropagateAcceptance(t) ==
    LET accepted == Walk({t} \cap {x \in stored : CanAccept(x)},
                         {e \in ConsumerEdges : ~SkipsAcceptance(e[2]) /\ CanAccept(e[2])})
    IN  /\ <<"Accepted", t>> \in tasks
        /\ tasks' = tasks \ {<<"Accepted", t>>}
        /\ txState' = [x \in TransactionID |-> IF x \in accepted THEN Accepted ELSE txState[x]]
        /\ UNCHANGED <<dagVars, submitted, bookVars, included>>

(* propagatedRejectionToTransactions after ConflictRejected. *)
PropagateRejection(t) ==
    LET rejected == Walk({t} \cap {x \in stored : txState[x] # Rejected},
                         {e \in ConsumerEdges : txState[e[2]] # Rejected})
    IN  /\ <<"Rejected", t>> \in tasks
        /\ tasks' = tasks \ {<<"Rejected", t>>}
        /\ txState' = [x \in TransactionID |-> IF x \in rejected THEN Rejected ELSE txState[x]]
        /\ UNCHANGED <<dagVars, submitted, bookVars, included>>

-----------------------------------------------------------------------------
(* Consensus. *)

(* Mutant: leaves acceptance to the handler of ConflictAccepted. *)
MutantStateAfterInclusion(t) == txState[t]

StateAfterInclusion(t) ==
    IF IsAccepted(ConfirmationState(conflictIDs[t])) THEN Accepted ELSE txState[t]

(* SetTransactionInclusionTime, the first time; the gadget calls it for the      *)
(* transactions of accepted blocks, which are booked.                            *)
SetTransactionInclusionTime(t) ==
    /\ t \in (Includable \cap booked) \ included
    /\ included' = included \cup {t}
    /\ txState' = [txState EXCEPT ![t] = StateAfterInclusion(t)]
    /\ UNCHANGED <<dagVars, submitted, bookVars, tasks>>

(* Two transactions whose past cones do not spend the same output twice. *)
Compatible(t, u) ==
    \A x \in PastCone(t), y \in PastCone(u) : x # y => Inputs[x] \cap Inputs[y] = {}

(***************************************************************************)
(* The gadget accepts a conflict that enough blocks have voted for: they   *)
(* vote for the ConflictIDs of booked transactions.  Who votes for a       *)
(* transaction votes for its past cone, so the majorities behind two       *)
(* accepted conflicts, and behind one of them, do not contradict each      *)
(* other.                                                                  *)
(***************************************************************************)
AcceptConflict(t) ==
    /\ t \in booked \cap Stored /\ IsConflicting(t) /\ confirmationState[t] # Accepted
    /\ \A w \in {t} \cup AcceptedConflicts : Compatible(t, w)
    /\ SetConflictAccepted(t)
    /\ tasks' = tasks \cup {<<e.type, e.ID>> : e \in triggered'}
    /\ UNCHANGED <<submitted, bookVars, included, txState>>

-----------------------------------------------------------------------------
(* TriggerConflictCreated is the next step of the thread that created the conflict. *)
ThreadStep(t) ==
    \/ AbortProcessing(t) \/ InheritConflictIDs(t)
    \/ \E o \in OutputID : RegisterBookedConsumer(t, o) \/ WalkOutput(t, o)
    \/ BookWithoutConflict(t) \/ BookConflict(t) \/ BookForked(t)
    \/ \E f \in TransactionID : ForkTransaction(t, f) \/ ForkConflicting(t, f)
    \/ UpdateForked(t) \/ EndPropagation(t)
    \/ \E d \in TransactionID : PropagateForkedConflict(t, d)
    \/ TriggerConflictCreated(t) /\ UNCHANGED ledgerVars

HandlerStep(t) ==
    \/ ProcessTransaction(t) \/ ProcessConsumingTransactions(t) \/ PruneTransaction(t)
    \/ PropagateAcceptance(t) \/ PropagateRejection(t)

Progress == \E t \in TransactionID : ThreadStep(t) \/ HandlerStep(t)

Booking == Progress \/ \E t \in TransactionID : StoreTransaction(t)

Consensus == \E t \in TransactionID : SetTransactionInclusionTime(t) \/ AcceptConflict(t)

NextLedger == Booking \/ Consensus

(***************************************************************************)
(* While some thread can go on or some handler is waiting, the Go          *)
(* scheduler and the event loop run one of them.  Nothing is assumed about *)
(* which one: the work is finite.                                          *)
(***************************************************************************)
FairLedger == WF_vars(Progress)

SpecLedger == InitLedger /\ [][NextLedger]_vars /\ FairLedger

(* Booking alone: nothing is accepted. *)
SpecBooking == InitLedger /\ [][Booking]_vars /\ FairLedger

-----------------------------------------------------------------------------
(* Correctness. *)

Quiet == \A t \in TransactionID : Running(t, "idle")

(***************************************************************************)
(* Two booked transactions that spend the same output compete for it in    *)
(* the conflict DAG, whichever thread registered first.                    *)
(***************************************************************************)
DoubleSpendsConflict ==
    \A t, u \in booked : t # u =>
        \A o \in Inputs[t] \cap Inputs[u] : o \in conflictSetIDs[t] \cap conflictSetIDs[u]

(***************************************************************************)
(* When no thread is booking, the conflicts of a booked transaction and    *)
(* their ancestors are the contested transactions it builds on: no fork    *)
(* was missed by a transaction booked while it spread, and none was        *)
(* inherited by a transaction that does not depend on it.  An accepted     *)
(* conflict is merged to master, so what lies behind it does not count.    *)
(***************************************************************************)
ConflictsInherited ==
    LET open(edges) == {e \in edges : ~IsAccepted(confirmationState[e[1]])}
    IN  Quiet => \A t \in booked :
            UnconfirmedConflicts(Walk(conflictIDs[t], open(ParentEdges))) =
                UnconfirmedConflicts(Walk({t}, open(CreatorEdges)) \cap Stored)

(***************************************************************************)
(* In the end every stored transaction whose inputs are booked is booked:  *)
(* either it saw the outputs or their booking saw its Consumer references, *)
(* no two threads wait for each other, and what was refused was pruned.    *)
(***************************************************************************)
SolidEventuallyBooked == <>[](\A t \in stored : IsSolid(t) => t \in booked)

(***************************************************************************)
(* Inclusion and the acceptance of the conflict race, and each of the two  *)
(* looks for the other: a conflicting transaction that has both ends up    *)
(* accepted, whichever comes first.                                        *)
(***************************************************************************)
IncludedWinnerAccepted ==
    <>[](\A t \in included :
            IsConflicting(t) /\ IsAccepted(confirmationState[t]) => txState[t] = Accepted)

(***************************************************************************)
(* No booked transaction spends an output together with one that was       *)
(* created in its future cone.                                             *)
(***************************************************************************)
NoCausallyRelatedInputs ==
    \A t \in booked : \A o, p \in Inputs[t] :
        Creator[o] \notin Walk({d \in booked \ {t} : p \in Inputs[d]},
            {e \in booked \X booked : \E i \in Inputs[e[2]] : Creator[i] = e[1]})

(***************************************************************************)
(* The ledger uses the conflict DAG as it is meant to be used: whatever    *)
(* the threads do in between, it creates a conflict once, under conflicts  *)
(* that exist and for an output that is contested, re-parents conflicts    *)
(* without closing a cycle, and lets no accepted conflict join the         *)
(* competitors of another one.  One promise is not kept: a fork may be     *)
(* rejected while its walk is on the way, and reach a dependant too late.  *)
(***************************************************************************)
LateReparenting ==
    \E id \in ConflictID : \E added \in ConflictID \ parents[id], removed \in SUBSET parents[id] :
        /\ ReparentContract(id, removed, added) /\ ~InTime(id, added)
        /\ UpdateConflictParents(id, removed, added)

ImplementsDAG == InitDAG /\ [][NextDAG \/ LateReparenting]_dagVars

=============================================================================
