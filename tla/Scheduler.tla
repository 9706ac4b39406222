------------------------------ MODULE Scheduler ------------------------------
(***************************************************************************)
(* The block scheduler of packages/core/mesh_old: a deficit round robin    *)
(* over per-issuer queues that hands out blocks whose parents have been    *)
(* scheduled or confirmed, and drops blocks when its buffer is full.       *)
(*                                                                         *)
(* bufferMutex makes Submit, Unsubmit, Ready and schedule atomic, so each  *)
(* is one action.  Between them run the main loop, the handlers of         *)
(* BlockProcessed and those of BlockAccepted: a tryReady call looks at the *)
(* parents in one step and calls Ready in a later one, and the main loop   *)
(* marks a block as scheduled after schedule has returned it.              *)
(***************************************************************************)
EXTENDS Mesh, Naturals, Sequences, FiniteSets

CONSTANTS
    Node,           \* issuers
    Issuer,         \* the issuer of a block
    IssuingTime,    \* its issuing time; different for blocks of one issuer
    Parents,        \* its parents
    BlockSize,      \* its size
    MaxBuffer,      \* BufferQueue.maxBuffer
    MaxBlockSize,   \* MaxDeficit, in units of size
    Unit,           \* deficits are counted in 1/Unit of size, so that all are integers
    TotalMana,      \* AccessManaCache.totalMana
    ManaVectors,    \* access mana vectors the cache may be refreshed with
    Threshold,      \* confirmedBlkThreshold
    MaxTime,        \* bound on the clock
    Confirmable,    \* bound: the blocks that may be confirmed
    None            \* no block

ASSUME SchedulerAssumption ==
    /\ IsFiniteSet(Block) /\ IsFiniteSet(Node)
    /\ Issuer \in [Block -> Node]
    /\ IssuingTime \in [Block -> Nat]
    /\ \A b, c \in Block : Issuer[b] = Issuer[c] /\ IssuingTime[b] = IssuingTime[c] => b = c
    /\ Parents \in [Block -> SUBSET Block]
    /\ BlockSize \in [Block -> 1 .. MaxBlockSize]
    /\ {MaxBuffer, MaxBlockSize, Threshold, MaxTime} \subseteq Nat
    /\ {Unit, TotalMana} \subseteq Nat \ {0}
    /\ ManaVectors # {} /\ ManaVectors \subseteq [Node -> Nat]
    /\ Confirmable \subseteq Block /\ None \notin Block

VARIABLES
    ring,       \* BufferQueue.ring from the current node on, and activeNode
    submitted,  \* NodeQueue.submitted of all nodes
    inbox,      \* NodeQueue.inbox of all nodes: the ready blocks
    size,       \* BufferQueue.size
    deficits,   \* Scheduler.deficits, a map from some nodes
    mana,       \* AccessManaCache.rawAccessManaVector
    now,        \* the clock
    stopped,    \* Shutdown was called
    exited,     \* the main loop has seen the shutdown signal
    scheduled,  \* BlockMetadata.Scheduled
    confirmed,  \* ConfirmationOracle.IsBlockConfirmed
    discarded,  \* BlockDiscarded was triggered
    handled,    \* blocks whose BlockProcessed handler has called Submit
    accepted,   \* blocks with a BlockAccepted handler still to run
    popped,     \* the block schedule has returned to the main loop
    trying,     \* tryReady calls to come, with their caller
    passed      \* tryReady calls that found the block ready

vars == <<ring, submitted, inbox, size, deficits, mana, now, stopped, exited, scheduled, confirmed,
          discarded, handled, accepted, popped, trying, passed>>
queueVars == <<ring, submitted, inbox, size, deficits>>

Caller == {"loop", "handler"}
MinMana == 1
MaxDeficit == MaxBlockSize * Unit

SchedulerTypeOK ==
    /\ ring \in Seq(Node)
    /\ submitted \subseteq Block /\ inbox \subseteq Block
    /\ size \in Nat
    /\ DOMAIN deficits \subseteq Node /\ \A n \in DOMAIN deficits : deficits[n] \in 0 .. MaxDeficit
    /\ mana \in ManaVectors
    /\ now \in 0 .. MaxTime /\ stopped \in BOOLEAN /\ exited \in BOOLEAN
    /\ {scheduled, confirmed, discarded, handled, accepted} \subseteq SUBSET Block
    /\ popped \in Block \cup {None}
    /\ trying \subseteq Caller \X Block /\ passed \subseteq Caller \X Block

Init ==
    /\ ring = <<>> /\ submitted = {} /\ inbox = {} /\ size = 0 /\ deficits = <<>>
    /\ mana \in ManaVectors
    /\ now = 0 /\ stopped = FALSE /\ exited = FALSE
    /\ scheduled = {} /\ confirmed = {} /\ discarded = {}
    /\ handled = {} /\ accepted = {} /\ popped = None /\ trying = {} /\ passed = {}

-----------------------------------------------------------------------------
(* Helpers. *)

Active == {ring[i] : i \in DOMAIN ring}

(* submit and schedule call RefreshCacheIfNecessary before they read the cache: an expired *)
(* cache takes a new vector, and the step works on it.                                      *)
RefreshCacheIfNecessary == mana' \in ManaVectors

GetCachedMana(n) == IF mana'[n] >= MinMana THEN mana'[n] ELSE MinMana

Quanta(n) == (GetCachedMana(n) * Unit) \div TotalMana

QueueOf(S, n) == {b \in S : Issuer[b] = n}

(* The first of a set of blocks of one issuer, by issuing time. *)
Oldest(S) == CHOOSE b \in S : \A c \in S : IssuingTime[b] <= IssuingTime[c]

Due(b) == IssuingTime[b] <= now

IsOld(b) == now > IssuingTime[b] + Threshold

Children(b) == {c \in Block : b \in Parents[c]}

isEligible(b) == b \in scheduled \cup confirmed

(* Mutant: one eligible parent is enough. *)
MutantIsReady(b) == Parents[b] = {} \/ \E p \in Parents[b] : isEligible(p)

isReady(b) == \A p \in Parents[b] : isEligible(p)

-----------------------------------------------------------------------------
(* The handler of BlockProcessed. *)

(* The block dropHead drops when S is not ready and R is ready: the older of the   *)
(* first ones in the longest mana-scaled queue, counted from the current node on.  *)
Dropped(nodes, S, R) ==
    LET length(i) == Cardinality(QueueOf(S \cup R, nodes[i]))
        longer(i, j) == length(i) * GetCachedMana(nodes[j]) > length(j) * GetCachedMana(nodes[i])
        longest == CHOOSE i \in DOMAIN nodes :
                        \A j \in DOMAIN nodes : IF j < i THEN longer(i, j) ELSE ~longer(j, i)
        waiting == QueueOf(S, nodes[longest])
        ready   == QueueOf(R, nodes[longest])
    IN  IF waiting # {} /\ (ready = {} \/ IssuingTime[Oldest(waiting)] < IssuingTime[Oldest(ready)])
        THEN Oldest(waiting)
        ELSE Oldest(ready)

(* Mutant: a dropped ready block does not leave the count. *)
MutantSizeAfterDrop(b) == IF b \in inbox THEN size + 1 ELSE size

(* size after Submit has inserted a block and dropHead has removed b. *)
SizeAfterDrop(b) == size

(***************************************************************************)
(* Submit.  The buffer exceeds its bound by one block at most, so dropHead *)
(* removes one.                                                            *)
(***************************************************************************)
Submit(b) ==
    LET nodes == IF Issuer[b] \in Active THEN ring ELSE Append(ring, Issuer[b])
        drop  == Dropped(nodes, submitted \cup {b}, inbox)
    IN  /\ ring' = nodes
        /\ IF size + 1 > MaxBuffer
           THEN /\ submitted' = (submitted \cup {b}) \ {drop}
                /\ inbox' = inbox \ {drop}
                /\ size' = SizeAfterDrop(drop)
                /\ discarded' = discarded \cup {drop}
           ELSE /\ submitted' = submitted \cup {b}
                /\ size' = size + 1
                /\ UNCHANGED <<inbox, discarded>>

(* A block has been processed; it is tried once Submit has returned. *)
BlockProcessed(b) ==
    /\ b \notin handled
    /\ handled' = handled \cup {b}
    /\ trying' = trying \cup {<<"handler", b>>}
    /\ IF stopped
       THEN UNCHANGED <<ring, submitted, inbox, size, discarded, mana>>
       ELSE RefreshCacheIfNecessary /\ Submit(b)
    /\ UNCHANGED <<deficits, now, stopped, exited, scheduled, confirmed, accepted, popped, passed>>

-----------------------------------------------------------------------------
(* tryReady. *)

CheckReady(caller, b) ==
    /\ <<caller, b>> \in trying
    /\ trying' = trying \ {<<caller, b>>}
    /\ passed' = IF isReady(b) THEN passed \cup {<<caller, b>>} ELSE passed
    /\ UNCHANGED <<queueVars, mana, now, stopped, exited, scheduled, confirmed, discarded, handled,
                   accepted, popped>>

(* Ready has no effect on a block that is not submitted. *)
Ready(caller, b) ==
    /\ <<caller, b>> \in passed
    /\ passed' = passed \ {<<caller, b>>}
    /\ submitted' = submitted \ {b}
    /\ inbox' = IF b \in submitted THEN inbox \cup {b} ELSE inbox
    /\ UNCHANGED <<ring, size, deficits, mana, now, stopped, exited, scheduled, confirmed, discarded,
                   handled, accepted, popped, trying>>

-----------------------------------------------------------------------------
(* The main loop. *)

(***************************************************************************)
(* updateActiveNodesList: a node without mana and without blocks leaves    *)
(* the ring together with its deficit, a node with mana and without a      *)
(* deficit joins at the end.                                               *)
(***************************************************************************)
StaysActive(n) == mana'[n] >= MinMana \/ QueueOf(submitted \cup inbox, n) # {}

KeptDeficits == {n \in DOMAIN deficits : StaysActive(n) \/ n \notin Active}

Joining == {n \in Node : mana'[n] >= MinMana} \ KeptDeficits

(* Orders in which the nodes of S may be appended, and the order of a set of positions. *)
Orders(S) == {s \in [1 .. Cardinality(S) -> S] : \A i, j \in DOMAIN s : s[i] = s[j] => i = j}
Increasing(S) == {f \in Orders(S) : \A i, j \in DOMAIN f : i < j => f[i] < f[j]}

(* The ring after updateActiveNodesList: the iteration over the mana vector has no order. *)
ActiveRings ==
    LET stay == {i \in DOMAIN ring : StaysActive(ring[i])}
        new  == Joining \ {ring[i] : i \in stay}
    IN  {[k \in DOMAIN f |-> ring[f[k]]] \o s : f \in Increasing(stay), s \in Orders(new)}

(* Ready blocks that schedule skips: confirmed and old ones at the front of a queue. *)
Skips(b) == Due(b) /\ b \in confirmed /\ IsOld(b)

Skipped == {b \in inbox : \A c \in inbox :
                Issuer[c] = Issuer[b] /\ IssuingTime[c] <= IssuingTime[b] => Skips(c)}

(* Mutant: only the current queue is looked at. *)
MutantCanSchedule(R, n) ==
    ring # <<>> /\ n = ring[1] /\ QueueOf(R, n) # {} /\ Due(Oldest(QueueOf(R, n)))

(* Node n could schedule its first block of the ready blocks R. *)
CanSchedule(R, n) == QueueOf(R, n) # {} /\ Due(Oldest(QueueOf(R, n)))

(* GetDeficit, once updateActiveNodesList has added and removed entries. *)
GetDeficit(n) == IF n \in KeptDeficits THEN deficits[n] ELSE 0

Cost(R, n) == BlockSize[Oldest(QueueOf(R, n))] * Unit

(* What n's deficit lacks for its next block. *)
Lacking(R, n) == IF Cost(R, n) > GetDeficit(n) THEN Cost(R, n) - GetDeficit(n) ELSE 0

(* The first node, from the current one on, that needs the fewest rounds. *)
IsSchedulingNode(nodes, R, s) ==
    LET rounds(i, j) == Lacking(R, nodes[i]) * GetCachedMana(nodes[j])  \* over both quanta
    IN  /\ CanSchedule(R, nodes[s])
        /\ \A j \in DOMAIN nodes \ {s} : CanSchedule(R, nodes[j]) =>
                IF j < s THEN rounds(s, j) < rounds(j, s) ELSE rounds(s, j) <= rounds(j, s)

(* Mutant: deficits grow without bound. *)
MutantCapped(d) == d

Capped(d) == IF d < MaxDeficit THEN d ELSE MaxDeficit

(***************************************************************************)
(* The deficits after nodes[s] has scheduled its block.  A node without an *)
(* entry has deficit 0 and gets an entry when its deficit is updated.      *)
(***************************************************************************)
DeficitsAfter(nodes, R, s) ==
    LET lack == Lacking(R, nodes[s])
        share(n) == (lack * GetCachedMana(n)) \div GetCachedMana(nodes[s])
        waited(n) == Capped(GetDeficit(n) + share(n))
        before == {nodes[i] : i \in 1 .. s - 1}
        after == {nodes[i] : i \in s + 1 .. Len(nodes)}
        updated == {nodes[s]} \cup before \cup (IF lack > 0 THEN after ELSE {})
    IN  [n \in KeptDeficits \cup Joining \cup updated |->
            CASE n = nodes[s] -> waited(n) - Cost(R, n)
              [] n \in before -> Capped(waited(n) + Quanta(n))
              [] n \in after  -> waited(n)
              [] OTHER        -> GetDeficit(n)]

(***************************************************************************)
(* schedule, called by the main loop when it is not at work on the last    *)
(* block.  Once Shutdown has closed the signal the loop may still choose   *)
(* the ticker before it exits.                                             *)
(***************************************************************************)
LoopIdle == ~exited /\ popped = None /\ \A b \in Block : <<"loop", b>> \notin trying \cup passed

Schedule ==
    /\ LoopIdle
    /\ RefreshCacheIfNecessary
    /\ \E nodes \in ActiveRings, R \in {inbox \ Skipped} :
        \/ /\ \A i \in DOMAIN nodes : ~CanSchedule(R, nodes[i])
           /\ inbox' = R
           /\ size' = size - Cardinality(Skipped)
           /\ ring' = nodes
           /\ deficits' = [n \in KeptDeficits \cup Joining |-> GetDeficit(n)]
           /\ UNCHANGED popped
        \/ \E s \in DOMAIN nodes :
           /\ IsSchedulingNode(nodes, R, s)
           /\ popped' = Oldest(QueueOf(R, nodes[s]))
           /\ inbox' = R \ {popped'}
           /\ size' = size - Cardinality(Skipped) - 1
           /\ ring' = SubSeq(nodes, s, Len(nodes)) \o SubSeq(nodes, 1, s - 1)
           /\ deficits' = DeficitsAfter(nodes, R, s)
    /\ UNCHANGED <<submitted, now, stopped, exited, scheduled, confirmed, discarded, handled,
                   accepted, trying, passed>>

(* Mutant: the children are not tried again. *)
MutantToUpdate(b) == {}

(* updateChildren tries the children one by one. *)
ToUpdate(b) == Children(b)

(* The main loop marks the block; the hook of BlockScheduled updates its children. *)
SetScheduled ==
    /\ popped # None
    /\ scheduled' = scheduled \cup {popped}
    /\ trying' = trying \cup ({"loop"} \X ToUpdate(popped))
    /\ popped' = None
    /\ UNCHANGED <<queueVars, mana, now, stopped, exited, confirmed, discarded, handled, accepted, passed>>

ExitLoop ==
    /\ LoopIdle /\ stopped /\ exited' = TRUE
    /\ UNCHANGED <<queueVars, mana, now, stopped, scheduled, confirmed, discarded, handled, accepted,
                   popped, trying, passed>>

-----------------------------------------------------------------------------
(* The handler of BlockAccepted. *)

OnBlockConfirmed(b) ==
    /\ b \in accepted
    /\ accepted' = accepted \ {b}
    /\ IF b \in scheduled
       THEN UNCHANGED <<submitted, size, trying>>
       ELSE /\ submitted' = IF IsOld(b) THEN submitted \ {b} ELSE submitted
            /\ size' = IF IsOld(b) /\ b \in submitted THEN size - 1 ELSE size
            /\ trying' = trying \cup ({"handler"} \X ToUpdate(b))
    /\ UNCHANGED <<ring, inbox, deficits, mana, now, stopped, exited, scheduled, confirmed, discarded,
                   handled, popped, passed>>

-----------------------------------------------------------------------------
(* The environment. *)

(* The gadget accepts a block and triggers BlockAccepted. *)
ConfirmBlock(b) ==
    /\ b \in Confirmable \ confirmed
    /\ confirmed' = confirmed \cup {b}
    /\ accepted' = accepted \cup {b}
    /\ UNCHANGED <<queueVars, mana, now, stopped, exited, scheduled, discarded, handled, popped, trying, passed>>

Tick ==
    /\ now < MaxTime /\ now' = now + 1
    /\ UNCHANGED <<queueVars, mana, stopped, exited, scheduled, confirmed, discarded, handled, accepted,
                   popped, trying, passed>>

Shutdown ==
    /\ ~stopped /\ stopped' = TRUE
    /\ UNCHANGED <<queueVars, mana, now, exited, scheduled, confirmed, discarded, handled, accepted,
                   popped, trying, passed>>

-----------------------------------------------------------------------------
LoopStep == Schedule \/ SetScheduled \/ \E b \in Block : CheckReady("loop", b) \/ Ready("loop", b)

HandlerStep == \E b \in Block : CheckReady("handler", b) \/ Ready("handler", b) \/ OnBlockConfirmed(b)

Next ==
    \/ LoopStep \/ HandlerStep
    \/ \E b \in Block : BlockProcessed(b) \/ ConfirmBlock(b)
    \/ Tick \/ Shutdown \/ ExitLoop

(* The ticker of the main loop and the event loop keep running, and so does the clock. *)
Spec == Init /\ [][Next]_vars /\ WF_vars(LoopStep) /\ WF_vars(HandlerStep) /\ WF_vars(Tick)

-----------------------------------------------------------------------------
(* Correctness. *)

(***************************************************************************)
(* The counter that decides about dropping is the number of blocks in the  *)
(* queues, and the buffer stays within its bound.                          *)
(***************************************************************************)
SizeConsistent ==
    /\ submitted \cap inbox = {}
    /\ size = Cardinality(submitted \cup inbox)
    /\ size <= MaxBuffer

(***************************************************************************)
(* Blocks are scheduled in causal order: a parent of a ready or scheduled  *)
(* block was scheduled or confirmed before.                                *)
(***************************************************************************)
ParentsEligible ==
    \A b \in inbox \cup scheduled \cup ({popped} \ {None}) : Parents[b] \subseteq scheduled \cup confirmed

(***************************************************************************)
(* No wake-up is lost between the parents' transitions and the tryReady    *)
(* calls: when nothing is under way, every block that still waits has a    *)
(* parent that is neither scheduled nor confirmed.                         *)
(***************************************************************************)
NoLostReady ==
    trying = {} /\ passed = {} /\ popped = None /\ accepted = {}
        => \A b \in submitted : ~isReady(b)

(* Ready blocks do not stay: the round robin reaches every queue. *)
ReadyBlocksLeave == <>[](stopped \/ inbox = {})
=============================================================================
