------------------------------- MODULE Peering -------------------------------
(***************************************************************************)
(* The neighbours of a node: the p2p Manager, which adds a neighbour for   *)
(* whoever asks, and the manual peering Manager, which has one goroutine   *)
(* per known peer that asks again and again.  Autopeering asks as well.    *)
(*                                                                         *)
(* The goroutines, the read loops of the neighbours, the senders, the API  *)
(* that adds and removes known peers and the shutdown run concurrently;    *)
(* NeighborAdded and NeighborRemoved are attached, so that their handlers  *)
(* run in any order.  Dialling and accepting are external: they succeed,   *)
(* or fail where the code lets them.                                       *)
(***************************************************************************)
EXTENDS Naturals, Sequences

CONSTANTS
    Peer,         \* peers, not the node itself
    Inbound,      \* the peers whose connections the node accepts, it dials the others
    MaxFailures,  \* bound: failed reads and writes
    MaxAdded,     \* bound: peers added to the known peers, the same again included
    AutoPeers     \* bound: the peers that autopeering asks for, once

ASSUME PeeringAssumption ==
    Inbound \subseteq Peer /\ AutoPeers \subseteq Peer /\ {MaxFailures, MaxAdded} \subseteq Nat

VARIABLES
    known,      \* manual peering: knownPeers
    status,     \* connStatus of the knownPeer
    removed,    \* peers whose removeCh is closed
    remover,    \* the RemovePeer or Stop call that holds knownPeersMutex
    manualStop, \* Stop of the manual peering manager: "no", "running", "done"
    caller,     \* the goroutines that call addNeighbor, one per peer and group
    neighbor,   \* p2p: the neighbours created for a peer, in their order
    neighbors,  \* the map of neighbours: the number of the one of a peer, or 0
    p2pStop,    \* Stop of the p2p manager: "no", "waiting", "dropping", "done"
    tasks,      \* NeighborAdded and NeighborRemoved of manual neighbours, to be handled
    failures, added, autos  \* what happened of, or is left to, the bounds

manualVars == <<known, status, removed, remover, manualStop>>
p2pVars == <<neighbor, neighbors, p2pStop>>
counters == <<failures, added, autos>>
vars == <<manualVars, caller, p2pVars, tasks, counters>>

Group == {"manual", "auto"}

(* Who removes: the peers to remove, the one it is at, and what it does next. *)
NotRemoving == [pc |-> "none", queue |-> {}, current |-> {}]

Init ==
    /\ known = {} /\ status = [p \in Peer |-> "disconnected"] /\ removed = {}
    /\ remover = NotRemoving /\ manualStop = "no"
    /\ caller = [p \in Peer |-> [g \in Group |-> "none"]]
    /\ neighbor = [p \in Peer |-> <<>>] /\ neighbors = [p \in Peer |-> 0] /\ p2pStop = "no"
    /\ tasks = {} /\ failures = 0 /\ added = 0 /\ autos = AutoPeers

-----------------------------------------------------------------------------
(* Neighbor.  disconnectOnce makes whoever closes it wait until the first has closed it. *)

IsOpen(p, n) == neighbor[p][n].closed = "no"

IsClosed(p, n) == neighbor[p][n].closed = "yes"

(* disconnect closes the streams ... *)
Closing(p, n) == [neighbor EXCEPT ![p][n].closed = "closing"]

(* ... and triggers Disconnected, on which addNeighbor has the neighbour deleted by its ID. *)
Disconnected(p, n) ==
    /\ neighbor[p][n].closed = "closing"
    /\ neighbor' = [neighbor EXCEPT ![p][n].closed = "yes"]
    /\ IF neighbor[p][n].hooked
       THEN /\ neighbors' = [neighbors EXCEPT ![p] = 0]
            /\ tasks' = IF neighbor[p][n].group = "manual" THEN tasks \cup {<<"removed", p, n>>} ELSE tasks
       ELSE UNCHANGED <<neighbors, tasks>>
    /\ UNCHANGED <<manualVars, caller, p2pStop, counters>>

(* A read of readLoop or a write of Send fails, from when the neighbour is in the map. *)
Fail(p, n) ==
    /\ failures < MaxFailures
    /\ IsOpen(p, n)
    /\ neighbor' = Closing(p, n)
    /\ failures' = failures + 1
    /\ UNCHANGED <<manualVars, caller, neighbors, p2pStop, tasks, added, autos>>

-----------------------------------------------------------------------------
(* addNeighbor of the p2p Manager, which holds stopMutex for reading. *)

Adding(p, g) == caller[p][g] \in {"connect", "set", "hook", "announce"}

At(p, g, pc) == caller[p][g] = pc

Go(p, g, pc) == caller' = [caller EXCEPT ![p][g] = pc]

(* AddOutbound and AddInbound return to the loop of keepPeerConnected, or to autopeering. *)
Return(p, g) == Go(p, g, IF g = "manual" THEN "select" ELSE "none")

(* A writer that waits keeps new readers out. *)
AddNeighbor(p, g) ==
    /\ At(p, g, "add")
    /\ p2pStop \in {"no", "done"}
    /\ IF p2pStop = "done" \/ neighbors[p] # 0 THEN Return(p, g) ELSE Go(p, g, "connect")
    /\ UNCHANGED <<manualVars, p2pVars, tasks, counters>>

(* dialPeer, or acceptPeer when the peer has dialled. *)
Connect(p, g) ==
    /\ At(p, g, "connect")
    /\ Go(p, g, "set")
    /\ UNCHANGED <<manualVars, p2pVars, tasks, counters>>

(* Mutant: the removal of a peer does not end the wait for its connection. *)
MutantGivesUp(p, g) == g = "auto" \/ p \notin Inbound

(* A timeout, except for the inbound connections of known peers; the context of a removed peer; *)
(* and ErrDuplicateAccept while the other group accepts the peer.                                *)
GivesUp(p, g) ==
    \/ g = "auto" \/ p \notin Inbound
    \/ p \in removed
    \/ \E h \in Group \ {g} : At(p, h, "connect")

ConnectFails(p, g) ==
    /\ At(p, g, "connect")
    /\ GivesUp(p, g)
    /\ Return(p, g)
    /\ UNCHANGED <<manualVars, p2pVars, tasks, counters>>

(* Mutant: what is in the map is replaced. *)
MutantTaken(p) == FALSE

(* Another group was faster. *)
Taken(p) == neighbors[p] # 0

SetNeighbor(p, g) ==
    /\ At(p, g, "set")
    /\ IF Taken(p)
       THEN Return(p, g) /\ UNCHANGED <<neighbor, neighbors>>
       ELSE /\ neighbor' = [neighbor EXCEPT ![p] = Append(@, [group |-> g, hooked |-> FALSE, closed |-> "no"])]
            /\ neighbors' = [neighbors EXCEPT ![p] = Len(neighbor[p]) + 1]
            /\ Go(p, g, "hook")
    /\ UNCHANGED <<manualVars, p2pStop, tasks, counters>>

(* The number of the neighbour that a caller is adding: its latest. *)
Latest(p, g) == CHOOSE n \in 1 .. Len(neighbor[p]) :
    /\ neighbor[p][n].group = g
    /\ \A m \in 1 .. Len(neighbor[p]) : neighbor[p][m].group = g => m <= n

(* Disconnected.Hook, and readLoop. *)
HookDisconnected(p, g) ==
    /\ At(p, g, "hook")
    /\ neighbor' = [neighbor EXCEPT ![p][Latest(p, g)].hooked = TRUE]
    /\ Go(p, g, "announce")
    /\ UNCHANGED <<manualVars, neighbors, p2pStop, tasks, counters>>

TriggerNeighborAdded(p, g) ==
    /\ At(p, g, "announce")
    /\ tasks' = IF g = "manual" THEN tasks \cup {<<"added", p, Latest(p, g)>>} ELSE tasks
    /\ Return(p, g)
    /\ UNCHANGED <<manualVars, p2pVars, counters>>

-----------------------------------------------------------------------------
(* The manual peering Manager. *)

(* knownPeersMutex. *)
Unlocked == remover.pc = "none"

(* addPeer, with the goroutine it starts. *)
AddPeer(p) ==
    /\ added < MaxAdded
    /\ manualStop = "no" /\ Unlocked /\ p \notin known
    /\ known' = known \cup {p}
    /\ status' = [status EXCEPT ![p] = "disconnected"]
    /\ removed' = removed \ {p}
    /\ Go(p, "manual", "select")
    /\ added' = added + 1
    /\ UNCHANGED <<remover, manualStop, p2pVars, tasks, failures, autos>>

(* The loop of keepPeerConnected: its first round, or another one when the ticker fires. *)
CheckStatus(p) ==
    /\ At(p, "manual", "select") /\ status[p] = "disconnected"
    /\ Go(p, "manual", "add")
    /\ UNCHANGED <<manualVars, p2pVars, tasks, counters>>

Done(p) ==
    /\ At(p, "manual", "select") /\ p \in removed
    /\ Go(p, "manual", "none")
    /\ UNCHANGED <<manualVars, p2pVars, tasks, counters>>

(* changeNeighborStatus, by onGossipNeighborAdded and onGossipNeighborRemoved. *)
ChangeNeighborStatus(t) ==
    /\ Unlocked
    /\ tasks' = tasks \ {t}
    /\ status' = IF t[2] \in known
                 THEN [status EXCEPT ![t[2]] = IF t[1] = "added" THEN "connected" ELSE "disconnected"]
                 ELSE status
    /\ UNCHANGED <<known, removed, remover, manualStop, caller, p2pVars, counters>>

RemovePeer(p) ==
    /\ manualStop = "no" /\ Unlocked /\ p \in known
    /\ remover' = [NotRemoving EXCEPT !.pc = "next", !.queue = {p}]
    /\ UNCHANGED <<known, status, removed, manualStop, caller, p2pVars, tasks, counters>>

(* Stop; the handlers it detaches in the end would find no known peer. *)
StopManual ==
    /\ manualStop = "no" /\ Unlocked
    /\ manualStop' = "running"
    /\ remover' = [NotRemoving EXCEPT !.pc = "next", !.queue = known]
    /\ UNCHANGED <<known, status, removed, caller, p2pVars, tasks, counters>>

(* removePeerByID: the peer is deleted and its removeCh closed ... *)
RemovePeerByID(p) ==
    /\ remover.pc = "next" /\ p \in remover.queue
    /\ known' = known \ {p}
    /\ removed' = removed \cup {p}
    /\ remover' = [pc |-> "wait", queue |-> remover.queue \ {p}, current |-> {p}]
    /\ UNCHANGED <<status, manualStop, caller, p2pVars, tasks, counters>>

(* Mutant: its goroutine is not waited for. *)
MutantIsDone(p) == TRUE

(* ... its doneCh is waited for ... *)
IsDone(p) == At(p, "manual", "none")

WaitDone(p) ==
    /\ remover.pc = "wait" /\ p \in remover.current
    /\ IsDone(p)
    /\ remover' = [remover EXCEPT !.pc = "drop"]
    /\ UNCHANGED <<known, status, removed, manualStop, caller, p2pVars, tasks, counters>>

(* The neighbour that DropNeighbor closes. *)
Dropped(p, g) == {n \in 1 .. Len(neighbor[p]) : n = neighbors[p] /\ neighbor[p][n].group = g}

(* ... and DropNeighbor closes its neighbour and waits. *)
DropNeighbor(p) ==
    /\ remover.pc = "drop" /\ p \in remover.current
    /\ \/ /\ \E n \in Dropped(p, "manual") : IsOpen(p, n) /\ neighbor' = Closing(p, n)
          /\ UNCHANGED remover
       \/ /\ \A n \in Dropped(p, "manual") : IsClosed(p, n)
          /\ remover' = [remover EXCEPT !.pc = "next", !.current = {}]
          /\ UNCHANGED neighbor
    /\ UNCHANGED <<known, status, removed, manualStop, caller, neighbors, p2pStop, tasks, counters>>

EndRemoval ==
    /\ remover.pc = "next" /\ remover.queue = {}
    /\ remover' = NotRemoving
    /\ manualStop' = IF manualStop = "running" THEN "done" ELSE manualStop
    /\ UNCHANGED <<known, status, removed, caller, p2pVars, tasks, counters>>

-----------------------------------------------------------------------------
(* Autopeering, and the shutdown. *)

(* IncomingPeering or OutgoingPeering. *)
Peering(p) ==
    /\ p \in autos
    /\ Go(p, "auto", "add")
    /\ autos' = autos \ {p}
    /\ UNCHANGED <<manualVars, p2pVars, tasks, failures, added>>

(* Dropped. *)
DropAuto(p) ==
    /\ \E n \in Dropped(p, "auto") : IsOpen(p, n) /\ neighbor' = Closing(p, n)
    /\ UNCHANGED <<manualVars, caller, neighbors, p2pStop, tasks, counters>>

(* The manual peering manager is stopped before the p2p manager. *)
StopP2P ==
    /\ manualStop = "done" /\ p2pStop = "no"
    /\ p2pStop' = "waiting"
    /\ UNCHANGED <<manualVars, caller, neighbor, neighbors, tasks, counters>>

NoReaders == \A p \in Peer, g \in Group : ~Adding(p, g)

LockStopMutex ==
    /\ p2pStop = "waiting" /\ NoReaders
    /\ p2pStop' = "dropping"
    /\ UNCHANGED <<manualVars, caller, neighbor, neighbors, tasks, counters>>

DropAllNeighbors ==
    LET present == {<<p, neighbors[p]>> : p \in {x \in Peer : neighbors[x] # 0}} IN
    /\ p2pStop = "dropping"
    /\ \/ \E e \in present : /\ IsOpen(e[1], e[2]) /\ neighbor' = Closing(e[1], e[2])
                             /\ UNCHANGED p2pStop
       \/ /\ \A e \in present : IsClosed(e[1], e[2])
          /\ p2pStop' = "done"
          /\ UNCHANGED neighbor
    /\ UNCHANGED <<manualVars, caller, neighbors, tasks, counters>>

-----------------------------------------------------------------------------

(* The steps that the goroutines take on their own. *)
CallerStep(p, g) ==
    \/ AddNeighbor(p, g) \/ SetNeighbor(p, g) \/ HookDisconnected(p, g) \/ TriggerNeighborAdded(p, g)

RemoverStep ==
    \/ \E p \in Peer : RemovePeerByID(p) \/ WaitDone(p) \/ DropNeighbor(p)
    \/ EndRemoval

P2PStopStep == LockStopMutex \/ DropAllNeighbors

Next ==
    \/ \E p \in Peer : \/ AddPeer(p) \/ RemovePeer(p) \/ CheckStatus(p) \/ Done(p)
                       \/ Peering(p) \/ DropAuto(p)
                       \/ \E g \in Group : CallerStep(p, g) \/ Connect(p, g) \/ ConnectFails(p, g)
                       \/ \E n \in 1 .. Len(neighbor[p]) : Fail(p, n) \/ Disconnected(p, n)
    \/ \E t \in tasks : ChangeNeighborStatus(t)
    \/ StopManual \/ RemoverStep \/ StopP2P \/ P2PStopStep

(***************************************************************************)
(* Goroutines that can go on do.  Dialling and accepting end where there   *)
(* is a timeout or a context to end them.  A select with a closed channel  *)
(* and a ticker is at the ticker every few seconds only, so that it takes  *)
(* the channel sooner or later.                                            *)
(***************************************************************************)
Fairness ==
    /\ \A p \in Peer : /\ WF_vars(CheckStatus(p)) /\ SF_vars(Done(p))
                       /\ \A g \in Group : WF_vars(CallerStep(p, g)) /\ WF_vars(ConnectFails(p, g))
                       /\ WF_vars(\E n \in 1 .. Len(neighbor[p]) : Disconnected(p, n))
    /\ WF_vars(\E t \in tasks : ChangeNeighborStatus(t))
    /\ WF_vars(RemoverStep) /\ WF_vars(P2PStopStep)

Spec == Init /\ [][Next]_vars /\ Fairness

(* The known peers are there: connections to them are established again and again. *)
SpecReachable == Spec /\ \A p \in Peer : SF_vars(Connect(p, "manual"))

-----------------------------------------------------------------------------
(* Correctness. *)

(* The state has its type. *)
PeeringTypeOK ==
    /\ known \subseteq Peer /\ removed \subseteq Peer /\ known \cap removed = {}
    /\ status \in [Peer -> {"connected", "disconnected"}]
    /\ remover \in [pc : {"none", "next", "wait", "drop"}, queue : SUBSET Peer, current : SUBSET Peer]
    /\ manualStop \in {"no", "running", "done"} /\ p2pStop \in {"no", "waiting", "dropping", "done"}
    /\ caller \in [Peer -> [Group -> {"none", "select", "add", "connect", "set", "hook", "announce"}]]
    /\ neighbor \in [Peer -> Seq([group : Group, hooked : BOOLEAN, closed : {"no", "closing", "yes"}])]
    /\ neighbors \in [Peer -> Nat]
    /\ \A p \in Peer : neighbors[p] <= Len(neighbor[p])
    /\ tasks \subseteq {"added", "removed"} \X Peer \X Nat
    /\ \A t \in tasks : t[3] \in 1 .. Len(neighbor[t[2]]) /\ neighbor[t[2]][t[3]].group = "manual"
    /\ failures \in 0 .. MaxFailures /\ added \in 0 .. MaxAdded /\ autos \subseteq AutoPeers

(***************************************************************************)
(* Two groups, and goroutines of a peer that was removed and added again,  *)
(* connect to the same peer, and a disconnected neighbour is deleted by    *)
(* its ID: a peer has at most one neighbour that is not closed, and that   *)
(* is the one in the map, which Send, DropNeighbor and Stop can reach.     *)
(***************************************************************************)
OneNeighborPerPeer ==
    \A p \in Peer : \A n \in 1 .. Len(neighbor[p]) : ~IsClosed(p, n) => neighbors[p] = n

(***************************************************************************)
(* removePeerByID ends the goroutine of the peer before it drops the       *)
(* neighbour, wherever the goroutine is: a peer that is no known peer      *)
(* (any more) has no manual neighbour with an open connection.             *)
(***************************************************************************)
RemovedPeersDisconnected ==
    \A p \in Peer \ (known \cup remover.current) :
        /\ At(p, "manual", "none")
        /\ \A n \in 1 .. Len(neighbor[p]) : neighbor[p][n].group = "manual" => ~IsOpen(p, n)

(***************************************************************************)
(* Stop of the p2p Manager waits for the neighbours that are being added:  *)
(* once it has returned no connection is open, and none is opened again.   *)
(***************************************************************************)
NoneAfterStop ==
    p2pStop = "done" => \A p \in Peer : /\ \A n \in 1 .. Len(neighbor[p]) : IsClosed(p, n)
                                        /\ \A g \in Group : ~Adding(p, g)

(***************************************************************************)
(* A goroutine that is connecting to a peer while the peer is removed, or  *)
(* while the managers are stopped, leaves no connection behind.            *)
(***************************************************************************)
DroppedStaysDisconnected == RemovedPeersDisconnected /\ NoneAfterStop

(***************************************************************************)
(* RemovePeer and Stop wait for a goroutine that may wait for a connection *)
(* without a timeout, with a lock that the handlers of the neighbours'     *)
(* events need; Stop of the p2p Manager waits for all that add neighbours: *)
(* all of them return.                                                     *)
(***************************************************************************)
RemovalAndStopReturn ==
    /\ remover.pc # "none" ~> remover.pc = "none"
    /\ p2pStop = "waiting" ~> p2pStop = "done"

(***************************************************************************)
(* manualpeering.go: "in case the connection with a manual peer fails it   *)
(* will reconnect."                                                        *)
(***************************************************************************)
Reconnects ==
    \A p \in Peer : <>[](p \in known) =>
        []<>(\E n \in 1 .. Len(neighbor[p]) : IsOpen(p, n))
=============================================================================
