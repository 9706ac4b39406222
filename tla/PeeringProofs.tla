---------------------------- MODULE PeeringProofs ----------------------------
(***************************************************************************)
(* Proofs about the p2p Manager and the manual peering Manager: PeeringInv *)
(* is an inductive invariant, so neighbours are unique and removed peers   *)
(* stay disconnected for any set of peers, however they are reached and    *)
(* however often connections fail.                                         *)
(***************************************************************************)
EXTENDS Peering, TLAPS, WellFoundedInduction

-----------------------------------------------------------------------------
(* The inductive invariant. *)

(* addNeighbor announces, and hooks its handler to, a neighbour that it has created. *)
AddedExists ==
    \A p \in Peer, g \in Group :
        caller[p][g] \in {"hook", "announce"} =>
            \E n \in 1 .. Len(neighbor[p]) : neighbor[p][n].group = g

(* removePeerByID is at one peer, whose goroutine has ended once doneCh is closed. *)
RemoverAtOne ==
    /\ remover.pc \in {"none", "next"} => remover.current = {}
    /\ remover.pc \in {"wait", "drop"} => \E p \in Peer : remover.current = {p}
    /\ remover.pc = "drop" => \A p \in remover.current : At(p, "manual", "none")

(* Stop drops the neighbours when no addNeighbor is left, and lets no new one in. *)
NoneAddedWhileDropping ==
    p2pStop \in {"dropping", "done"} => \A p \in Peer, g \in Group : ~Adding(p, g)

PeeringInv ==
    /\ PeeringTypeOK /\ AddedExists /\ RemoverAtOne /\ NoneAddedWhileDropping
    /\ OneNeighborPerPeer /\ DroppedStaysDisconnected

-----------------------------------------------------------------------------
(* Lemmas about the neighbours of a peer. *)

Neighbor == [group : Group, hooked : BOOLEAN, closed : {"no", "closing", "yes"}]

(* The neighbours of every peer keep their number and their groups. *)
SameNeighbors ==
    \A p \in Peer : /\ Len(neighbor'[p]) = Len(neighbor[p])
                    /\ \A n \in 1 .. Len(neighbor[p]) : neighbor'[p][n].group = neighbor[p][n].group

(* A non-empty set of the first numbers has a greatest element. *)
LEMMA GreatestExists ==
    ASSUME NEW k \in Nat, NEW S \in SUBSET (1 .. k), S # {}
    PROVE  \E m \in S : \A n \in S : n <= m
<1> DEFINE T == {k - n : n \in S}
<1>1. T \subseteq Nat /\ T # {}
    <2>1. \A n \in S : k - n \in Nat
        OBVIOUS
    <2>2. \E n \in S : k - n \in T
        OBVIOUS
    <2> QED BY <2>1, <2>2
<1>2. PICK t \in T : \A s \in T : ~(<<s, t>> \in OpToRel(<, Nat))
    <2> HIDE DEF T
    <2> QED BY <1>1, NatLessThanWellFounded, WFMin
<1>3. PICK m \in S : t = k - m
    BY <1>2
<1>4. ASSUME NEW n \in S PROVE n <= m
    <2>1. k - n \in T /\ k - n \in Nat /\ t \in Nat
        BY <1>1, <1>2
    <2>2. ~(k - n < t)
        <3> HIDE DEF T
        <3> QED BY <1>2, <2>1 DEF OpToRel
    <2> QED BY <1>3, <2>2
<1> QED
    BY <1>4

(* The latest neighbour of a group is one of them. *)
LEMMA LatestIsOne ==
    ASSUME NEW p \in Peer, NEW g \in Group, neighbor[p] \in Seq(Neighbor),
           \E n \in 1 .. Len(neighbor[p]) : neighbor[p][n].group = g
    PROVE  Latest(p, g) \in 1 .. Len(neighbor[p]) /\ neighbor[p][Latest(p, g)].group = g
<1> DEFINE S == {n \in 1 .. Len(neighbor[p]) : neighbor[p][n].group = g}
<1>1. \E m \in S : \A n \in S : n <= m
    <2>1. Len(neighbor[p]) \in Nat /\ S \in SUBSET (1 .. Len(neighbor[p])) /\ S # {}
        OBVIOUS
    <2> HIDE DEF S
    <2> QED BY <2>1, GreatestExists
<1>2. \E m \in 1 .. Len(neighbor[p]) :
        /\ neighbor[p][m].group = g
        /\ \A n \in 1 .. Len(neighbor[p]) : neighbor[p][n].group = g => n <= m
    BY <1>1
<1> QED
    BY <1>2 DEF Latest

(* One neighbour is closed, or about to be. *)
LEMMA CloseOne ==
    ASSUME PeeringTypeOK, NEW p \in Peer, NEW k \in 1 .. Len(neighbor[p]), NEW c \in {"closing", "yes"},
           neighbor' = [neighbor EXCEPT ![p][k].closed = c]
    PROVE  /\ neighbor' \in [Peer -> Seq(Neighbor)] /\ SameNeighbors
           /\ neighbor'[p][k].closed = c /\ neighbor'[p][k].hooked = neighbor[p][k].hooked
           /\ \A q \in Peer : \A n \in 1 .. Len(neighbor[q]) :
                <<q, n>> # <<p, k>> => neighbor'[q][n] = neighbor[q][n]
<1>1. neighbor \in [Peer -> Seq(Neighbor)]
    BY DEF PeeringTypeOK, Neighbor
<1> DEFINE h == [neighbor[p][k] EXCEPT !.closed = c]
<1>2. neighbor' = [neighbor EXCEPT ![p] = [neighbor[p] EXCEPT ![k] = h]]
    OBVIOUS
<1>3. neighbor[p] \in Seq(Neighbor) /\ neighbor[p][k] \in Neighbor
    BY <1>1
<1>4. h \in Neighbor /\ h.group = neighbor[p][k].group /\ h.closed = c /\ h.hooked = neighbor[p][k].hooked
    BY <1>3 DEF Neighbor
<1> HIDE DEF h
<1>5. [neighbor[p] EXCEPT ![k] = h] \in Seq(Neighbor)
    BY <1>3, <1>4
<1>6. neighbor' \in [Peer -> Seq(Neighbor)]
    BY <1>1, <1>2, <1>5
<1>7. /\ Len(neighbor'[p]) = Len(neighbor[p])
      /\ neighbor'[p][k] = h
      /\ \A n \in 1 .. Len(neighbor[p]) : n # k => neighbor'[p][n] = neighbor[p][n]
      /\ \A q \in Peer : q # p => neighbor'[q] = neighbor[q]
    BY <1>1, <1>2, <1>5
<1> QED
    BY <1>4, <1>6, <1>7 DEF SameNeighbors

(* addNeighbor hooks its handler to a neighbour. *)
LEMMA HookOne ==
    ASSUME PeeringTypeOK, NEW p \in Peer, NEW k \in 1 .. Len(neighbor[p]),
           neighbor' = [neighbor EXCEPT ![p][k].hooked = TRUE]
    PROVE  /\ neighbor' \in [Peer -> Seq(Neighbor)] /\ SameNeighbors
           /\ \A q \in Peer : \A n \in 1 .. Len(neighbor[q]) :
                neighbor'[q][n].closed = neighbor[q][n].closed
<1>1. neighbor \in [Peer -> Seq(Neighbor)]
    BY DEF PeeringTypeOK, Neighbor
<1> DEFINE h == [neighbor[p][k] EXCEPT !.hooked = TRUE]
<1>2. neighbor' = [neighbor EXCEPT ![p] = [neighbor[p] EXCEPT ![k] = h]]
    OBVIOUS
<1>3. neighbor[p] \in Seq(Neighbor) /\ neighbor[p][k] \in Neighbor
    BY <1>1
<1>4. h \in Neighbor /\ h.group = neighbor[p][k].group /\ h.closed = neighbor[p][k].closed
    BY <1>3 DEF Neighbor
<1> HIDE DEF h
<1>5. [neighbor[p] EXCEPT ![k] = h] \in Seq(Neighbor)
    BY <1>3, <1>4
<1>6. neighbor' \in [Peer -> Seq(Neighbor)]
    BY <1>1, <1>2, <1>5
<1>7. /\ Len(neighbor'[p]) = Len(neighbor[p])
      /\ neighbor'[p][k] = h
      /\ \A n \in 1 .. Len(neighbor[p]) : n # k => neighbor'[p][n] = neighbor[p][n]
      /\ \A q \in Peer : q # p => neighbor'[q] = neighbor[q]
    BY <1>1, <1>2, <1>5
<1> QED
    BY <1>4, <1>6, <1>7 DEF SameNeighbors

-----------------------------------------------------------------------------
(* Every step preserves the invariant. *)

LEMMA InitEstablishes == Init => PeeringInv
    BY PeeringAssumption
       DEF Init, PeeringInv, PeeringTypeOK, AddedExists, RemoverAtOne, NoneAddedWhileDropping,
           OneNeighborPerPeer, DroppedStaysDisconnected, RemovedPeersDisconnected, NoneAfterStop,
           NotRemoving, Group, At, Adding, IsOpen, IsClosed

(* A goroutine goes on, and neighbours and locks are as before. *)
LEMMA CallerSteps ==
    ASSUME PeeringInv, NEW p \in Peer, NEW g \in Group,
           AddNeighbor(p, g) \/ Connect(p, g) \/ ConnectFails(p, g)
    PROVE  PeeringInv'
<1> USE DEF PeeringInv
<1>1. UNCHANGED <<manualVars, p2pVars, tasks, counters>>
    BY DEF AddNeighbor, Connect, ConnectFails
<1> DEFINE Goes(pc) == /\ caller' = [caller EXCEPT ![p][g] = pc]
                       /\ caller[p][g] \in {"add", "connect"}
                       /\ pc = "none" => g = "auto"
                       /\ pc = "connect" => p2pStop = "no"
                       /\ pc = "set" => caller[p][g] = "connect"
<1>2. PICK pc \in {"none", "select", "connect", "set"} : Goes(pc)
    <2>1. CASE Connect(p, g)
        <3>1. Goes("set")
            BY <2>1 DEF Connect, Go, At
        <3> QED BY <3>1
    <2>2. CASE ConnectFails(p, g) \/ (AddNeighbor(p, g) /\ Return(p, g))
        <3>1. Goes(IF g = "manual" THEN "select" ELSE "none")
            BY <2>2 DEF ConnectFails, AddNeighbor, Return, Go, At, Group
        <3> QED BY <3>1
    <2>3. CASE AddNeighbor(p, g) /\ ~Return(p, g)
        <3>1. Goes("connect")
            BY <2>3 DEF AddNeighbor, Go, At
        <3> QED BY <3>1
    <2> QED BY <2>1, <2>2, <2>3
<1>3. PeeringTypeOK'
    BY <1>1, <1>2 DEF PeeringTypeOK, manualVars, p2pVars, counters
<1>4. AddedExists'
    <2>1. \A q \in Peer, h \in Group : caller'[q][h] \in {"hook", "announce"} => caller'[q][h] = caller[q][h]
        BY <1>2 DEF PeeringTypeOK
    <2> QED BY <1>1, <2>1 DEF AddedExists, p2pVars
<1>5. RemoverAtOne'
    BY <1>1, <1>2 DEF RemoverAtOne, At, PeeringTypeOK, manualVars, Group
<1>6. NoneAddedWhileDropping'
    BY <1>1, <1>2 DEF NoneAddedWhileDropping, Adding, PeeringTypeOK, p2pVars, Group
<1>7. OneNeighborPerPeer'
    BY <1>1 DEF OneNeighborPerPeer, IsClosed, p2pVars
<1>8. DroppedStaysDisconnected'
    <2>1. RemovedPeersDisconnected'
        BY <1>1, <1>2 DEF DroppedStaysDisconnected, RemovedPeersDisconnected, At, IsOpen,
                          PeeringTypeOK, p2pVars, manualVars, Group
    <2>2. NoneAfterStop'
        BY <1>1, <1>6 DEF DroppedStaysDisconnected, NoneAfterStop, NoneAddedWhileDropping, IsClosed, p2pVars
    <2> QED BY <2>1, <2>2 DEF DroppedStaysDisconnected
<1> QED
    BY <1>3, <1>4, <1>5, <1>6, <1>7, <1>8

(* keepPeerConnected goes on or ends, autopeering asks for a peer. *)
LEMMA GoroutineSteps ==
    ASSUME PeeringInv, NEW p \in Peer, CheckStatus(p) \/ Done(p) \/ Peering(p)
    PROVE  PeeringInv'
<1> USE DEF PeeringInv
<1>1. UNCHANGED <<manualVars, p2pVars, tasks, failures, added>> /\ autos' \subseteq autos
    BY DEF CheckStatus, Done, Peering, counters
<1> DEFINE Goes(g, pc) == /\ caller' = [caller EXCEPT ![p][g] = pc]
                          /\ g = "manual" => caller[p]["manual"] = "select"
<1>2. PICK g \in Group, pc \in {"none", "add"} : Goes(g, pc)
    <2>1. CASE CheckStatus(p)
        <3>1. Goes("manual", "add")
            BY <2>1 DEF CheckStatus, Go, At
        <3> QED BY <3>1 DEF Group
    <2>2. CASE Done(p)
        <3>1. Goes("manual", "none")
            BY <2>2 DEF Done, Go, At
        <3> QED BY <3>1 DEF Group
    <2>3. CASE Peering(p)
        <3>1. Goes("auto", "add")
            BY <2>3 DEF Peering, Go
        <3> QED BY <3>1 DEF Group
    <2> QED BY <2>1, <2>2, <2>3
<1>3. PeeringTypeOK'
    BY <1>1, <1>2 DEF PeeringTypeOK, manualVars, p2pVars
<1>4. AddedExists'
    <2>1. \A q \in Peer, h \in Group : caller'[q][h] \in {"hook", "announce"} => caller'[q][h] = caller[q][h]
        BY <1>2 DEF PeeringTypeOK
    <2> QED BY <1>1, <2>1 DEF AddedExists, p2pVars
<1>5. RemoverAtOne'
    BY <1>1, <1>2 DEF RemoverAtOne, At, PeeringTypeOK, manualVars, Group
<1>6. NoneAddedWhileDropping'
    BY <1>1, <1>2 DEF NoneAddedWhileDropping, Adding, PeeringTypeOK, p2pVars, Group
<1>7. OneNeighborPerPeer'
    BY <1>1 DEF OneNeighborPerPeer, IsClosed, p2pVars
<1>8. DroppedStaysDisconnected'
    <2>1. RemovedPeersDisconnected'
        BY <1>1, <1>2 DEF DroppedStaysDisconnected, RemovedPeersDisconnected, At, IsOpen,
                          PeeringTypeOK, p2pVars, manualVars, Group
    <2>2. NoneAfterStop'
        BY <1>1, <1>6 DEF DroppedStaysDisconnected, NoneAfterStop, NoneAddedWhileDropping, IsClosed, p2pVars
    <2> QED BY <2>1, <2>2 DEF DroppedStaysDisconnected
<1> QED
    BY <1>3, <1>4, <1>5, <1>6, <1>7, <1>8

(* SetNeighbor puts a neighbour into the map of a peer that has none, so all earlier ones are closed. *)
LEMMA SetNeighborStep ==
    ASSUME PeeringInv, NEW p \in Peer, NEW g \in Group, SetNeighbor(p, g)
    PROVE  PeeringInv'
<1> USE DEF PeeringInv
<1>1. /\ UNCHANGED <<manualVars, p2pStop, tasks, counters>> /\ caller[p][g] = "set"
      /\ p2pStop \notin {"dropping", "done"}
      /\ g = "manual" => p \in known \cup remover.current
    BY DEF SetNeighbor, At, NoneAddedWhileDropping, Adding, DroppedStaysDisconnected, RemovedPeersDisconnected
<1>2. /\ neighbor \in [Peer -> Seq(Neighbor)] /\ neighbors \in [Peer -> Nat]
      /\ \A q \in Peer : Len(neighbor[q]) \in Nat /\ neighbors[q] <= Len(neighbor[q])
    <2>1. neighbor \in [Peer -> Seq(Neighbor)] /\ neighbors \in [Peer -> Nat]
        BY DEF PeeringTypeOK, Neighbor
    <2>2. \A q \in Peer : neighbors[q] <= Len(neighbor[q])
        BY DEF PeeringTypeOK
    <2> QED BY <2>1, <2>2
<1>3. CASE Taken(p)
    <2>1. UNCHANGED <<neighbor, neighbors>>
        BY <1>3 DEF SetNeighbor
    <2>2. PICK pc \in {"none", "select"} : caller' = [caller EXCEPT ![p][g] = pc] /\ (pc = "none" => g = "auto")
        BY <1>3 DEF SetNeighbor, Return, Go, Group
    <2>3. PeeringTypeOK'
        BY <1>1, <2>1, <2>2 DEF PeeringTypeOK, manualVars, counters
    <2>4. \A q \in Peer, h \in Group :
            /\ caller'[q][h] \in {"connect", "set", "hook", "announce"} => caller'[q][h] = caller[q][h]
            /\ h = "manual" /\ (q # p \/ g # "manual") => caller'[q][h] = caller[q][h]
        BY <2>2 DEF PeeringTypeOK
    <2>5. AddedExists'
        BY <2>1, <2>4 DEF AddedExists
    <2>6. RemoverAtOne'
        BY <1>1, <2>4 DEF RemoverAtOne, At, manualVars, Group, PeeringTypeOK
    <2>7. NoneAddedWhileDropping' /\ NoneAfterStop'
        BY <1>1 DEF NoneAddedWhileDropping, NoneAfterStop
    <2>8. OneNeighborPerPeer'
        BY <2>1 DEF OneNeighborPerPeer, IsClosed
    <2>9. RemovedPeersDisconnected'
        BY <1>1, <2>1, <2>4 DEF DroppedStaysDisconnected, RemovedPeersDisconnected, At, IsOpen, manualVars, Group
    <2> QED
        BY <2>3, <2>5, <2>6, <2>7, <2>8, <2>9 DEF DroppedStaysDisconnected
<1>4. CASE ~Taken(p)
    <2> DEFINE k == Len(neighbor[p]) + 1
               new == [group |-> g, hooked |-> FALSE, closed |-> "no"]
    <2>1. /\ neighbor' = [neighbor EXCEPT ![p] = Append(neighbor[p], new)]
          /\ neighbors' = [neighbors EXCEPT ![p] = k]
          /\ caller' = [caller EXCEPT ![p][g] = "hook"]
        BY <1>4 DEF SetNeighbor, Go
    <2>2. new \in Neighbor /\ new.group = g
        BY DEF Neighbor
    <2>3. \A n \in 1 .. Len(neighbor[p]) : neighbor[p][n].closed = "yes"
        BY <1>2, <1>4 DEF Taken, OneNeighborPerPeer, IsClosed
    <2> HIDE DEF new
    <2>4. /\ neighbor' \in [Peer -> Seq(Neighbor)] /\ Len(neighbor'[p]) = k /\ neighbor'[p][k] = new
          /\ \A n \in 1 .. Len(neighbor[p]) : neighbor'[p][n] = neighbor[p][n]
          /\ \A q \in Peer : q # p => neighbor'[q] = neighbor[q]
          /\ k \in Nat /\ k \in 1 .. k /\ \A n \in 1 .. k : n \in 1 .. Len(neighbor[p]) \/ n = k
          /\ 1 .. Len(neighbor[p]) \subseteq 1 .. k
        BY <1>2, <2>1, <2>2
    <2>5. /\ neighbors'[p] = k /\ \A q \in Peer : q # p => neighbors'[q] = neighbors[q]
          /\ neighbors' \in [Peer -> Nat]
        BY <1>2, <2>1, <2>4
    <2> HIDE DEF k
    <2>6. /\ caller' \in [Peer -> [Group -> {"none", "select", "add", "connect", "set", "hook", "announce"}]]
          /\ caller'[p][g] = "hook"
          /\ \A q \in Peer, h \in Group : <<q, h>> # <<p, g>> => caller'[q][h] = caller[q][h]
        BY <2>1 DEF PeeringTypeOK
    <2>7. PeeringTypeOK'
        <3>1. \A q \in Peer : neighbors'[q] <= Len(neighbor'[q])
            <4> SUFFICES ASSUME NEW q \in Peer PROVE neighbors'[q] <= Len(neighbor'[q])
                OBVIOUS
            <4>1. CASE q = p
                BY <2>4, <2>5, <4>1
            <4>2. CASE q # p
                BY <1>2, <2>4, <2>5, <4>2
            <4> QED BY <4>1, <4>2
        <3>2. \A q \in Peer : \A n \in 1 .. Len(neighbor[q]) :
                n \in 1 .. Len(neighbor'[q]) /\ neighbor'[q][n] = neighbor[q][n]
            BY <1>2, <2>4
        <3>3. \A t \in tasks : /\ t[2] \in Peer /\ t[3] \in 1 .. Len(neighbor[t[2]])
                               /\ neighbor[t[2]][t[3]].group = "manual"
            BY DEF PeeringTypeOK
        <3>4. \A t \in tasks' : t[3] \in 1 .. Len(neighbor'[t[2]]) /\ neighbor'[t[2]][t[3]].group = "manual"
            BY <1>1, <3>2, <3>3
        <3>5. neighbor' \in [Peer -> Seq([group : Group, hooked : BOOLEAN, closed : {"no", "closing", "yes"}])]
            BY <2>4 DEF Neighbor
        <3> QED BY <1>1, <2>5, <2>6, <3>1, <3>4, <3>5 DEF PeeringTypeOK, manualVars, counters
    <2>8. AddedExists'
        <3> SUFFICES ASSUME NEW q \in Peer, NEW h \in Group, caller'[q][h] \in {"hook", "announce"}
                     PROVE  \E n \in 1 .. Len(neighbor'[q]) : neighbor'[q][n].group = h
            BY DEF AddedExists
        <3>1. CASE q = p /\ h = g
            BY <1>2, <2>2, <2>4, <3>1
        <3>2. CASE q # p
            <4>1. neighbor'[q] = neighbor[q] /\ caller'[q][h] = caller[q][h]
                BY <2>4, <2>6, <3>2
            <4> QED BY <4>1 DEF AddedExists
        <3>3. CASE q = p /\ h # g
            <4>1. PICK n \in 1 .. Len(neighbor[p]) : neighbor[p][n].group = h
                BY <2>6, <3>3 DEF AddedExists
            <4>2. n \in 1 .. Len(neighbor'[p]) /\ neighbor'[p][n].group = h
                BY <1>2, <2>4, <4>1
            <4> QED BY <3>3, <4>2
        <3> QED BY <3>1, <3>2, <3>3
    <2>9. RemoverAtOne'
        BY <1>1, <2>6 DEF RemoverAtOne, At, manualVars, Group, PeeringTypeOK
    <2>10. NoneAddedWhileDropping' /\ NoneAfterStop'
        BY <1>1 DEF NoneAddedWhileDropping, NoneAfterStop
    <2>11. OneNeighborPerPeer'
        <3> SUFFICES ASSUME NEW q \in Peer, NEW n \in 1 .. Len(neighbor'[q]), neighbor'[q][n].closed # "yes"
                     PROVE  neighbors'[q] = n
            BY DEF OneNeighborPerPeer, IsClosed
        <3>1. CASE q = p
            <4>1. n \in 1 .. Len(neighbor[p]) \/ n = k
                BY <2>4, <3>1
            <4>2. n \notin 1 .. Len(neighbor[p])
                BY <2>3, <2>4, <3>1
            <4> QED BY <2>5, <3>1, <4>1, <4>2
        <3>2. CASE q # p
            <4>1. neighbor'[q] = neighbor[q] /\ neighbors'[q] = neighbors[q]
                BY <2>4, <2>5, <3>2
            <4> QED BY <4>1 DEF OneNeighborPerPeer, IsClosed
        <3> QED BY <3>1, <3>2
    <2>12. RemovedPeersDisconnected'
        <3> SUFFICES ASSUME NEW q \in Peer, q \notin known \cup remover.current
                     PROVE  /\ caller'[q]["manual"] = "none"
                            /\ \A n \in 1 .. Len(neighbor'[q]) :
                                neighbor'[q][n].group = "manual" => neighbor'[q][n].closed # "no"
            BY <1>1 DEF RemovedPeersDisconnected, At, IsOpen, manualVars
        <3>1. /\ caller[q]["manual"] = "none"
              /\ \A n \in 1 .. Len(neighbor[q]) : neighbor[q][n].group = "manual" => neighbor[q][n].closed # "no"
            BY DEF DroppedStaysDisconnected, RemovedPeersDisconnected, At, IsOpen
        <3>2. CASE q # p
            BY <2>4, <2>6, <3>1, <3>2 DEF Group
        <3>3. CASE q = p
            <4>1. g = "auto" /\ new.group # "manual" /\ caller'[p]["manual"] = "none"
                BY <1>1, <2>2, <2>6, <3>1, <3>3 DEF Group
            <4>2. ASSUME NEW n \in 1 .. Len(neighbor'[p]), neighbor'[p][n].group = "manual"
                  PROVE  neighbor'[p][n].closed # "no"
                BY <2>3, <2>4, <4>1, <4>2
            <4> QED BY <3>3, <4>1, <4>2
        <3> QED BY <3>2, <3>3
    <2> QED
        BY <2>7, <2>8, <2>9, <2>10, <2>11, <2>12 DEF DroppedStaysDisconnected
<1> QED
    BY <1>3, <1>4

(* The step after it: Disconnected.Hook and readLoop, or NeighborAdded. *)
LEMMA AnnounceSteps ==
    ASSUME PeeringInv, NEW p \in Peer, NEW g \in Group,
           HookDisconnected(p, g) \/ TriggerNeighborAdded(p, g)
    PROVE  PeeringInv'
<1> USE DEF PeeringInv
<1> DEFINE k == Latest(p, g)
<1>1. /\ UNCHANGED <<manualVars, neighbors, p2pStop, counters>> /\ caller[p][g] \in {"hook", "announce"}
      /\ g = "manual" => p \in known \cup remover.current
      /\ p2pStop \notin {"dropping", "done"}
    BY DEF HookDisconnected, TriggerNeighborAdded, At, p2pVars, DroppedStaysDisconnected,
           RemovedPeersDisconnected, NoneAddedWhileDropping, Adding
<1>2. neighbor \in [Peer -> Seq(Neighbor)]
    BY DEF PeeringTypeOK, Neighbor
<1>3. k \in 1 .. Len(neighbor[p]) /\ neighbor[p][k].group = g
    BY <1>1, <1>2, LatestIsOne DEF AddedExists
<1>4. /\ neighbor' \in [Peer -> Seq(Neighbor)] /\ SameNeighbors
      /\ \A q \in Peer : \A n \in 1 .. Len(neighbor[q]) : neighbor'[q][n].closed = neighbor[q][n].closed
    <2>1. CASE HookDisconnected(p, g)
        <3>1. neighbor' = [neighbor EXCEPT ![p][k].hooked = TRUE]
            BY <2>1 DEF HookDisconnected
        <3> HIDE DEF k
        <3> QED BY <1>3, <3>1, HookOne
    <2>2. CASE TriggerNeighborAdded(p, g)
        BY <1>2, <2>2 DEF TriggerNeighborAdded, p2pVars, SameNeighbors
    <2> QED BY <2>1, <2>2
<1>5. tasks' \subseteq tasks \cup {<<"added", p, k>>} /\ (tasks' # tasks => g = "manual")
    BY DEF HookDisconnected, TriggerNeighborAdded
<1>6. PICK pc \in {"none", "select", "announce"} :
        caller' = [caller EXCEPT ![p][g] = pc] /\ (pc = "none" => g = "auto")
    BY DEF HookDisconnected, TriggerNeighborAdded, Return, Go, Group
<1> HIDE DEF k
<1>7. /\ caller' \in [Peer -> [Group -> {"none", "select", "add", "connect", "set", "hook", "announce"}]]
      /\ caller'[p][g] = pc
      /\ \A q \in Peer, h \in Group : <<q, h>> # <<p, g>> => caller'[q][h] = caller[q][h]
    BY <1>6 DEF PeeringTypeOK
<1>8. PeeringTypeOK'
    <2>1. \A t \in tasks' : /\ t \in {"added", "removed"} \X Peer \X Nat
                            /\ t[3] \in 1 .. Len(neighbor[t[2]]) /\ neighbor[t[2]][t[3]].group = "manual"
        <3> SUFFICES ASSUME NEW t \in tasks', t \notin tasks
                     PROVE  /\ t \in {"added", "removed"} \X Peer \X Nat
                            /\ t[3] \in 1 .. Len(neighbor[t[2]]) /\ neighbor[t[2]][t[3]].group = "manual"
            BY DEF PeeringTypeOK
        <3>1. t = <<"added", p, k>> /\ g = "manual" /\ k \in Nat
            BY <1>3, <1>5
        <3> QED BY <1>3, <3>1
    <2>2. \A t \in tasks' : t[3] \in 1 .. Len(neighbor'[t[2]]) /\ neighbor'[t[2]][t[3]].group = "manual"
        BY <1>4, <2>1 DEF SameNeighbors
    <2>3. tasks' \subseteq {"added", "removed"} \X Peer \X Nat
        BY <2>1
    <2>4. \A q \in Peer : neighbors'[q] <= Len(neighbor'[q])
        BY <1>1, <1>4 DEF PeeringTypeOK, SameNeighbors
    <2>5. neighbor' \in [Peer -> Seq([group : Group, hooked : BOOLEAN, closed : {"no", "closing", "yes"}])]
        BY <1>4 DEF Neighbor
    <2> QED BY <1>1, <1>7, <2>2, <2>3, <2>4, <2>5 DEF PeeringTypeOK, manualVars, counters
<1>9. AddedExists'
    <2> SUFFICES ASSUME NEW q \in Peer, NEW h \in Group, caller'[q][h] \in {"hook", "announce"}
                 PROVE  \E n \in 1 .. Len(neighbor'[q]) : neighbor'[q][n].group = h
        BY DEF AddedExists
    <2>1. \E n \in 1 .. Len(neighbor[q]) : neighbor[q][n].group = h
        BY <1>1, <1>7 DEF AddedExists
    <2> QED BY <1>4, <2>1 DEF SameNeighbors
<1>10. RemoverAtOne'
    BY <1>1, <1>7 DEF RemoverAtOne, At, manualVars, Group, PeeringTypeOK
<1>11. NoneAddedWhileDropping' /\ NoneAfterStop'
    BY <1>1 DEF NoneAddedWhileDropping, NoneAfterStop
<1>12. OneNeighborPerPeer'
    BY <1>1, <1>4 DEF OneNeighborPerPeer, IsClosed, SameNeighbors
<1>13. RemovedPeersDisconnected'
    <2> SUFFICES ASSUME NEW q \in Peer, q \notin known \cup remover.current
                 PROVE  /\ caller'[q]["manual"] = "none"
                        /\ \A n \in 1 .. Len(neighbor'[q]) :
                            neighbor'[q][n].group = "manual" => neighbor'[q][n].closed # "no"
        BY <1>1 DEF RemovedPeersDisconnected, At, IsOpen, manualVars
    <2>1. /\ caller[q]["manual"] = "none"
          /\ \A n \in 1 .. Len(neighbor[q]) : neighbor[q][n].group = "manual" => neighbor[q][n].closed # "no"
        BY DEF DroppedStaysDisconnected, RemovedPeersDisconnected, At, IsOpen
    <2>2. caller'[q]["manual"] = "none"
        BY <1>1, <1>7, <2>1 DEF Group
    <2> QED BY <1>4, <2>1, <2>2 DEF SameNeighbors
<1> QED
    BY <1>8, <1>9, <1>10, <1>11, <1>12, <1>13 DEF DroppedStaysDisconnected

(* Whoever closes an open neighbour. *)
LEMMA ClosingSteps ==
    ASSUME PeeringInv, NEW p \in Peer, NEW k \in 1 .. Len(neighbor[p]), IsOpen(p, k),
           neighbor' = Closing(p, k), failures' \in 0 .. MaxFailures,
           UNCHANGED <<manualVars, caller, neighbors, p2pStop, tasks, added, autos>>
    PROVE  PeeringInv'
<1> USE DEF PeeringInv
<1>1. /\ neighbor' \in [Peer -> Seq(Neighbor)] /\ SameNeighbors
      /\ neighbor'[p][k].closed = "closing"
      /\ \A q \in Peer : \A n \in 1 .. Len(neighbor[q]) : <<q, n>> # <<p, k>> => neighbor'[q][n] = neighbor[q][n]
    BY CloseOne DEF Closing
<1>2. PeeringTypeOK'
    <2>1. \A t \in tasks : t[3] \in 1 .. Len(neighbor'[t[2]]) /\ neighbor'[t[2]][t[3]].group = "manual"
        BY <1>1 DEF PeeringTypeOK, SameNeighbors
    <2>2. \A q \in Peer : neighbors[q] <= Len(neighbor'[q])
        BY <1>1 DEF PeeringTypeOK, SameNeighbors
    <2>3. neighbor' \in [Peer -> Seq([group : Group, hooked : BOOLEAN, closed : {"no", "closing", "yes"}])]
        BY <1>1 DEF Neighbor
    <2> QED BY <2>1, <2>2, <2>3 DEF PeeringTypeOK, manualVars
<1>3. AddedExists'
    BY <1>1 DEF AddedExists, SameNeighbors
<1>4. RemoverAtOne' /\ NoneAddedWhileDropping'
    BY DEF RemoverAtOne, NoneAddedWhileDropping, At, Adding, manualVars
<1>5. OneNeighborPerPeer'
    BY <1>1 DEF OneNeighborPerPeer, IsClosed, IsOpen, SameNeighbors
<1>6. RemovedPeersDisconnected'
    BY <1>1 DEF DroppedStaysDisconnected, RemovedPeersDisconnected, At, IsOpen, SameNeighbors, manualVars
<1>7. NoneAfterStop'
    BY DEF DroppedStaysDisconnected, NoneAfterStop, IsClosed, IsOpen
<1> QED
    BY <1>2, <1>3, <1>4, <1>5, <1>6, <1>7 DEF DroppedStaysDisconnected

(* A closed neighbour leaves the map: by OneNeighborPerPeer it is the one that the map has. *)
LEMMA DisconnectedStep ==
    ASSUME PeeringInv, NEW p \in Peer, NEW k \in 1 .. Len(neighbor[p]), Disconnected(p, k)
    PROVE  PeeringInv'
<1> USE DEF PeeringInv
<1>1. UNCHANGED <<manualVars, caller, p2pStop, counters>> /\ neighbor[p][k].closed = "closing"
    BY DEF Disconnected
<1>2. /\ neighbor' \in [Peer -> Seq(Neighbor)] /\ SameNeighbors
      /\ neighbor'[p][k].closed = "yes"
      /\ \A q \in Peer : \A n \in 1 .. Len(neighbor[q]) : <<q, n>> # <<p, k>> => neighbor'[q][n] = neighbor[q][n]
    BY CloseOne DEF Disconnected
<1>3. /\ neighbors' \in [Peer -> Nat]
      /\ \A q \in Peer : neighbors'[q] = neighbors[q] \/ (q = p /\ neighbors'[q] = 0)
    <2>1. neighbors' \in {neighbors, [neighbors EXCEPT ![p] = 0]} /\ neighbors \in [Peer -> Nat]
        BY DEF Disconnected, PeeringTypeOK
    <2> QED BY <2>1
<1>4. tasks' \subseteq tasks \cup {<<"removed", p, k>>} /\ (tasks' # tasks => neighbor[p][k].group = "manual")
    BY DEF Disconnected
<1>5. PeeringTypeOK'
    <2>1. neighbor \in [Peer -> Seq(Neighbor)] /\ k \in Nat /\ \A q \in Peer : Len(neighbor[q]) \in Nat
        <3>1. neighbor \in [Peer -> Seq(Neighbor)]
            BY DEF PeeringTypeOK, Neighbor
        <3> QED BY <3>1
    <2>2. \A t \in tasks' : /\ t \in {"added", "removed"} \X Peer \X Nat
                            /\ t[3] \in 1 .. Len(neighbor[t[2]]) /\ neighbor[t[2]][t[3]].group = "manual"
        <3> SUFFICES ASSUME NEW t \in tasks', t \notin tasks
                     PROVE  /\ t \in {"added", "removed"} \X Peer \X Nat
                            /\ t[3] \in 1 .. Len(neighbor[t[2]]) /\ neighbor[t[2]][t[3]].group = "manual"
            BY DEF PeeringTypeOK
        <3>1. t = <<"removed", p, k>> /\ neighbor[p][k].group = "manual"
            BY <1>4
        <3> QED BY <2>1, <3>1
    <2>3. \A t \in tasks' : t[3] \in 1 .. Len(neighbor'[t[2]]) /\ neighbor'[t[2]][t[3]].group = "manual"
        BY <1>2, <2>2 DEF SameNeighbors
    <2>4. tasks' \subseteq {"added", "removed"} \X Peer \X Nat
        BY <2>2
    <2>5. \A q \in Peer : neighbors'[q] <= Len(neighbor'[q])
        <3> SUFFICES ASSUME NEW q \in Peer PROVE neighbors'[q] <= Len(neighbor'[q])
            OBVIOUS
        <3>1. neighbors[q] <= Len(neighbor[q]) /\ Len(neighbor'[q]) = Len(neighbor[q])
            BY <1>2 DEF PeeringTypeOK, SameNeighbors
        <3>2. neighbors'[q] = neighbors[q] \/ neighbors'[q] = 0
            BY <1>3
        <3>3. Len(neighbor[q]) \in Nat
            BY <2>1
        <3> QED BY <3>1, <3>2, <3>3
    <2>6. neighbor' \in [Peer -> Seq([group : Group, hooked : BOOLEAN, closed : {"no", "closing", "yes"}])]
        BY <1>2 DEF Neighbor
    <2> QED BY <1>1, <1>3, <2>3, <2>4, <2>5, <2>6 DEF PeeringTypeOK, manualVars, counters
<1>6. AddedExists'
    BY <1>1, <1>2 DEF AddedExists, SameNeighbors
<1>7. RemoverAtOne' /\ NoneAddedWhileDropping'
    BY <1>1 DEF RemoverAtOne, NoneAddedWhileDropping, At, Adding, manualVars
<1>8. OneNeighborPerPeer'
    <2> SUFFICES ASSUME NEW q \in Peer, NEW n \in 1 .. Len(neighbor[q]), neighbor'[q][n].closed # "yes"
                 PROVE  neighbors'[q] = n
        BY <1>2 DEF OneNeighborPerPeer, IsClosed, SameNeighbors
    <2>1. <<q, n>> # <<p, k>> /\ neighbors[q] = n
        BY <1>2 DEF OneNeighborPerPeer, IsClosed
    <2>2. neighbors[p] = k
        BY <1>1 DEF OneNeighborPerPeer, IsClosed
    <2> QED BY <1>3, <2>1, <2>2
<1>9. RemovedPeersDisconnected'
    BY <1>1, <1>2 DEF DroppedStaysDisconnected, RemovedPeersDisconnected, At, IsOpen, SameNeighbors, manualVars
<1>10. NoneAfterStop'
    BY <1>1 DEF DroppedStaysDisconnected, NoneAfterStop, IsClosed
<1> QED
    BY <1>5, <1>6, <1>7, <1>8, <1>9, <1>10 DEF DroppedStaysDisconnected

(* The manual peering manager: known peers come and go, the remover goes from peer to peer. *)
LEMMA AddPeerStep ==
    ASSUME PeeringInv, NEW p \in Peer, AddPeer(p)
    PROVE  PeeringInv'
<1> USE DEF PeeringInv
<1>1. /\ UNCHANGED <<remover, manualStop, p2pVars, tasks, failures, autos>>
      /\ caller' = [caller EXCEPT ![p]["manual"] = "select"] /\ remover.pc = "none"
      /\ known' = known \cup {p} /\ removed' = removed \ {p}
    BY DEF AddPeer, Go, Unlocked
<1>2. /\ caller' \in [Peer -> [Group -> {"none", "select", "add", "connect", "set", "hook", "announce"}]]
      /\ caller'[p]["manual"] = "select"
      /\ \A q \in Peer, h \in Group : <<q, h>> # <<p, "manual">> => caller'[q][h] = caller[q][h]
    BY <1>1 DEF PeeringTypeOK, Group
<1>3. PeeringTypeOK'
    <2>1. status' \in [Peer -> {"connected", "disconnected"}] /\ added' \in 0 .. MaxAdded
        BY PeeringAssumption DEF AddPeer, PeeringTypeOK
    <2> QED BY <1>1, <1>2, <2>1 DEF PeeringTypeOK, p2pVars
<1>4. AddedExists'
    BY <1>1, <1>2 DEF AddedExists, p2pVars
<1>5. RemoverAtOne'
    BY <1>1 DEF RemoverAtOne
<1>6. NoneAddedWhileDropping'
    BY <1>1, <1>2 DEF NoneAddedWhileDropping, Adding, p2pVars
<1>7. OneNeighborPerPeer'
    BY <1>1 DEF OneNeighborPerPeer, IsClosed, p2pVars
<1>8. RemovedPeersDisconnected'
    BY <1>1, <1>2 DEF DroppedStaysDisconnected, RemovedPeersDisconnected, At, IsOpen, p2pVars, Group
<1>9. NoneAfterStop'
    BY <1>1, <1>6 DEF DroppedStaysDisconnected, NoneAfterStop, NoneAddedWhileDropping, IsClosed, p2pVars
<1> QED
    BY <1>3, <1>4, <1>5, <1>6, <1>7, <1>8, <1>9 DEF DroppedStaysDisconnected

LEMMA ChangeNeighborStatusStep ==
    ASSUME PeeringInv, NEW t \in tasks, ChangeNeighborStatus(t)
    PROVE  PeeringInv'
<1> USE DEF PeeringInv
<1>1. UNCHANGED <<known, removed, remover, manualStop, caller, p2pVars, counters>> /\ tasks' \subseteq tasks
    BY DEF ChangeNeighborStatus
<1>2. status' \in [Peer -> {"connected", "disconnected"}]
    BY DEF ChangeNeighborStatus, PeeringTypeOK
<1>3. PeeringTypeOK'
    BY <1>1, <1>2 DEF PeeringTypeOK, p2pVars, counters
<1>4. AddedExists' /\ RemoverAtOne' /\ NoneAddedWhileDropping' /\ OneNeighborPerPeer'
    BY <1>1 DEF AddedExists, RemoverAtOne, NoneAddedWhileDropping, OneNeighborPerPeer, At, Adding, IsClosed, p2pVars
<1>5. DroppedStaysDisconnected'
    BY <1>1 DEF DroppedStaysDisconnected, RemovedPeersDisconnected, NoneAfterStop, At, Adding, IsClosed, IsOpen, p2pVars
<1> QED
    BY <1>3, <1>4, <1>5

LEMMA RemoverSteps ==
    ASSUME PeeringInv,
           \/ \E p \in Peer : RemovePeer(p) \/ RemovePeerByID(p) \/ WaitDone(p)
           \/ StopManual \/ EndRemoval
    PROVE  PeeringInv'
<1> USE DEF PeeringInv
<1>1. UNCHANGED <<status, caller, p2pVars, tasks, counters>>
    BY DEF RemovePeer, StopManual, RemovePeerByID, WaitDone, EndRemoval
<1>2. /\ known' \subseteq known /\ removed' \subseteq Peer /\ known' \cap removed' = {}
      /\ remover' \in [pc : {"none", "next", "wait", "drop"}, queue : SUBSET Peer, current : SUBSET Peer]
      /\ manualStop' \in {"no", "running", "done"}
    <2>1. CASE \E p \in Peer : RemovePeer(p)
        <3>1. PICK p \in Peer : remover' = [pc |-> "next", queue |-> {p}, current |-> {}]
            BY <2>1 DEF RemovePeer, NotRemoving
        <3> QED BY <2>1, <3>1 DEF RemovePeer, PeeringTypeOK
    <2>2. CASE StopManual
        BY <2>2 DEF StopManual, NotRemoving, PeeringTypeOK
    <2>3. CASE \E p \in Peer : RemovePeerByID(p)
        BY <2>3 DEF RemovePeerByID, PeeringTypeOK
    <2>4. CASE \E p \in Peer : WaitDone(p)
        BY <2>4 DEF WaitDone, PeeringTypeOK
    <2>5. CASE EndRemoval
        BY <2>5 DEF EndRemoval, NotRemoving, PeeringTypeOK
    <2> QED BY <2>1, <2>2, <2>3, <2>4, <2>5
<1>3. PeeringTypeOK'
    BY <1>1, <1>2 DEF PeeringTypeOK, p2pVars, counters
<1>4. AddedExists' /\ NoneAddedWhileDropping' /\ OneNeighborPerPeer'
    BY <1>1 DEF AddedExists, NoneAddedWhileDropping, OneNeighborPerPeer, Adding, IsClosed, p2pVars
<1>5. RemoverAtOne' /\ known \cup remover.current \subseteq known' \cup remover'.current
    <2>1. CASE (\E p \in Peer : RemovePeer(p)) \/ StopManual
        BY <2>1 DEF RemovePeer, StopManual, Unlocked, NotRemoving, RemoverAtOne
    <2>2. CASE \E p \in Peer : RemovePeerByID(p)
        BY <2>2 DEF RemovePeerByID, RemoverAtOne
    <2>3. ASSUME NEW p \in Peer, WaitDone(p)
          PROVE  RemoverAtOne' /\ known \cup remover.current \subseteq known' \cup remover'.current
        <3>1. remover' = [remover EXCEPT !.pc = "drop"] /\ UNCHANGED known
            BY <2>3 DEF WaitDone
        <3>2. remover'.pc = "drop" /\ remover'.current = remover.current
            BY <3>1 DEF PeeringTypeOK
        <3>3. PICK q \in Peer : remover.current = {q}
            BY <2>3 DEF WaitDone, RemoverAtOne
        <3>4. At(p, "manual", "none") /\ q = p
            BY <2>3, <3>3 DEF WaitDone, IsDone
        <3> QED BY <1>1, <3>1, <3>2, <3>3, <3>4 DEF RemoverAtOne, At
    <2>4. CASE EndRemoval
        BY <2>4 DEF EndRemoval, NotRemoving, RemoverAtOne
    <2> QED BY <2>1, <2>2, <2>3, <2>4
<1>6. RemovedPeersDisconnected'
    BY <1>1, <1>5 DEF DroppedStaysDisconnected, RemovedPeersDisconnected, At, IsOpen, p2pVars
<1>7. NoneAfterStop'
    BY <1>1 DEF DroppedStaysDisconnected, NoneAfterStop, Adding, IsClosed, p2pVars
<1> QED
    BY <1>3, <1>4, <1>5, <1>6, <1>7 DEF DroppedStaysDisconnected

(* DropNeighbor returns when the neighbour in the map is closed, and there is no other open one. *)
LEMMA DropNeighborStep ==
    ASSUME PeeringInv, NEW p \in Peer, DropNeighbor(p)
    PROVE  PeeringInv'
<1> USE DEF PeeringInv
<1>1. CASE \E n \in Dropped(p, "manual") : IsOpen(p, n) /\ neighbor' = Closing(p, n) /\ UNCHANGED remover
    <2>1. PICK n \in 1 .. Len(neighbor[p]) : IsOpen(p, n) /\ neighbor' = Closing(p, n) /\ UNCHANGED remover
        BY <1>1 DEF Dropped
    <2>2. /\ UNCHANGED <<manualVars, caller, neighbors, p2pStop, tasks, added, autos>>
          /\ failures' \in 0 .. MaxFailures
        BY <2>1 DEF DropNeighbor, manualVars, counters, PeeringTypeOK
    <2> QED BY <2>1, <2>2, ClosingSteps
<1>2. CASE /\ \A n \in Dropped(p, "manual") : IsClosed(p, n)
           /\ remover' = [remover EXCEPT !.pc = "next", !.current = {}]
           /\ UNCHANGED neighbor
    <2>1. UNCHANGED <<known, status, removed, manualStop, caller, p2pVars, tasks, counters>>
        BY <1>2 DEF DropNeighbor, p2pVars
    <2>2. /\ remover' \in [pc : {"none", "next", "wait", "drop"}, queue : SUBSET Peer, current : SUBSET Peer]
          /\ remover'.pc = "next" /\ remover'.current = {}
        BY <1>2 DEF PeeringTypeOK
    <2>3. remover.current = {p} /\ At(p, "manual", "none")
        BY DEF DropNeighbor, RemoverAtOne
    <2>4. PeeringTypeOK'
        BY <2>1, <2>2 DEF PeeringTypeOK, p2pVars, counters
    <2>5. AddedExists' /\ NoneAddedWhileDropping' /\ OneNeighborPerPeer' /\ RemoverAtOne'
        BY <2>1, <2>2 DEF AddedExists, NoneAddedWhileDropping, OneNeighborPerPeer, RemoverAtOne, Adding, IsClosed, p2pVars
    <2>6. \A n \in 1 .. Len(neighbor[p]) : neighbor[p][n].group = "manual" => ~IsOpen(p, n)
        BY <1>2 DEF Dropped, OneNeighborPerPeer, IsOpen, IsClosed
    <2>7. RemovedPeersDisconnected'
        BY <2>1, <2>2, <2>3, <2>6 DEF DroppedStaysDisconnected, RemovedPeersDisconnected, At, IsOpen, p2pVars
    <2>8. NoneAfterStop'
        BY <2>1 DEF DroppedStaysDisconnected, NoneAfterStop, Adding, IsClosed, p2pVars
    <2> QED
        BY <2>4, <2>5, <2>7, <2>8 DEF DroppedStaysDisconnected
<1> QED
    BY <1>1, <1>2 DEF DropNeighbor

(* Stop of the p2p manager: it waits for the readers of stopMutex, and drops what is in the map. *)
LEMMA StopSteps ==
    ASSUME PeeringInv, StopP2P \/ LockStopMutex \/ DropAllNeighbors
    PROVE  PeeringInv'
<1> USE DEF PeeringInv
<1>1. CASE UNCHANGED neighbor
    <2>1. UNCHANGED <<manualVars, caller, neighbors, tasks, counters>> /\ p2pStop' \in {"no", "waiting", "dropping", "done"}
        BY <1>1 DEF StopP2P, LockStopMutex, DropAllNeighbors, PeeringTypeOK
    <2>2. PeeringTypeOK'
        BY <1>1, <2>1 DEF PeeringTypeOK, manualVars, counters
    <2>3. AddedExists' /\ OneNeighborPerPeer' /\ RemoverAtOne'
        BY <1>1, <2>1 DEF AddedExists, OneNeighborPerPeer, RemoverAtOne, IsClosed, At, manualVars
    <2>4. RemovedPeersDisconnected'
        BY <1>1, <2>1 DEF DroppedStaysDisconnected, RemovedPeersDisconnected, At, IsOpen, manualVars
    <2>5. NoneAddedWhileDropping'
        BY <2>1 DEF StopP2P, LockStopMutex, DropAllNeighbors, NoReaders, NoneAddedWhileDropping, Adding
    <2>6. NoneAfterStop'
        <3> SUFFICES ASSUME p2pStop' = "done", NEW q \in Peer, NEW n \in 1 .. Len(neighbor[q])
                     PROVE  neighbor[q][n].closed = "yes"
            BY <1>1, <2>5 DEF NoneAfterStop, NoneAddedWhileDropping, IsClosed
        <3>1. CASE p2pStop = "done"
            BY <3>1 DEF DroppedStaysDisconnected, NoneAfterStop, IsClosed
        <3>2. CASE p2pStop # "done"
            <4>1. \A e \in {<<x, neighbors[x]>> : x \in {y \in Peer : neighbors[y] # 0}} : IsClosed(e[1], e[2])
                BY <3>2 DEF StopP2P, LockStopMutex, DropAllNeighbors
            <4>2. neighbors[q] # 0 => neighbor[q][neighbors[q]].closed = "yes"
                <5>1. ASSUME neighbors[q] # 0
                      PROVE  IsClosed(<<q, neighbors[q]>>[1], <<q, neighbors[q]>>[2])
                    BY <4>1, <5>1
                <5> QED BY <5>1 DEF IsClosed
            <4>3. n # 0 /\ (neighbor[q][n].closed # "yes" => neighbors[q] = n)
                BY DEF OneNeighborPerPeer, IsClosed
            <4> QED BY <4>2, <4>3
        <3> QED BY <3>1, <3>2
    <2> QED
        BY <2>2, <2>3, <2>4, <2>5, <2>6 DEF DroppedStaysDisconnected
<1>2. CASE ~UNCHANGED neighbor
    <2>1. PICK p \in Peer : /\ neighbors[p] # 0 /\ IsOpen(p, neighbors[p])
                            /\ neighbor' = Closing(p, neighbors[p]) /\ UNCHANGED p2pStop
        BY <1>2 DEF StopP2P, LockStopMutex, DropAllNeighbors
    <2>2. neighbors[p] \in 1 .. Len(neighbor[p])
        BY <2>1 DEF PeeringTypeOK
    <2>3. /\ UNCHANGED <<manualVars, caller, neighbors, p2pStop, tasks, added, autos>>
          /\ failures' \in 0 .. MaxFailures
        BY <1>2, <2>1 DEF StopP2P, LockStopMutex, DropAllNeighbors, counters, PeeringTypeOK
    <2> QED BY <2>1, <2>2, <2>3, ClosingSteps
<1> QED
    BY <1>1, <1>2

LEMMA StepPreserves == PeeringInv /\ [Next]_vars => PeeringInv'
<1> SUFFICES ASSUME PeeringInv, [Next]_vars PROVE PeeringInv'
    OBVIOUS
<1>1. CASE UNCHANGED vars
    <2>1. PeeringTypeOK'
        BY <1>1 DEF vars, manualVars, p2pVars, counters, PeeringInv, PeeringTypeOK
    <2>2. AddedExists' /\ RemoverAtOne' /\ NoneAddedWhileDropping' /\ OneNeighborPerPeer'
        BY <1>1 DEF vars, manualVars, p2pVars, PeeringInv, AddedExists, RemoverAtOne, NoneAddedWhileDropping,
                    OneNeighborPerPeer, At, Adding, IsClosed
    <2>3. DroppedStaysDisconnected'
        BY <1>1 DEF vars, manualVars, p2pVars, PeeringInv, DroppedStaysDisconnected, RemovedPeersDisconnected,
                    NoneAfterStop, At, Adding, IsOpen, IsClosed
    <2> QED BY <2>1, <2>2, <2>3 DEF PeeringInv
<1>2. ASSUME NEW p \in Peer, AddPeer(p) \/ RemovePeer(p) \/ CheckStatus(p) \/ Done(p) \/ Peering(p)
      PROVE  PeeringInv'
    BY <1>2, AddPeerStep, RemoverSteps, GoroutineSteps
<1>3. ASSUME NEW p \in Peer, DropAuto(p) PROVE PeeringInv'
    <2>1. PICK n \in 1 .. Len(neighbor[p]) : IsOpen(p, n) /\ neighbor' = Closing(p, n)
        BY <1>3 DEF DropAuto, Dropped
    <2>2. /\ UNCHANGED <<manualVars, caller, neighbors, p2pStop, tasks, added, autos>>
          /\ failures' \in 0 .. MaxFailures
        BY <1>3 DEF DropAuto, counters, PeeringInv, PeeringTypeOK
    <2> QED BY <2>1, <2>2, ClosingSteps
<1>4. ASSUME NEW p \in Peer, NEW g \in Group, CallerStep(p, g) \/ Connect(p, g) \/ ConnectFails(p, g)
      PROVE  PeeringInv'
    BY <1>4, CallerSteps, SetNeighborStep, AnnounceSteps DEF CallerStep
<1>5. ASSUME NEW p \in Peer, NEW n \in 1 .. Len(neighbor[p]), Fail(p, n) PROVE PeeringInv'
    <2>1. /\ UNCHANGED <<manualVars, caller, neighbors, p2pStop, tasks, added, autos>>
          /\ failures' \in 0 .. MaxFailures
        BY <1>5, PeeringAssumption DEF Fail, PeeringInv, PeeringTypeOK
    <2> QED BY <1>5, <2>1, ClosingSteps DEF Fail
<1>6. ASSUME NEW p \in Peer, NEW n \in 1 .. Len(neighbor[p]), Disconnected(p, n) PROVE PeeringInv'
    BY <1>6, DisconnectedStep
<1>7. ASSUME NEW t \in tasks, ChangeNeighborStatus(t) PROVE PeeringInv'
    BY <1>7, ChangeNeighborStatusStep
<1>8. CASE RemoverStep
    <2>1. ASSUME NEW p \in Peer, RemovePeerByID(p) \/ WaitDone(p) PROVE PeeringInv'
        BY <2>1, RemoverSteps
    <2>2. ASSUME NEW p \in Peer, DropNeighbor(p) PROVE PeeringInv'
        BY <2>2, DropNeighborStep
    <2>3. CASE EndRemoval
        BY <2>3, RemoverSteps
    <2> QED BY <1>8, <2>1, <2>2, <2>3 DEF RemoverStep
<1>9. CASE StopManual \/ StopP2P \/ P2PStopStep
    BY <1>9, RemoverSteps, StopSteps DEF P2PStopStep
<1> QED
    BY <1>1, <1>2, <1>3, <1>4, <1>5, <1>6, <1>7, <1>8, <1>9 DEF Next

-----------------------------------------------------------------------------

(* The invariant holds in every reachable state, for any peers and bounds. *)
THEOREM PeeringInvariant == Spec => []PeeringInv
<1>1. Init => PeeringInv
    BY InitEstablishes
<1>2. PeeringInv /\ [Next]_vars => PeeringInv'
    BY StepPreserves
<1> QED
    BY <1>1, <1>2, PTL DEF Spec

(* The state of the managers has its type. *)
THEOREM PeeringTypeCorrect == Spec => []PeeringTypeOK
<1>1. PeeringInv => PeeringTypeOK
    BY DEF PeeringInv
<1> QED
    BY <1>1, PeeringInvariant, PTL

(* A peer has at most one neighbour that is not closed, the one in the map of the p2p manager, *)
(* whichever of the groups connects to it and however often its connections fail.              *)
THEOREM NeighborsUnique == Spec => []OneNeighborPerPeer
<1>1. PeeringInv => OneNeighborPerPeer
    BY DEF PeeringInv
<1> QED
    BY <1>1, PeeringInvariant, PTL

(* Removing a peer and stopping the managers leave no open connection behind. *)
THEOREM RemovedStayDisconnected == Spec => []DroppedStaysDisconnected
<1>1. PeeringInv => DroppedStaysDisconnected
    BY DEF PeeringInv
<1> QED
    BY <1>1, PeeringInvariant, PTL
=============================================================================
