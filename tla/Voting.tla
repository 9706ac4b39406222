------------------------------- MODULE Voting -------------------------------
(***************************************************************************)
(* Voting on conflicts: the part of the ApprovalWeightManager of mesh_old  *)
(* that turns booked blocks into votes, voters and weights of conflicts,   *)
(* the acceptance gadget's HandleConflict, and the preference of           *)
(* consensus/omv, on top of the conflict DAG.                              *)
(*                                                                         *)
(* BlockBooked is attached, so the handlers of several blocks run at the   *)
(* same time, also for blocks of one issuer.  The storages lock single     *)
(* accesses only: a handler looks at the latest vote, stores its own and   *)
(* changes the voters, adds up the weight and stores it in separate steps. *)
(* Forks are hooked: the thread that books the second spender of an output *)
(* visits the blocks of the first one before its own blocks are booked.    *)
(***************************************************************************)
EXTENDS Mesh, ConflictDAG, SequencesExt

CONSTANTS
    Voter,          \* identities of the issuers
    Weight,         \* their weights, of the WeightProvider
    Issuer,         \* the issuer of a block
    SequenceNumber, \* Block.SequenceNumber, the power of its votes
    Spends,         \* the contested transactions a block is booked into
    ParentsOf,      \* the conflicts a contested transaction builds on
    ResourcesOf,    \* the contested outputs it spends
    First,          \* contested transactions booked before their competitors
    Rank,           \* the order of the conflict identifiers' bytes
    Forker          \* the thread that propagates forks

ASSUME VoterAssumption ==
    /\ IsFiniteSet(Voter) /\ Weight \in [Voter -> Nat]
    /\ \E v \in Voter : Weight[v] > 0
    /\ \A b \in Block : Issuer[b] \in Voter /\ SequenceNumber[b] \in Nat
    /\ ParentsOf \in [ConflictID -> SUBSET ConflictID]
    /\ ResourcesOf \in [ConflictID -> (SUBSET ResourceID) \ {{}}]
    /\ Forker \notin Block

(* Identifiers are byte strings of one length, compared byte by byte. *)
ASSUME RankAssumption ==
    /\ IsFiniteSet(ConflictID) /\ Rank \in [ConflictID -> Nat]
    /\ \A c, d \in ConflictID : Rank[c] = Rank[d] => c = d

VARIABLES
    blockConflicts, \* Booker.BlockConflictIDs of the booked blocks
    booked,         \* booked blocks
    forks,          \* <<block, conflict>> that PropagateForkedConflict will visit
    votes,          \* LatestConflictVotes
    voters,         \* ConflictVoters
    weight,         \* ConflictWeight
    thread,         \* the running handlers
    invalid,        \* BlockMetadata.SubjectivelyInvalid
    tasks           \* ConflictWeightChanged events the gadget has not handled yet

voteVars == <<blockConflicts, booked, forks, votes, voters, weight, thread, invalid, tasks>>
votingVars == <<dagVars, voteVars>>

Thread == Block \cup {Forker}

For == "Confirmed"
Against == "Rejected"

(* ConflictVote; votes keeps power and opinion, NoVote, below every power, where none is stored. *)
ConflictVote == [voter : Voter, conflict : ConflictID, power : Nat, opinion : {For, Against}]
NoVote == [power |-> -1, opinion |-> "Undefined"]

Vote(b, c, o) ==
    [voter |-> Issuer[b], conflict |-> c, power |-> SequenceNumber[b], opinion |-> o]

(***************************************************************************)
(* A thread: the conflicts it still has to vote for and against, the vote  *)
(* it is casting, if any, and the weight it has added up.                  *)
(***************************************************************************)
Idle == [pc |-> "idle", add |-> {}, revoke |-> {}, casting |-> {}, read |-> 0]

Handler ==
    [pc : {"idle", "booked", "vote", "store", "weigh", "set"}, add : SUBSET ConflictID, revoke : SUBSET ConflictID,
     casting : SUBSET ConflictVote, read : Nat]

VotingTypeOK ==
    /\ TypeOK
    /\ booked \subseteq Block /\ invalid \subseteq booked
    /\ blockConflicts \in [Block -> SUBSET ConflictID]
    /\ forks \subseteq booked \X Stored
    /\ votes \in [Voter -> [ConflictID -> [power : Nat \cup {-1}, opinion : {"Undefined", For, Against}]]]
    /\ voters \in [ConflictID -> SUBSET Voter]
    /\ weight \in [ConflictID -> Nat]
    /\ thread \in [Thread -> Handler]
    /\ \A t \in Thread :
        /\ thread[t].add \cup thread[t].revoke \subseteq Stored
        /\ thread[t].casting = {} <=> thread[t].pc \in {"idle", "booked", "vote"}
        /\ \A u, v \in thread[t].casting : u = v /\ u.conflict \in Stored
    /\ tasks \subseteq Stored \X Nat

InitVoting ==
    /\ InitDAG
    /\ blockConflicts = [b \in Block |-> {}]
    /\ booked = {} /\ forks = {} /\ invalid = {} /\ tasks = {}
    /\ votes = [v \in Voter |-> [c \in ConflictID |-> NoVote]]
    /\ voters = [c \in ConflictID |-> {}]
    /\ weight = [c \in ConflictID |-> 0]
    /\ thread = [t \in Thread |-> Idle]

-----------------------------------------------------------------------------
(* The ledger creates conflicts, the booker books blocks. *)

Competitors(c) == {d \in ConflictID \ {c} : ResourcesOf[c] \cap ResourcesOf[d] # {}}

(***************************************************************************)
(* Booking the second spender of an output, then forking the first one.    *)
(* Conflicts appear after the ones they build on (a bound of the model:    *)
(* module Ledger has the re-parenting).                                    *)
(***************************************************************************)
NewConflict(c) ==
    /\ ParentsOf[c] \subseteq Stored
    /\ c \in First => \E d \in Competitors(c) : d \in Stored
    /\ CreateConflict(c, IF c \in First THEN ParentsOf[c] ELSE UnconfirmedConflicts(ParentsOf[c]),
                      ResourcesOf[c])
    /\ forks' = forks \cup {f \in booked \X {c} : c \in Spends[f[1]]}
    /\ UNCHANGED <<blockConflicts, booked, votes, voters, weight, thread, invalid, tasks>>

Announce(c) == TriggerConflictCreated(c) /\ UNCHANGED voteVars

(* A transaction that is no first spender is booked when the first ones are forked. *)
Bookable(t) ==
    \/ t \in First
    \/ /\ t \in Stored /\ Competitors(t) \cap First \subseteq Stored
       /\ forks = {} /\ thread[Forker].pc = "idle"

(* BookBlock: the block inherits its conflicts and BlockBooked is triggered. *)
BookBlock(b) ==
    /\ b \notin booked
    /\ \A t \in Spends[b] : Bookable(t)
    /\ booked' = booked \cup {b}
    /\ blockConflicts' = [blockConflicts EXCEPT ![b] = UnconfirmedConflicts(Spends[b] \cap Stored)]
    /\ thread' = [thread EXCEPT ![b].pc = "booked"]
    /\ UNCHANGED <<dagVars, forks, votes, voters, weight, invalid, tasks>>

-----------------------------------------------------------------------------
(* processBookedBlock: the votes of a block. *)

(* A vote of the same opinion on the conflict with more power. *)
IdenticalVoteWithHigherPowerExists(vote) ==
    LET existing == votes[vote.voter][vote.conflict] IN
    existing.power > vote.power /\ existing.opinion = vote.opinion

(* determineConflictsToAdd for every conflict without a later vote for a competitor. *)
DetermineConflictsToAdd(b) ==
    Walk({c \in blockConflicts[b] : \A d \in ConflictingConflicts(c) :
                ~IdenticalVoteWithHigherPowerExists(Vote(b, d, For))},
         ParentEdges)

(* determineConflictsToRevoke: the competitors and their future cone. *)
DetermineConflictsToRevoke(added) ==
    Walk(UNION {ConflictingConflicts(c) : c \in added}, ChildEdges)

(* A thread that is done with a vote: the next one, if there is any. *)
GoOn(th) ==
    IF th.add \cup th.revoke = {} THEN Idle
    ELSE [th EXCEPT !.pc = "vote", !.casting = {}, !.read = 0]

(* determineVotes, and isRelevantVoter. *)
DetermineVotes(b) ==
    LET added     == DetermineConflictsToAdd(b)
        revoked   == DetermineConflictsToRevoke(added)
        isInvalid == revoked \cap (added \cup blockConflicts[b]) # {}
    IN  /\ thread[b].pc = "booked"
        /\ invalid' = IF isInvalid THEN invalid \cup {b} ELSE invalid
        /\ thread' = [thread EXCEPT ![b] =
                IF isInvalid \/ Weight[Issuer[b]] = 0 THEN Idle
                ELSE GoOn([Idle EXCEPT !.add = added, !.revoke = revoked])]
        /\ UNCHANGED <<dagVars, blockConflicts, booked, forks, votes, voters, weight, tasks>>

(* The sets are walked in the order of their elements' ranks (a bound of the model). *)
IsNext(c, S) == c \in S /\ \A d \in S : Rank[c] <= Rank[d]

(* addVoterToConflict and revokeVoterFromConflict look at the latest vote. *)
CastVote(b, c) ==
    LET cast(th, o) == IF votes[Issuer[b]][c].power < SequenceNumber[b]
                       THEN [th EXCEPT !.pc = "store", !.casting = {Vote(b, c, o)}]
                       ELSE GoOn(th)
    IN  /\ thread[b].pc = "vote"
        /\ \/ /\ IsNext(c, thread[b].add)
              /\ thread' = [thread EXCEPT ![b] = cast([thread[b] EXCEPT !.add = @ \ {c}], For)]
           \/ /\ thread[b].add = {} /\ IsNext(c, thread[b].revoke)
              /\ thread' = [thread EXCEPT ![b] = cast([thread[b] EXCEPT !.revoke = @ \ {c}], Against)]
        /\ UNCHANGED <<dagVars, blockConflicts, booked, forks, votes, voters, weight, invalid, tasks>>

(* Mutant: the last one to write wins. *)
MutantStore(vote) ==
    [votes EXCEPT ![vote.voter][vote.conflict] = [power |-> vote.power, opinion |-> vote.opinion]]

(* LatestConflictVotes.Store, which compares the powers once more. *)
Store(vote) ==
    [votes EXCEPT ![vote.voter][vote.conflict] =
        IF @.power >= vote.power THEN @ ELSE [power |-> vote.power, opinion |-> vote.opinion]]

(* AddVoter or DeleteVoter. *)
UpdateVoters(vote) ==
    [voters EXCEPT ![vote.conflict] =
        IF vote.opinion = For THEN @ \cup {vote.voter} ELSE @ \ {vote.voter}]

(***************************************************************************)
(* The vote is stored and the voters are changed, also when Store refused  *)
(* the vote.  That these two happen in one step makes no difference: of    *)
(* two handlers that have passed the test in CastVote the later one        *)
(* decides about the voters and the one with more power about the vote.    *)
(***************************************************************************)
StoreVote(b) ==
    /\ thread[b].pc = "store"
    /\ \E vote \in thread[b].casting : votes' = Store(vote) /\ voters' = UpdateVoters(vote)
    /\ thread' = [thread EXCEPT ![b].pc = "weigh"]
    /\ UNCHANGED <<dagVars, blockConflicts, booked, forks, weight, invalid, tasks>>

-----------------------------------------------------------------------------
(* updateConflictWeight, called for blocks and for forks. *)

WeightOf(V) == MapThenSumSet(LAMBDA v : Weight[v], V)

(* Mutant: adds up the voters it saw before its own. *)
MutantReadWeight(vote) == WeightOf(voters[vote.conflict] \ {vote.voter})

ReadWeight(vote) == WeightOf(voters[vote.conflict])

(* It adds up the weights of the voters ... *)
Weigh(t) ==
    /\ thread[t].pc = "weigh"
    /\ \E vote \in thread[t].casting :
            thread' = [thread EXCEPT ![t].pc = "set", ![t].read = ReadWeight(vote)]
    /\ UNCHANGED <<dagVars, blockConflicts, booked, forks, votes, voters, weight, invalid, tasks>>

(* ... and sets the weight, with an event if that modified it. *)
SetWeight(t) ==
    /\ thread[t].pc = "set"
    /\ \E vote \in thread[t].casting :
        /\ weight' = [weight EXCEPT ![vote.conflict] = thread[t].read]
        /\ tasks' = IF weight[vote.conflict] = thread[t].read THEN tasks
                    ELSE tasks \cup {<<vote.conflict, thread[t].read>>}
    /\ thread' = [thread EXCEPT ![t] = GoOn(thread[t])]
    /\ UNCHANGED <<dagVars, blockConflicts, booked, forks, votes, voters, invalid>>

-----------------------------------------------------------------------------
(* Forks. *)

VoterSupportsAllConflicts(v, P) == \A p \in P : v \in voters[p]

(* propagateForkedConflict of a block, and the hooked processForkedBlock up to AddVoter. *)
ForkBlock(b, c) ==
    LET vote    == Vote(b, c, For)
        updated == parents[c] \subseteq blockConflicts[b] /\ c \notin blockConflicts[b]
        stored  == /\ updated /\ VoterSupportsAllConflicts(vote.voter, parents[c])
                   /\ votes[vote.voter][c].power < vote.power
    IN  /\ <<b, c>> \in forks /\ thread[Forker].pc = "idle"
        /\ forks' = forks \ {<<b, c>>}
        /\ blockConflicts' = [blockConflicts EXCEPT ![b] = IF updated THEN @ \cup {c} ELSE @]
        /\ votes' = IF stored THEN Store(vote) ELSE votes
        /\ voters' = IF stored THEN UpdateVoters(vote) ELSE voters
        /\ thread' = IF stored /\ vote.voter \notin voters[c]
                     THEN [thread EXCEPT ![Forker].pc = "weigh", ![Forker].casting = {vote}]
                     ELSE thread
        /\ UNCHANGED <<dagVars, booked, weight, invalid, tasks>>

-----------------------------------------------------------------------------
(* The acceptance gadget. *)

AcceptanceThreshold == 67

(* Mutant: a simple majority. *)
MutantReachesThreshold(w) == 2 * w >= WeightOf(Voter)

(* DefaultConflictTranslation; the weight is relative to the total weight. *)
ReachesThreshold(w) == 100 * w >= AcceptanceThreshold * WeightOf(Voter)

(* HandleConflict *)
HandleConflict(c, w) ==
    /\ <<c, w>> \in tasks
    /\ tasks' = tasks \ {<<c, w>>}
    /\ IF ReachesThreshold(w) THEN SetConflictAccepted(c) ELSE UNCHANGED dagVars
    /\ UNCHANGED <<blockConflicts, booked, forks, votes, voters, weight, thread, invalid>>

-----------------------------------------------------------------------------
(* On mesh voting. *)

(* The order in which the connected conflicts are looked at: by weight, *)
(* then by identifier.                                                  *)
Before(c, d) == weight[c] > weight[d] \/ (weight[c] = weight[d] /\ Rank[c] < Rank[d])

DescendingOrder(S) ==
    [i \in 1 .. Cardinality(S) |-> CHOOSE c \in S : Cardinality({d \in S : Before(d, c)}) = i - 1]

(* Mutant: marks what builds on the competitors, not the competitors. *)
MutantDislikedBy(disliked, c) ==
    disliked \cup (Walk(ConflictingConflicts(c), ChildEdges) \ ConflictingConflicts(c))

DislikedBy(disliked, c) ==
    IF c \in disliked THEN disliked
    ELSE disliked \cup Walk(ConflictingConflicts(c), ChildEdges)

(* dislikedConnectedConflictingConflicts *)
DislikedConnectedConflictingConflicts(c) ==
    FoldLeft(DislikedBy, {}, DescendingOrder(ConnectedConflictingConflicts(c)))

(* conflictPreferred without the parents: the case Accepted of its switch is empty. *)
ConflictPreferred(c) ==
    /\ confirmationState[c] # Rejected
    /\ confirmationState[c] = Confirmed \/ c \notin DislikedConnectedConflictingConflicts(c)

(* ConflictLiked walks up to the parents, but not beyond a Confirmed conflict. *)
ConflictLiked(c) ==
    \A p \in Walk({c}, {e \in ParentEdges : confirmationState[e[1]] # Confirmed}) : ConflictPreferred(p)

-----------------------------------------------------------------------------
(* Nothing here listens to ConflictCreated: its trigger is the next step. *)
NextVoting ==
    \/ \E c \in ConflictID : Announce(c)
    \/ /\ unannounced = {}
       /\ \/ \E c \in ConflictID : NewConflict(c)
          \/ \E b \in Block : BookBlock(b) \/ DetermineVotes(b) \/ StoreVote(b)
          \/ \E b \in Block, c \in ConflictID : CastVote(b, c) \/ ForkBlock(b, c)
          \/ \E t \in Thread : Weigh(t) \/ SetWeight(t)
          \/ \E task \in tasks : HandleConflict(task[1], task[2])

SpecVoting == InitVoting /\ [][NextVoting]_votingVars

-----------------------------------------------------------------------------
(* Correctness. *)

Quiet ==
    /\ \A t \in Thread : thread[t].pc = "idle"
    /\ forks = {} /\ unannounced = {} /\ tasks = {}

IsQuorum(V) == 100 * WeightOf(V) >= AcceptanceThreshold * WeightOf(Voter)

(***************************************************************************)
(* Handlers of blocks of one issuer overtake each other, and the order in  *)
(* which its blocks arrive is not the order of their sequence numbers: the *)
(* vote that is kept only ever gives way to one with more power.           *)
(***************************************************************************)
LaterVotesStay ==
    [][\A v \in Voter, c \in ConflictID :
        votes'[v][c] # votes[v][c] => votes'[v][c].power > votes[v][c].power]_votingVars

(***************************************************************************)
(* The issuers of blocks in c or in what builds on it, also of blocks that *)
(* their handlers find invalid: a fork makes voters of the issuers of such *)
(* blocks too.                                                             *)
(***************************************************************************)
Supporters(c) == {Issuer[b] : b \in {x \in booked : c \in Walk(blockConflicts[x], ParentEdges)}}

(***************************************************************************)
(* The gadget accepts no conflict unless issuers with the threshold of the *)
(* weight have put blocks into it, whatever was revoked, counted twice or  *)
(* weighed with stale voters on the way.                                   *)
(***************************************************************************)
AcceptedBacked ==
    \A c \in Stored : IsAccepted(confirmationState[c]) => IsQuorum(Supporters(c))

(***************************************************************************)
(* Handlers that add their voters at the same time may store the weights   *)
(* they added up in the wrong order, yet a conflict whose voters reach the *)
(* threshold does not stay pending: the last one to change the voters has  *)
(* seen them all.                                                          *)
(***************************************************************************)
QuorumDecided ==
    Quiet => \A c \in Stored : IsQuorum(voters[c]) => confirmationState[c] # Pending

(***************************************************************************)
(* The conflicts a node likes, with whatever weights the racing handlers   *)
(* have left, never compete with each other, and a node that likes a       *)
(* conflict likes what it builds on.                                       *)
(***************************************************************************)
LikedReality ==
    LET liked == {c \in Stored : ConflictLiked(c)} IN
    \A c \in liked :
        /\ ConflictingConflicts(c) \cap liked = {}
        /\ \A p \in parents[c] : p \in liked
=============================================================================
