------------------------------ MODULE MCVoting ------------------------------
(***************************************************************************)
(* A model-checking instance of Voting: cB competes with cA for outX, and  *)
(* for outY with cD, which builds on cA; cA and cD are booked before cB.   *)
(***************************************************************************)
EXTENDS Voting

CONSTANTS cA, cB, cD, outX, outY, v1, v2, b1, b2, b3

(* Only together do the two voters reach the threshold. *)
MCWeight == v1 :> 2 @@ v2 :> 1
MCIssuer == b1 :> v1 @@ b2 :> v1 @@ b3 :> v2
MCSequenceNumber == b1 :> 0 @@ b2 :> 1 @@ b3 :> 0
MCParents == cA :> {} @@ cB :> {} @@ cD :> {cA}
MCRank == cA :> 1 @@ cB :> 2 @@ cD :> 3

ChainConflicts == {cA, cB, cD}
ChainResources == cA :> {outX} @@ cB :> {outX, outY} @@ cD :> {outY}
ChainSpends == b1 :> {cA} @@ b2 :> {cB} @@ b3 :> {cD}
=============================================================================
