---------------------------- MODULE MCAcceptance ----------------------------
(***************************************************************************)
(* Model-checking instances of Acceptance.  Of b2 and b3 one extends the   *)
(* first sequence and the other one is left without a marker or starts a   *)
(* second sequence, as the distance allows; b5 joins the two.              *)
(***************************************************************************)
EXTENDS Acceptance

CONSTANTS v1, v2, b1, b2, b3, b4, b5, b6, w1, w2

MCParents == b1 :> {} @@ b2 :> {b1} @@ b3 :> {b1} @@ b4 :> {b3} @@ b5 :> {b2, b4} @@ b6 :> {b5}
MCWeakParents == b1 :> {} @@ b2 :> {} @@ b3 :> {} @@ b4 :> {b2} @@ b5 :> {} @@ b6 :> {}

(* Only together do the two voters reach the threshold. *)
MCWeight == v1 :> 2 @@ v2 :> 1
MCIssuer == b1 :> v1 @@ b2 :> v1 @@ b3 :> v2 @@ b4 :> v1 @@ b5 :> v2 @@ b6 :> v1
MCSequenceNumber == b1 :> 0 @@ b2 :> 1 @@ b3 :> 0 @@ b4 :> 2 @@ b5 :> 1 @@ b6 :> 3

WorkerSymmetry == Permutations(Worker)
=============================================================================
