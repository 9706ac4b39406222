------------------------------ MODULE MCIntake -------------------------------
(***************************************************************************)
(* A model-checking instance of Intake.  blkA attaches txA to the genesis, *)
(* blkB attaches txB, which spends an output of txA, and blkC attaches txB *)
(* once more and approves both.  blkD is issued too long after its parent. *)
(***************************************************************************)
EXTENDS Intake, TLC

CONSTANTS blkA, blkB, blkC, blkD, txA, txB

MCBlocks == {blkA, blkB, blkC, blkD}
MCTransactions == {txA, txB}
MCParents == blkA :> {Genesis} @@ blkB :> {Genesis} @@ blkC :> {blkA, blkB} @@ blkD :> {blkA}
MCLikeParents == blkA :> {} @@ blkB :> {} @@ blkC :> {blkB} @@ blkD :> {}
MCPayload == blkA :> txA @@ blkB :> txB @@ blkC :> txB @@ blkD :> NoTransaction
MCIssuingTime == blkA :> 0 @@ blkB :> 1 @@ blkC :> 1 @@ blkD :> 2
MCInputs == txA :> {} @@ txB :> {txA}

=============================================================================
