--------------------------- MODULE MCNotarization ---------------------------
(***************************************************************************)
(* A model-checking instance of Notarization with epochs of two seconds.   *)
(* txA spends the genesis output and txB the output of txA; txA has an     *)
(* early and a late attachment.                                            *)
(***************************************************************************)
EXTENDS Notarization, TLC

CONSTANTS txA, txB, outG, outA, outB, blkA1, blkA2, blkB

MCInputs == txA :> {outG} @@ txB :> {outA}
MCOutputs == txA :> {outA} @@ txB :> {outB}
NoParents == txA :> {} @@ txB :> {}

MCPayload == blkA1 :> txA @@ blkA2 :> txA @@ blkB :> txB
MCIssuingTime == blkA1 :> 2 @@ blkA2 :> 0 @@ blkB :> 3

ChainTransactions == {txA, txB}
ChainBlocks == {blkA1, blkA2, blkB}
EarlyBlocks == {blkA1, blkB}
=============================================================================
