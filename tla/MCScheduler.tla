---------------------------- MODULE MCScheduler -----------------------------
(***************************************************************************)
(* A model-checking instance of Scheduler: three blocks of two issuers, of *)
(* which one has no mana in one of the vectors, and a buffer for two.      *)
(***************************************************************************)
EXTENDS Scheduler, TLC

CONSTANTS blk1, blk2, blk3, node1, node2

MCBlocks == {blk1, blk2, blk3}
MCNodes == {node1, node2}

(* blk2 is a child of blk1, blk3 of both; blk1 and blk3 have one issuer. *)
MCIssuer == blk1 :> node1 @@ blk2 :> node2 @@ blk3 :> node1
MCIssuingTime == blk1 :> 0 @@ blk2 :> 0 @@ blk3 :> 1
MCParents == blk1 :> {} @@ blk2 :> {blk1} @@ blk3 :> {blk1, blk2}
MCBlockSize == blk1 :> 2 @@ blk2 :> 1 @@ blk3 :> 1

MCManaVectors == {node1 :> 1 @@ node2 :> 0, node1 :> 0 @@ node2 :> 2}

=============================================================================
