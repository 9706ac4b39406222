------------------------------ MODULE MCLedger ------------------------------
(***************************************************************************)
(* Model-checking instances of Ledger: small transaction graphs over the   *)
(* genesis outputs outX and outZ and the output outA of txA.               *)
(***************************************************************************)
EXTENDS Ledger, TLC

CONSTANTS txA, txB, txC, txD, txE, outX, outZ, outA

(* txA and txB spend outX and txD builds on txA; txE spends outX and an output *)
(* that depends on it.                                                         *)
BookingTransactions == {txA, txB, txD, txE}
BookingInputs == txA :> {outX} @@ txB :> {outX} @@ txD :> {outA} @@ txE :> {outX, outA}
BookingCreator == outX :> Genesis @@ outA :> txA

(* Nested double spends: three transactions spend outX, and one of them spends *)
(* outZ as well, which txD spends too, building on another one.                *)
ForkTransactions == {txA, txB, txC, txD}
ForkInputs == txA :> {outX} @@ txB :> {outX, outZ} @@ txC :> {outX} @@ txD :> {outA, outZ}
ForkCreator == BookingCreator @@ outZ :> Genesis
FirstSpenders == {txA, txD}
=============================================================================
