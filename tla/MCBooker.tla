------------------------------ MODULE MCBooker ------------------------------
(* Model-checking instances of Booker. *)
EXTENDS Booker

CONSTANTS b1, b2, b3, b4, b5, b6, b7, tA, tB

(* b2 and b3 race for the next index; the loser's child starts a new sequence. *)
MeshParents ==
    b1 :> {} @@ b2 :> {b1} @@ b3 :> {b1} @@ b4 :> {b3} @@ b5 :> {b2, b4} @@ b6 :> {b2}
        @@ b7 :> {b4, b6}

(* tB spends an output of tA. *)
NestedAttachments == tA :> {b1} @@ tB :> {b2}
NestedConflicts == tA :> {} @@ tB :> {tA}
=============================================================================
