---------------------------- MODULE MCConflictDAG ----------------------------
(* Model-checking instance of ConflictDAG. *)
EXTENDS ConflictDAG, TLC

CONSTANTS c1, c2, c3, r1, r2

MCConflictID == {c1, c2, c3}
MCResourceID == {r1, r2}

(* The operations treat all conflicts alike, and all resources. *)
MCSymmetry == Permutations(MCConflictID) \cup Permutations(MCResourceID)

=============================================================================
