----------------------------- MODULE CausalOrder -----------------------------
(***************************************************************************)
(* What the mesh promises to everything behind it, whatever threads and    *)
(* messages do: a block becomes solid, or is found invalid, when all its   *)
(* parents are solid; a transaction is booked after the transactions it    *)
(* spends from, once a block that could be booked carries it; a block is   *)
(* booked after its parents and its transaction.  Nothing is taken back.   *)
(* Intake implements it.                                                   *)
(***************************************************************************)
CONSTANTS Block, Genesis, Transaction, NoTransaction, Parents, Payload, Inputs

VARIABLES
    solid,        \* solid blocks
    invalid,      \* blocks that will never be solid
    booked,       \* booked blocks
    transactions  \* booked transactions

orderVars == <<solid, invalid, booked, transactions>>

Init == solid = {Genesis} /\ invalid = {} /\ booked = {Genesis} /\ transactions = {}

(* The past cone of b is known, and b is judged once. *)
Decidable(b) == b \notin solid \cup invalid /\ Parents[b] \subseteq solid

Solidify(b) ==
    /\ Decidable(b)
    /\ solid' = solid \cup {b}
    /\ UNCHANGED <<invalid, booked, transactions>>

Discard(b) ==
    /\ Decidable(b)
    /\ invalid' = invalid \cup {b}
    /\ UNCHANGED <<solid, booked, transactions>>

BookTransaction(t) ==
    /\ t \notin transactions /\ Inputs[t] \subseteq transactions
    /\ \E b \in solid \ {Genesis} : Payload[b] = t /\ Parents[b] \subseteq booked
    /\ transactions' = transactions \cup {t}
    /\ UNCHANGED <<solid, invalid, booked>>

Book(b) ==
    /\ b \in solid \ booked /\ Parents[b] \subseteq booked
    /\ Payload[b] \in transactions \cup {NoTransaction}
    /\ booked' = booked \cup {b}
    /\ UNCHANGED <<solid, invalid, transactions>>

Next ==
    \/ \E b \in Block : Solidify(b) \/ Discard(b) \/ Book(b)
    \/ \E t \in Transaction : BookTransaction(t)

Spec == Init /\ [][Next]_orderVars
=============================================================================
