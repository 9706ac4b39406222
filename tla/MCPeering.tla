------------------------------ MODULE MCPeering ------------------------------
(***************************************************************************)
(* Model-checking instances of Peering: pOut is dialled, the connections   *)
(* of pIn are accepted.                                                    *)
(***************************************************************************)
EXTENDS Peering

CONSTANTS pOut, pIn
=============================================================================
