-------------------------------- MODULE Mesh --------------------------------
(* The blocks of mesh_old, which its components keep what they know about. *)
CONSTANT Block \* blocks
=============================================================================
