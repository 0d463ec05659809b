------------------------------ MODULE MCRegistry ------------------------------
(* Small registries for TLC: MCRegistry adds nothing to Registry, its cfg  *)
(* gives the ids, the fields in use and the number of handles.             *)
EXTENDS Registry
=============================================================================
