------------------------------ MODULE MCHandles ------------------------------
(***************************************************************************)
(* Instances of Handles.                                                   *)
(***************************************************************************)
EXTENDS Handles
=============================================================================
