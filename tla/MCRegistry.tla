---------------------------- MODULE MCRegistry ----------------------------
(***************************************************************************)
(* The registry on four slots and five futures: it fills up, rejects an    *)
(* add, and indices are freed and reused in every order.                   *)
(***************************************************************************)
EXTENDS Registry
=============================================================================
