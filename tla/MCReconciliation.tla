-------------------------- MODULE MCReconciliation --------------------------
(***************************************************************************)
(* Instances of Reconciliation for TLC, with the grants of MCTagManager.   *)
(***************************************************************************)
EXTENDS Reconciliation, MCTagManager
=============================================================================
