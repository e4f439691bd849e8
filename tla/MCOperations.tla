----------------------------- MODULE MCOperations -----------------------------
(***************************************************************************)
(* Instances of Operations for TLC, with the objects of MCReconciler.      *)
(***************************************************************************)
EXTENDS Operations, MCReconciler

OpsBudget   == Limits(2, 1, 2, 0, 1)
EraseBudget == Limits(1, 2, 0, 0, 0)
===============================================================================
