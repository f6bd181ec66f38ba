------------------------------- MODULE MCTlb -------------------------------
(***************************************************************************)
(* The machine of MCMmu with a translation cache.                          *)
(***************************************************************************)
EXTENDS MCMmu, Tlb

\* The callers are the ones the theorems are about.
ASSUME CallersAssumption == CallersInWindow /\ CallersSpareKernel /\ CallersMapLeaves
=============================================================================
