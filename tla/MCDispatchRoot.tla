---------------------------- MODULE MCDispatchRoot ----------------------------
(***************************************************************************)
(* Finite instances of DispatchRoot.                                       *)
(***************************************************************************)
EXTENDS DispatchRoot, TLC

Symmetric == Permutations(Cleaner) \cup Permutations(Exporter)
=============================================================================
