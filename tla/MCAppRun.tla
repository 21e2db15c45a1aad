------------------------------- MODULE MCAppRun -------------------------------
(***************************************************************************)
(* Finite instance of AppRun.                                              *)
(***************************************************************************)
EXTENDS AppRun, TLC

Symmetric == Permutations(Run)
=============================================================================
