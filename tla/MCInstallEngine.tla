--------------------------- MODULE MCInstallEngine ---------------------------
(***************************************************************************)
(* Finite instances of InstallEngine: the .cfg files differ in the faults  *)
(* they allow and in how many hidden directories a behaviour may make.     *)
(***************************************************************************)
EXTENDS InstallEngine, TLC

Symmetric == Permutations(Proc)
=============================================================================
