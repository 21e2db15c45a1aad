-------------------------- MODULE MCTrackerWriteBack --------------------------
(***************************************************************************)
(* Finite instances of TrackerWriteBack.                                   *)
(***************************************************************************)
EXTENDS TrackerWriteBack, TLC

Symmetric == Permutations(Loop)
=============================================================================
