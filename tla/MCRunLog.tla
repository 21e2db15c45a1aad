------------------------------- MODULE MCRunLog -------------------------------
(***************************************************************************)
(* Finite instances of RunLog.  One clock unit is CLOCK_SKEW_SECONDS.      *)
(***************************************************************************)
EXTENDS RunLog, TLC

CONSTANT MaxUpsets  \* of a second session, a clock set back and a power loss

FewUpsets == Cardinality(upsets) <= MaxUpsets

Symmetric == Permutations(Session) \cup Permutations(Writer)
=============================================================================
