-------------------------- MODULE MCIdempotencyStore --------------------------
(***************************************************************************)
(* Finite instance of IdempotencyStore.                                    *)
(***************************************************************************)
EXTENDS IdempotencyStore, TLC
=============================================================================
