--------------------------- MODULE MC_Idempotency ---------------------------
(***************************************************************************)
(* Idempotency on a small instance.  Neither the requests nor the values   *)
(* of the header are told apart by the code.                               *)
(***************************************************************************)
EXTENDS Idempotency, TLC

Symmetry == Permutations(Requests) \cup Permutations(HeaderKeys)
=============================================================================
