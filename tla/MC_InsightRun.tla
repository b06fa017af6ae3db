--------------------------- MODULE MC_InsightRun ---------------------------
(***************************************************************************)
(* Interchangeable resources for the runs of InsightRun.                   *)
(***************************************************************************)
EXTENDS InsightRun, TLC

Symmetry == Permutations(Resources)
=============================================================================
