----------------------------- MODULE MCExecutor -----------------------------
(***************************************************************************)
(* Executor for TLC.  Tasks and clients are model values that no definition *)
(* tells apart, so the safety runs use their permutations as symmetry.      *)
(***************************************************************************)
EXTENDS Executor, TLC

Symmetry == Permutations(Tasks) \cup Permutations(Clients)

=============================================================================
