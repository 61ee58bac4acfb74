------------------------- MODULE MCEngineCheckpoint -------------------------
(* EngineCheckpoint on small sets, for TLC. *)
EXTENDS EngineCheckpoint, TLC

Symmetry == Permutations(Requests)
=============================================================================
