-------------------------- MODULE MCToolOperations --------------------------
(* ToolOperations on small sets, for TLC. *)
EXTENDS ToolOperations, TLC

Symmetry == Permutations(Requests) \cup Permutations(Keys) \cup Permutations(Tools)
=============================================================================
