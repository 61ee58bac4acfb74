-------------------------- MODULE MCRunEvents ----------------------------
(* RunEvents with a reader on small sets, for TLC. *)
EXTENDS RunEventReader, TLC
OtherSteps == Permutations(Steps \ Errors)
=============================================================================
