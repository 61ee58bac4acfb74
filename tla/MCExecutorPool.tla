--------------------------- MODULE MCExecutorPool ---------------------------
(* ExecutorPool on small sets, for TLC. *)
EXTENDS ExecutorPool, TLC

\* One place in every slot.
OnePlace == [s \in Slots |-> 1]
=============================================================================
