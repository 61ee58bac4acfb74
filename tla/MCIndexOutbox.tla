---------------------------- MODULE MCIndexOutbox ----------------------------
(* IndexOutbox on small sets, for TLC. *)
EXTENDS IndexOutbox
=============================================================================
