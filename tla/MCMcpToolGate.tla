--------------------------- MODULE MCMcpToolGate ---------------------------
(* McpToolGate on small sets, for TLC. *)
EXTENDS McpToolGate, TLC
Alike == Permutations(Runs) \cup Permutations(Threads)
           \cup Permutations(Confirmations) \cup Permutations(Deciders)
           \cup Permutations(Listings) \cup Permutations(Reviews)
============================================================================
