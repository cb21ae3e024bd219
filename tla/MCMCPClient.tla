----------------------------- MODULE MCMCPClient -----------------------------
(* Instances of MCPClient for TLC. *)
EXTENDS MCPClient, TLC

CONSTANTS k1, k2

\* Calls may be swapped
Symm == Permutations(Calls)
=============================================================================
