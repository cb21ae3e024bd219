-------------------------- MODULE MCProgramSessions --------------------------
(* Instances of ProgramSessions for TLC. *)
EXTENDS ProgramSessions, TLC

CONSTANTS d1, d2, m1, m2, m3, i1, i2, i3

\* Messages may be swapped
Symm == Permutations(Msgs)
=============================================================================
