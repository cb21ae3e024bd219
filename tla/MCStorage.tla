----------------------------- MODULE MCStorage -----------------------------
(* Instances of Storage for TLC. *)
EXTENDS Storage, TLC

CONSTANTS d1, d2, k1, k2, v1, v2, r1, r2, r3

\* One dialog has a good file, a torn one or none, the others have none
MCFiles == {[d \in Dialogs |-> IF d = d1 THEN f ELSE NoFile] :
              f \in {NoFile, Torn, [k \in Keys |-> v1]}}

=============================================================================
