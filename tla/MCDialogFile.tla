---------------------------- MODULE MCDialogFile ----------------------------
(* Instances of DialogFile for TLC. *)
EXTENDS DialogFile

CONSTANTS d1, m1, m2, i1, c1, c3

\* c1 is won by an intent, c3 by none
MCWinners == [c \in Contents |-> IF c = c1 THEN {i1} ELSE {}]
MCFormat == [c \in Contents |-> c]

\* Started without a file, or with every dialog in it
NoneOrAll == {{}, Dialogs}
=============================================================================
