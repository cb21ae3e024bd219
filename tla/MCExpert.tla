------------------------------ MODULE MCExpert ------------------------------
(* Instances of Expert for TLC. *)
EXTENDS Expert, TLC

CONSTANTS d1, m1, m2, m3, i1, i2, c1, c2, c3, c4

\* c1 is won by one intent, c2 ties two of them, c3 is won by none
MCWinners == [c \in Contents |->
                 IF c = c1 THEN {i1} ELSE IF c = c2 THEN {i1, i2} ELSE {}]

\* c4 is c1 with something around it that the recogniser is not to see
MCFormat == [c \in Contents |-> IF c = c4 THEN c1 ELSE c]

\* Started with an empty file, or with every dialog on disk
NoneOrAll == {{}, Dialogs}
AllLoaded == {Dialogs}

\* c2 treats the two intents alike, so they may be swapped as well as the messages
Symm == Permutations(Msgs) \cup Permutations(Intents)
=============================================================================
