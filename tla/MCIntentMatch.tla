--------------------------- MODULE MCIntentMatch ---------------------------
(* Instances of IntentMatch for TLC. *)
EXTENDS IntentMatch, TLC

CONSTANTS c1, c2, a1, a2, i1, i2, i3, i4, k1, k2, k3

\* One content with two sets of attachments, and another content
MCQuestions == {<<c1, a1, TRUE>>, <<c1, a2, TRUE>>, <<c1, a2, FALSE>>, <<c2, a1, TRUE>>}

\* For c1 with a1 two of four matchers tie at the top; with a2 a third one wins; for c2
\* nobody knows
MCScore ==
    [c \in Contents |-> [a \in Attachments |-> [i \in Intents |->
       CASE c = c2            -> IF i = i1 THEN 1 ELSE 0
         [] c = c1 /\ a = a1  -> IF i \in {i1, i2} THEN 3 ELSE IF i = i3 THEN 2 ELSE 1
         [] c = c1 /\ a = a2  -> IF i = i3 THEN 3 ELSE IF i = i4 THEN 2 ELSE 0]]]
=============================================================================
