---------------------------- MODULE DialogRouting ----------------------------
(***************************************************************************)
(* What the dispatcher promises of every dialog object, without handlers,  *)
(* locks, channels or caches: at any time the user's turns belong to one   *)
(* party.  Nobody holds a fresh dialog (Idle); a turn gives it to a        *)
(* program or to the multi-turn chat, and goes to the party that holds the *)
(* dialog at that moment.  A program keeps it until it is released and     *)
(* never passes it to another program or to the chat directly; the chat    *)
(* keeps it until it hands it back, or, when commands come first, until a  *)
(* turn names a program.                                                   *)
(***************************************************************************)
CONSTANTS Objs, Msgs, Intents,
          Idle, Chat,    \* parties other than the programs
          Nowhere        \* a turn that was not delivered yet

VARIABLES commandFirst,
          route,         \* the party that holds each dialog object
          delivered      \* the party that got each turn

vars == <<commandFirst, route, delivered>>

Parties == Intents \cup {Idle, Chat}

Init ==
    /\ commandFirst \in BOOLEAN
    /\ route \in [Objs -> Parties]
    /\ delivered = [m \in Msgs |-> Nowhere]

\* A program takes the dialog over
Assign(o, i) ==
    /\ route[o] = Idle \/ (route[o] = Chat /\ commandFirst)
    /\ route' = [route EXCEPT ![o] = i]
    /\ UNCHANGED <<commandFirst, delivered>>

\* A turn goes to the program that holds the dialog
Deliver(o, m) ==
    /\ route[o] \in Intents
    /\ delivered[m] = Nowhere
    /\ delivered' = [delivered EXCEPT ![m] = route[o]]
    /\ UNCHANGED <<commandFirst, route>>

\* A turn goes to the chat, which takes the dialog or keeps it
Converse(o, m) ==
    /\ route[o] \in {Idle, Chat}
    /\ delivered[m] = Nowhere
    /\ route' = [route EXCEPT ![o] = Chat]
    /\ delivered' = [delivered EXCEPT ![m] = Chat]
    /\ UNCHANGED commandFirst

\* The program finished, declined or was terminated, or the chat hands back
Release(o) ==
    /\ route[o] # Idle
    /\ route' = [route EXCEPT ![o] = Idle]
    /\ UNCHANGED <<commandFirst, delivered>>

Next ==
    \E o \in Objs :
        \/ \E i \in Intents : Assign(o, i)
        \/ \E m \in Msgs : Deliver(o, m) \/ Converse(o, m)
        \/ Release(o)

Spec == Init /\ [][Next]_vars
=============================================================================
