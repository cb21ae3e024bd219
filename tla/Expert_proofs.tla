---------------------------- MODULE Expert_proofs ----------------------------
(***************************************************************************)
(* Proofs about Expert, for any number of dialogs, messages and intents,   *)
(* any history limit and any channel capacity.                             *)
(***************************************************************************)
EXTENDS Expert, SequenceTheorems, TLAPS

-----------------------------------------------------------------------------
(* The history *)

\* Truncation keeps at most HistoryLimit lines, and the last one
LEMMA KeepLastFacts ==
    ASSUME NEW h \in Seq(Line), h # <<>>
    PROVE  /\ KeepLast(h) \in Seq(Line)
           /\ Len(KeepLast(h)) \in 1..HistoryLimit
           /\ KeepLast(h)[Len(KeepLast(h))] = h[Len(h)]
<1>1. HistoryLimit \in Nat \ {0} BY LimitAssumption
<1>2. Len(h) \in Nat \ {0} BY EmptySeq, LenProperties
<1>3. CASE Len(h) <= HistoryLimit
  BY <1>1, <1>2, <1>3 DEF KeepLast
<1>4. CASE Len(h) > HistoryLimit
  <2> DEFINE first == Len(h) - HistoryLimit + 1
  <2>1. first \in Int /\ first >= 1 /\ first <= Len(h) BY <1>1, <1>2, <1>4
  <2>2. \A i \in first..Len(h) : h[i] \in Line
    BY <1>2, <2>1, ElementOfSeq
  <2>3. /\ SubSeq(h, first, Len(h)) \in Seq(Line)
        /\ Len(SubSeq(h, first, Len(h))) =
             IF first <= Len(h) THEN Len(h) - first + 1 ELSE 0
        /\ \A i \in 1..(Len(h) - first + 1) :
             SubSeq(h, first, Len(h))[i] = h[first + i - 1]
    <3> HIDE DEF first
    <3> QED BY <1>2, <2>1, <2>2, SubSeqProperties
  <2>4. KeepLast(h) = SubSeq(h, first, Len(h)) BY <1>4 DEF KeepLast
  <2>5. Len(h) - first + 1 = HistoryLimit BY <1>1, <1>2
  <2>6. Len(KeepLast(h)) = HistoryLimit BY <2>1, <2>3, <2>4, <2>5
  <2>7. SubSeq(h, first, Len(h))[HistoryLimit] = h[first + HistoryLimit - 1]
    BY <2>3, <2>5, <1>1
  <2>8. first + HistoryLimit - 1 = Len(h) BY <1>1, <1>2
  <2> QED BY <1>1, <2>3, <2>4, <2>6, <2>7, <2>8
<1> QED BY <1>1, <1>2, <1>3, <1>4

\* A line that is added becomes the last one
LEMMA AddLineFacts ==
    ASSUME NEW h \in Seq(Line), NEW who \in {"User", "Program", "Chat"},
           NEW text \in Contents
    PROVE  /\ AddLine(h, who, text) \in Seq(Line)
           /\ Len(AddLine(h, who, text)) \in 1..HistoryLimit
           /\ AddLine(h, who, text)[Len(AddLine(h, who, text))]
                = [who |-> who, text |-> text]
<1> DEFINE line == [who |-> who, text |-> text]
           longer == Append(h, line)
<1>1. line \in Line BY DEF Line
<1>2. /\ longer \in Seq(Line)
      /\ longer # <<>>
      /\ Len(longer) = Len(h) + 1
      /\ longer[Len(h) + 1] = line
  <2> HIDE DEF line
  <2> QED BY <1>1, AppendProperties
<1>3. AddLine(h, who, text) = KeepLast(longer) BY DEF AddLine
<1> HIDE DEF longer
<1> QED BY <1>2, <1>3, KeepLastFacts

\* After a turn of the user its line is the last one, added or already there
LEMMA AddUserLineFacts ==
    ASSUME NEW h \in Seq(Line), NEW text \in Contents
    PROVE  /\ AddUserLine(h, text) \in Seq(Line)
           /\ Len(AddUserLine(h, text)) \in 1..HistoryLimit
           /\ AddUserLine(h, text)[Len(AddUserLine(h, text))]
                = [who |-> "User", text |-> text]
<1> DEFINE line == [who |-> "User", text |-> text]
<1>1. CASE h # <<>> /\ h[Len(h)] = line
  <2>1. AddUserLine(h, text) = KeepLast(h) BY <1>1 DEF AddUserLine
  <2> QED BY <1>1, <2>1, KeepLastFacts
<1>2. CASE ~(h # <<>> /\ h[Len(h)] = line)
  <2>1. AddUserLine(h, text) = AddLine(h, "User", text) BY <1>2 DEF AddUserLine
  <2> QED BY <2>1, AddLineFacts
<1> QED BY <1>1, <1>2

-----------------------------------------------------------------------------
(* The inductive invariant *)

\* Inside a turn of the user that found no program assigned
Turn == {"find", "match", "assign", "forward"}

\* What the place of a handler says of its variables
FrameInv ==
    \A m \in Msgs :
        /\ pc[m] # "unsent" => msg[m] \in Message
        /\ pc[m] \in Working \cup {"lock"} => dialogx[m] \in Objs
        /\ pc[m] \in {"unsent", "queued", "done"} => outer[m] = Nil
        /\ pc[m] = "inserting" => dialogx[m] = m
        /\ pc[m] = "inserting" <=> mapWriter = m

\* A message waits in at most one place of the channel of its sender
QueueInv ==
    \A s \in Sources : \A k \in 1..Len(chan[s]) :
        /\ pc[chan[s][k]] = "queued"
        /\ msg[chan[s][k]].src = s
        /\ \A j \in 1..Len(chan[s]) : chan[s][j] = chan[s][k] => j = k

\* A mutex is held by exactly the handlers that believe they hold it
LockInv == \A m \in Msgs, o \in Objs : lock[o] = m <=> Owns(m, o)

\* What such a turn knows of its dialog until it lets go of it
TurnOK(m) ==
    pc[m] \in Turn =>
        LET h == Dlg(m).chatHistory IN
        /\ msg[m].event = 1001
        /\ Dlg(m).program = NoIntent <=> pc[m] # "forward"
        /\ pc[m] = "forward" => commandFirst \/ ~Dlg(m).mutil
        /\ Len(h) \in 1..HistoryLimit
        /\ h[Len(h)] = [who |-> "User", text |-> msg[m].content]
TurnInv == \A m \in Msgs : TurnOK(m)

\* ProgramExcludesChat, but for the turn that is just giving the dialog to a program
RouteInv ==
    \A o \in Objs : info[o].program # NoIntent =>
        \/ ~info[o].mutil /\ ~info[o].firstMutil
        \/ \E m \in Msgs : pc[m] = "forward" /\ dialogx[m] = o

\* Nothing is handed over before the handler returns
OutInv == \A m \in Msgs : pc[m] # "done" => out[m] = <<>>

\* A handler that creates an entry found none that was loaded
LoadInv ==
    \A m \in Msgs : pc[m] \in {"insert", "inserting"} =>
                        dialogs[msg[m].dlg] # msg[m].dlg

IInv == /\ TypeOK /\ FrameInv /\ QueueInv /\ LockInv /\ TurnInv /\ RouteInv
        /\ OutInv /\ LoadInv /\ TurnHandedOver /\ ChatSeesOwnTurn

-----------------------------------------------------------------------------
(* Types *)

\* A DialogInfo stays one when a field is given a value of its type
LEMMA FieldUpdates ==
    \A r \in DialogInfo :
        /\ \A p \in Intents \cup {NoIntent} : [r EXCEPT !.program = p] \in DialogInfo
        /\ \A b \in BOOLEAN : [r EXCEPT !.mutil = b] \in DialogInfo
        /\ \A b, c \in BOOLEAN : [r EXCEPT !.firstMutil = b, !.mutil = c] \in DialogInfo
        /\ \A h \in Seq(Line) : [r EXCEPT !.chatHistory = h] \in DialogInfo
        /\ \A h \in Seq(Line), b \in BOOLEAN :
              [r EXCEPT !.chatHistory = h, !.firstMutil = b] \in DialogInfo
BY DEF DialogInfo

\* What the handlers hand over is a Delivery
LEMMA DeliveryTypes ==
    ASSUME NEW i \in Intents \cup {NoIntent}, NEW b \in BOOLEAN, NEW h \in Seq(Line)
    PROVE  ToUser \in Delivery /\ ToProgram(i) \in Delivery /\ ToChat(b, h) \in Delivery
<1>1. <<>> \in Seq(Line) BY EmptySeq
<1>2. {"user", "program", "chat"} = Sources BY DEF Sources
<1> QED BY <1>1, <1>2 DEF ToUser, ToProgram, ToChat, Delivery

\* At the start every variable holds a value of its kind
LEMMA InitType == Init => TypeOK
<1> SUFFICES ASSUME Init PROVE TypeOK OBVIOUS
<1>1. PICK loaded \in LoadedSets :
        /\ dialogs = [d \in Dialogs |-> IF d \in loaded THEN d ELSE Nil]
        /\ \E saved \in [loaded -> SavedInfos] :
             info = [o \in Objs |-> IF o \in loaded THEN saved[o] ELSE NewInfo]
  BY DEF Init
<1>2. NewInfo \in DialogInfo BY DEF NewInfo, DialogInfo
<1>3. SavedInfos \subseteq DialogInfo
  <2> SUFFICES ASSUME NEW s \in SavedInfos PROVE s \in DialogInfo OBVIOUS
  <2> DEFINE h(c) == <<[who |-> "User", text |-> c]>>
             r(p, u, f, c) == [program |-> p, mutil |-> u, firstMutil |-> f, chatHistory |-> h(c)]
  <2>1. \/ s = NewInfo
        \/ \E u, f \in BOOLEAN, c \in Contents : s = r(NoIntent, u, f, c)
        \/ \E p \in Intents, c \in Contents : s = r(p, FALSE, FALSE, c)
    BY DEF SavedInfos
  <2>2. ASSUME NEW c \in Contents PROVE h(c) \in Seq(Line)
    <3>1. [who |-> "User", text |-> c] \in Line BY DEF Line
    <3> QED BY <3>1
  <2> HIDE DEF h
  <2>3. ASSUME NEW p \in Intents \cup {NoIntent}, NEW u \in BOOLEAN, NEW f \in BOOLEAN,
               NEW c \in Contents
        PROVE  r(p, u, f, c) \in DialogInfo
    BY <2>2 DEF DialogInfo
  <2> HIDE DEF r
  <2> QED BY <1>2, <2>1, <2>3
<1>4. info \in [Objs -> DialogInfo] BY <1>1, <1>2, <1>3
<1>5. dialogs \in [Dialogs -> Objs \cup {Nil}] BY <1>1 DEF Objs
<1>6. chan \in [Sources -> Seq(Msgs)] BY EmptySeq DEF Init
<1>7. out \in [Msgs -> Seq(Delivery)] BY EmptySeq DEF Init
<1>8. pc \in [Msgs -> PCs] BY DEF Init, PCs
<1> QED BY <1>4, <1>5, <1>6, <1>7, <1>8 DEF Init, TypeOK

\* The unlocks of a returning handler keep every variable in its type
LEMMA ReturnType ==
    ASSUME TypeOK, NEW m \in Msgs, Return(m)
    PROVE  /\ lock' \in [Objs -> Msgs \cup {Nobody}]
           /\ pc' \in [Msgs -> PCs]
           /\ dialogx' \in [Msgs -> Objs \cup {Nil}]
           /\ outer' \in [Msgs -> Objs \cup {Nil}]
           /\ best' \in [Msgs -> Intents \cup {NoIntent}]
           /\ hints' \in [Msgs -> BOOLEAN]
BY DEF TypeOK, Return, GoTo, PCs

\* Every step keeps every type
LEMMA TypeStep ==
    ASSUME TypeOK, FrameInv, [Next]_vars
    PROVE  TypeOK'
<1>1. ASSUME NEW s \in Sources, NEW m \in Msgs, HandleRequestMessage(s, m)
      PROVE  TypeOK'
  <2>1. PICK e \in EventsOf[s], d \in Dialogs, c \in Contents :
          msg' = [msg EXCEPT ![m] = [src |-> s, event |-> e, dlg |-> d, content |-> c]]
    BY <1>1 DEF HandleRequestMessage
  <2>2. e \in Int BY EventsAssumption DEF EventsOf, Sources
  <2>3. msg' \in [Msgs -> Message \cup {NoMsg}] BY <2>1, <2>2 DEF TypeOK, Message
  <2>4. chan' \in [Sources -> Seq(Msgs)]
    <3>1. chan[s] \in Seq(Msgs) BY DEF TypeOK
    <3>2. Append(chan[s], m) \in Seq(Msgs) BY <3>1, AppendProperties
    <3> QED BY <1>1, <3>2 DEF HandleRequestMessage, TypeOK
  <2> QED BY <1>1, <2>3, <2>4 DEF HandleRequestMessage, TypeOK, GoTo, PCs, local, shared
<1>2. ASSUME NEW s \in Sources, Run(s) PROVE TypeOK'
  <2>1. chan[s] \in Seq(Msgs) /\ chan[s] # <<>> BY <1>2 DEF Run, TypeOK
  <2>2. Head(chan[s]) \in Msgs /\ Tail(chan[s]) \in Seq(Msgs)
    BY <2>1, HeadTailProperties
  <2> QED BY <1>2, <2>2 DEF Run, TypeOK, GoTo, PCs, local, shared
<1>3. ASSUME NEW m \in Msgs, Lookup(m) PROVE TypeOK'
  <2>1. MapRead(msg[m].dlg) \subseteq Objs \cup {Nil}
    <3>1. msg[m].dlg \in Dialogs BY <1>3 DEF Lookup, FrameInv, Message
    <3> QED BY <3>1 DEF MapRead, TypeOK
  <2> QED BY <1>3, <2>1 DEF Lookup, TypeOK, GoTo, PCs, shared
<1>4. ASSUME NEW m \in Msgs, LookupThrows(m) PROVE TypeOK'
  BY <1>4 DEF LookupThrows, TypeOK, local, shared
<1>5. ASSUME NEW m \in Msgs, InsertBegin(m) PROVE TypeOK'
  BY <1>5 DEF InsertBegin, TypeOK, GoTo, PCs, Objs
<1>6. ASSUME NEW m \in Msgs, InsertEnd(m) PROVE TypeOK'
  BY <1>6 DEF InsertEnd, TypeOK, GoTo, PCs, Objs, local
<1>7. ASSUME NEW m \in Msgs, AcquireLock(m) PROVE TypeOK'
  BY <1>7 DEF AcquireLock, TypeOK, GoTo, PCs, Working, local
<1>8. ASSUME NEW m \in Msgs, AssignedTurn(m) PROVE TypeOK'
  <2>1. dialogx[m] \in Objs /\ msg[m] \in Message
    BY <1>8 DEF AssignedTurn, Handles, FrameInv, Working
  <2>2. info' \in [Objs -> DialogInfo]
    <3>1. AddUserLine(info[dialogx[m]].chatHistory, msg[m].content) \in Seq(Line)
      BY <2>1, AddUserLineFacts DEF TypeOK, DialogInfo, Message
    <3>2. [info[dialogx[m]] EXCEPT !.chatHistory = AddUserLine(@, msg[m].content), !.firstMutil = FALSE] \in DialogInfo
      BY <2>1, <3>1, FieldUpdates DEF TypeOK
    <3> QED BY <1>8, <2>1, <3>2 DEF AssignedTurn, TypeOK
  <2>3. out' \in [Msgs -> Seq(Delivery)]
    <3>1. ToProgram(Dlg(m).program) \in Delivery
      BY <2>1, DeliveryTypes DEF Dlg, TypeOK, DialogInfo
    <3> QED BY <1>8, <3>1, AppendProperties DEF AssignedTurn, Send, TypeOK
  <2> QED BY <1>8, <2>2, <2>3, ReturnType DEF AssignedTurn, TypeOK
<1>9. ASSUME NEW m \in Msgs, UnassignedTurn(m) PROVE TypeOK'
  <2>1. dialogx[m] \in Objs /\ msg[m] \in Message
    BY <1>9 DEF UnassignedTurn, Handles, FrameInv, Working
  <2>2. info' \in [Objs -> DialogInfo]
    <3>1. AddUserLine(info[dialogx[m]].chatHistory, msg[m].content) \in Seq(Line)
      BY <2>1, AddUserLineFacts DEF TypeOK, DialogInfo, Message
    <3>2. [info[dialogx[m]] EXCEPT !.chatHistory = AddUserLine(@, msg[m].content)] \in DialogInfo
      BY <2>1, <3>1, FieldUpdates DEF TypeOK
    <3> QED BY <1>9, <2>1, <3>2 DEF UnassignedTurn, TypeOK
  <2> QED BY <1>9, <2>2 DEF UnassignedTurn, TypeOK, GoTo, PCs, Working, local
<1>10. ASSUME NEW m \in Msgs, FindBestIntent(m) PROVE TypeOK'
  <2>1. Formatted(m) \in Contents
    BY <1>10, FormatAssumption DEF Formatted, FindBestIntent, FrameInv, Message
  <2> QED BY <1>10, <2>1 DEF FindBestIntent, TypeOK, GoTo, PCs, Working, shared
<1>11. ASSUME NEW m \in Msgs, Match(m) PROVE TypeOK'
  <2>1. Formatted(m) \in Contents
    BY <1>11, FormatAssumption DEF Formatted, Match, FrameInv, Message
  <2>2. PICK i \in IF Winners[Formatted(m)] = {} THEN {NoIntent}
                   ELSE Winners[Formatted(m)] :
          /\ best' = [best EXCEPT ![m] = i]
          /\ IntentCache' = IF i # NoIntent /\ ~Dlg(m).mutil
                            THEN [IntentCache EXCEPT ![Formatted(m)] = i]
                            ELSE IntentCache
    BY <1>11 DEF Match
  <2>3. i \in Intents \cup {NoIntent} BY <2>1, WinnersAssumption
  <2>4. /\ best' \in [Msgs -> Intents \cup {NoIntent}]
        /\ IntentCache' \in [Contents -> Intents \cup {NoIntent}]
    BY <2>2, <2>3 DEF TypeOK
  <2> QED BY <1>11, <2>4 DEF Match, TypeOK, GoTo, PCs, Working
<1>12. ASSUME NEW m \in Msgs, AssignProgram(m) PROVE TypeOK'
  <2>1. dialogx[m] \in Objs BY <1>12 DEF AssignProgram, FrameInv, Working
  <2>2. info' \in [Objs -> DialogInfo]
    <3>1. [info[dialogx[m]] EXCEPT !.program = best[m]] \in DialogInfo
      BY <2>1, FieldUpdates DEF TypeOK
    <3> QED BY <1>12, <2>1, <3>1 DEF AssignProgram, TypeOK
  <2> QED BY <1>12, <2>2 DEF AssignProgram, TypeOK, GoTo, PCs, Working, local
<1>13. ASSUME NEW m \in Msgs, ForwardToProgram(m) PROVE TypeOK'
  <2>1. dialogx[m] \in Objs BY <1>13 DEF ForwardToProgram, FrameInv, Working
  <2>2. info' \in [Objs -> DialogInfo]
    <3>1. [info[dialogx[m]] EXCEPT !.firstMutil = FALSE, !.mutil = FALSE] \in DialogInfo
      BY <2>1, FieldUpdates DEF TypeOK
    <3> QED BY <1>13, <2>1, <3>1 DEF ForwardToProgram, TypeOK
  <2>3. out' \in [Msgs -> Seq(Delivery)]
    <3>1. ToProgram(Dlg(m).program) \in Delivery
      BY <2>1, DeliveryTypes DEF Dlg, TypeOK, DialogInfo
    <3> QED BY <1>13, <3>1, AppendProperties DEF ForwardToProgram, Send, TypeOK
  <2> QED BY <1>13, <2>2, <2>3, ReturnType DEF ForwardToProgram, TypeOK
<1>14. ASSUME NEW m \in Msgs, ForwardToChat(m) PROVE TypeOK'
  <2>1. dialogx[m] \in Objs BY <1>14 DEF ForwardToChat, FrameInv, Working
  <2>2. info' \in [Objs -> DialogInfo]
    <3>1. [info[dialogx[m]] EXCEPT !.firstMutil = ~Dlg(m).mutil, !.mutil = TRUE] \in DialogInfo
      BY <2>1, FieldUpdates DEF TypeOK
    <3> QED BY <1>14, <2>1, <3>1 DEF ForwardToChat, TypeOK
  <2>3. out' \in [Msgs -> Seq(Delivery)]
    <3>1. ToChat(hints[m], Dlg(m).chatHistory) \in Delivery
      BY <2>1, DeliveryTypes DEF Dlg, TypeOK, DialogInfo
    <3> QED BY <1>14, <3>1, AppendProperties DEF ForwardToChat, Send, TypeOK
  <2> QED BY <1>14, <2>2, <2>3, ReturnType DEF ForwardToChat, TypeOK
<1>15. ASSUME NEW m \in Msgs, ClientTerminate(m) PROVE TypeOK'
  <2>1. dialogx[m] \in Objs BY <1>15 DEF ClientTerminate, Handles, FrameInv, Working
  <2>2. info' \in [Objs -> DialogInfo]
    <3>1. [info[dialogx[m]] EXCEPT !.program = NoIntent] \in DialogInfo
      BY <2>1, FieldUpdates DEF TypeOK
    <3> QED BY <1>15, <2>1, <3>1 DEF ClientTerminate, TypeOK
  <2>3. out' \in [Msgs -> Seq(Delivery)]
    <3>1. ToProgram(NoIntent) \in Delivery
      BY DeliveryTypes, EmptySeq
    <3>2. Append(out[m], ToProgram(NoIntent)) \in Seq(Delivery)
      BY <3>1, AppendProperties DEF TypeOK
    <3>3. out' = out \/ out' = [out EXCEPT ![m] = Append(@, ToProgram(NoIntent))]
      BY <1>15 DEF ClientTerminate, Send
    <3> QED BY <3>2, <3>3 DEF TypeOK
  <2> QED BY <1>15, <2>2, <2>3, ReturnType DEF ClientTerminate, TypeOK
<1>16. ASSUME NEW m \in Msgs, ServerMessage(m) PROVE TypeOK'
  <2>1. dialogx[m] \in Objs /\ msg[m] \in Message
    BY <1>16 DEF ServerMessage, Handles, FrameInv, Working
  <2>2. info' \in [Objs -> DialogInfo]
    <3> DEFINE who == IF msg[m].src = "program" THEN "Program" ELSE "Chat"
    <3>1. AddLine(info[dialogx[m]].chatHistory, who, msg[m].content) \in Seq(Line)
      <4>1. who \in {"User", "Program", "Chat"} OBVIOUS
      <4> HIDE DEF who
      <4> QED BY <2>1, <4>1, AddLineFacts DEF TypeOK, DialogInfo, Message
    <3>2. [info[dialogx[m]] EXCEPT !.chatHistory = AddLine(@, who, msg[m].content)] \in DialogInfo
      BY <2>1, <3>1, FieldUpdates DEF TypeOK
    <3> QED BY <1>16, <2>1, <3>2 DEF ServerMessage, TypeOK
  <2>3. out' \in [Msgs -> Seq(Delivery)]
    <3>1. ToUser \in Delivery BY DeliveryTypes, EmptySeq
    <3> QED BY <1>16, <3>1, AppendProperties DEF ServerMessage, Send, TypeOK
  <2> QED BY <1>16, <2>2, <2>3, ReturnType DEF ServerMessage, TypeOK
<1>17. ASSUME NEW m \in Msgs, ToolFinishOrNotFound(m) PROVE TypeOK'
  <2>1. dialogx[m] \in Objs
    BY <1>17 DEF ToolFinishOrNotFound, Handles, FrameInv, Working
  <2>2. info' \in [Objs -> DialogInfo]
    <3>1. [info[dialogx[m]] EXCEPT !.program = NoIntent] \in DialogInfo
      BY <2>1, FieldUpdates DEF TypeOK
    <3> QED BY <1>17, <2>1, <3>1 DEF ToolFinishOrNotFound, TypeOK
  <2>3. out' \in [Msgs -> Seq(Delivery)]
    <3>1. ToUser \in Delivery BY DeliveryTypes, EmptySeq
    <3> QED BY <1>17, <3>1, AppendProperties DEF ToolFinishOrNotFound, Send, TypeOK
  <2> QED BY <1>17, <2>2, <2>3, ReturnType DEF ToolFinishOrNotFound, TypeOK
<1>18. ASSUME NEW m \in Msgs, ToolNotSupport(m) PROVE TypeOK'
  <2>1. dialogx[m] \in Objs BY <1>18 DEF ToolNotSupport, Handles, FrameInv, Working
  <2>2. info' \in [Objs -> DialogInfo]
    <3>1. [info[dialogx[m]] EXCEPT !.program = NoIntent] \in DialogInfo
      BY <2>1, FieldUpdates DEF TypeOK
    <3> QED BY <1>18, <2>1, <3>1 DEF ToolNotSupport, TypeOK
  <2> QED BY <1>18, <2>1, <2>2 DEF ToolNotSupport, CallUserHandler, TypeOK, GoTo, PCs
<1>19. ASSUME NEW m \in Msgs, ChatDemand(m) PROVE TypeOK'
  <2>1. dialogx[m] \in Objs BY <1>19 DEF ChatDemand, Handles, FrameInv, Working
  <2>2. info' \in [Objs -> DialogInfo]
    <3>1. [info[dialogx[m]] EXCEPT !.mutil = FALSE] \in DialogInfo
      BY <2>1, FieldUpdates DEF TypeOK
    <3> QED BY <1>19, <2>1, <3>1 DEF ChatDemand, TypeOK
  <2> QED BY <1>19, <2>1, <2>2 DEF ChatDemand, CallUserHandler, TypeOK, GoTo, PCs
<1>20. ASSUME NEW m \in Msgs, UnknownEvent(m) PROVE TypeOK'
  BY <1>20, ReturnType DEF UnknownEvent, TypeOK
<1>21. CASE UNCHANGED vars BY <1>21 DEF vars, TypeOK
<1> QED BY <1>1, <1>2, <1>3, <1>4, <1>5, <1>6, <1>7, <1>8, <1>9, <1>10, <1>11, <1>12,
           <1>13, <1>14, <1>15, <1>16, <1>17, <1>18, <1>19, <1>20, <1>21 DEF Next, Step

-----------------------------------------------------------------------------
(* Control: the place of the handlers, their frames and their locks *)

\* The three shapes that the steps of a handler inside its switch have
Moving(m) ==
    /\ pc[m] \in Working
    /\ \E where \in Turn : GoTo(m, where)
    /\ UNCHANGED <<chan, msg, dialogx, outer, dialogs, mapWriter, lock>>
Returning(m) ==
    /\ pc[m] \in Working
    /\ Return(m)
    /\ UNCHANGED <<chan, msg, dialogs, mapWriter>>
Calling(m) ==
    /\ pc[m] = "handle"
    /\ outer[m] = Nil
    /\ outer' = [outer EXCEPT ![m] = dialogx[m]]
    /\ dialogx' = [dialogx EXCEPT ![m] = Nil]
    /\ GoTo(m, "lookup")
    /\ UNCHANGED <<chan, msg, dialogs, mapWriter, lock>>

\* No other step of a handler leaves its switch
LEMMA Shapes ==
    ASSUME NEW m \in Msgs, Step(m)
    PROVE  \/ Lookup(m) \/ LookupThrows(m) \/ InsertEnd(m)
           \/ Moving(m) \/ Returning(m) \/ Calling(m)
<1>1. ASSUME UnassignedTurn(m) \/ FindBestIntent(m) \/ Match(m) \/ AssignProgram(m)
      PROVE  Moving(m)
  <2>1. CASE UnassignedTurn(m)
    BY <2>1 DEF UnassignedTurn, Handles, Moving, Working, Turn, local
  <2>2. CASE FindBestIntent(m)
    BY <2>2 DEF FindBestIntent, Moving, Working, Turn, shared
  <2>3. CASE Match(m)
    BY <2>3 DEF Match, Moving, Working, Turn
  <2>4. CASE AssignProgram(m)
    BY <2>4 DEF AssignProgram, Moving, Working, Turn, local
  <2> QED BY <1>1, <2>1, <2>2, <2>3, <2>4
<1>2. ASSUME \/ AssignedTurn(m) \/ ForwardToProgram(m) \/ ForwardToChat(m)
             \/ ClientTerminate(m) \/ ServerMessage(m) \/ ToolFinishOrNotFound(m)
             \/ UnknownEvent(m)
      PROVE  Returning(m)
  BY <1>2 DEF AssignedTurn, ForwardToProgram, ForwardToChat, ClientTerminate,
              ServerMessage, ToolFinishOrNotFound, UnknownEvent, Handles, Returning, Working
<1>3. ASSUME ToolNotSupport(m) \/ ChatDemand(m) PROVE Calling(m)
  BY <1>3 DEF ToolNotSupport, ChatDemand, CallUserHandler, Handles, InUserHandler, Calling
<1> QED BY <1>1, <1>2, <1>3 DEF Step

\* The frames: who is where, with which object
LEMMA FrameStep ==
    ASSUME TypeOK, FrameInv, QueueInv, [Next]_vars
    PROVE  FrameInv'
<1>1. ASSUME NEW s \in Sources, NEW m \in Msgs, HandleRequestMessage(s, m)
      PROVE  FrameInv'
  <2>1. PICK e \in EventsOf[s], d \in Dialogs, c \in Contents :
          msg' = [msg EXCEPT ![m] = [src |-> s, event |-> e, dlg |-> d, content |-> c]]
    BY <1>1 DEF HandleRequestMessage
  <2>2. e \in Int BY EventsAssumption DEF EventsOf, Sources
  <2>3. msg'[m] \in Message BY <2>1, <2>2 DEF TypeOK, Message
  <2> QED BY <1>1, <2>1, <2>3
          DEF HandleRequestMessage, FrameInv, TypeOK, GoTo, Working, local, shared
<1>2. ASSUME NEW s \in Sources, Run(s) PROVE FrameInv'
  <2>1. chan[s] \in Seq(Msgs) /\ chan[s] # <<>> BY <1>2 DEF Run, TypeOK
  <2>2. Head(chan[s]) = chan[s][1] /\ 1 \in 1..Len(chan[s]) /\ chan[s][1] \in Msgs
    BY <2>1
  <2>3. pc[Head(chan[s])] = "queued" BY <2>2 DEF QueueInv
  <2> QED BY <1>2, <2>2, <2>3 DEF Run, FrameInv, TypeOK, GoTo, Working, local, shared
<1>3. ASSUME NEW m \in Msgs, Lookup(m) PROVE FrameInv'
  <2>1. MapRead(msg[m].dlg) \subseteq Objs \cup {Nil}
    <3>1. msg[m].dlg \in Dialogs BY <1>3 DEF Lookup, FrameInv, Message
    <3> QED BY <3>1 DEF MapRead, TypeOK
  <2> QED BY <1>3, <2>1
          DEF Lookup, FrameInv, TypeOK, GoTo, Working, shared, InUserHandler
<1>4. ASSUME NEW m \in Msgs, LookupThrows(m) PROVE FrameInv'
  BY <1>4 DEF LookupThrows, FrameInv, local, shared
<1>5. ASSUME NEW m \in Msgs, InsertBegin(m) PROVE FrameInv'
  BY <1>5, Disjoint DEF InsertBegin, FrameInv, TypeOK, GoTo, Working
<1>6. ASSUME NEW m \in Msgs, InsertEnd(m) PROVE FrameInv'
  BY <1>6, Disjoint DEF InsertEnd, FrameInv, TypeOK, GoTo, Working, local, Objs
<1>7. ASSUME NEW m \in Msgs, AcquireLock(m) PROVE FrameInv'
  BY <1>7 DEF AcquireLock, FrameInv, TypeOK, GoTo, Working, local
<1>8. ASSUME NEW m \in Msgs, Moving(m) PROVE FrameInv'
  BY <1>8 DEF Moving, FrameInv, TypeOK, GoTo, Working, Turn
<1>9. ASSUME NEW m \in Msgs, Returning(m) PROVE FrameInv'
  BY <1>9 DEF Returning, Return, FrameInv, TypeOK, GoTo, Working
<1>10. ASSUME NEW m \in Msgs, Calling(m) PROVE FrameInv'
  BY <1>10 DEF Calling, FrameInv, TypeOK, GoTo, Working
<1>11. CASE UNCHANGED vars BY <1>11 DEF vars, FrameInv
<1> QED BY <1>1, <1>2, <1>3, <1>4, <1>5, <1>6, <1>7, <1>8, <1>9, <1>10, <1>11, Shapes
        DEF Next

\* The channels: every waiting message waits once
LEMMA QueueStep ==
    ASSUME TypeOK, FrameInv, QueueInv, [Next]_vars
    PROVE  QueueInv'
<1>1. ASSUME NEW s \in Sources, NEW m \in Msgs, HandleRequestMessage(s, m)
      PROVE  QueueInv'
  <2>1. PICK e \in EventsOf[s], d \in Dialogs, c \in Contents :
          msg' = [msg EXCEPT ![m] = [src |-> s, event |-> e, dlg |-> d, content |-> c]]
    BY <1>1 DEF HandleRequestMessage
  <2>2. msg'[m].src = s /\ pc'[m] = "queued"
    BY <1>1, <2>1 DEF HandleRequestMessage, GoTo, TypeOK
  <2>3. \A n \in Msgs : n # m => msg'[n] = msg[n] /\ pc'[n] = pc[n]
    BY <1>1, <2>1 DEF HandleRequestMessage, GoTo, TypeOK
  <2>4. \A t \in Sources : \A k \in 1..Len(chan[t]) : chan[t][k] \in Msgs /\ chan[t][k] # m
    BY <1>1 DEF HandleRequestMessage, QueueInv, TypeOK
  <2> SUFFICES ASSUME NEW t \in Sources, NEW k \in 1..Len(chan'[t])
               PROVE  /\ pc'[chan'[t][k]] = "queued"
                      /\ msg'[chan'[t][k]].src = t
                      /\ \A j \in 1..Len(chan'[t]) : chan'[t][j] = chan'[t][k] => j = k
    BY DEF QueueInv
  <2>5. CASE t # s
    <3>1. chan'[t] = chan[t] BY <1>1, <2>5 DEF HandleRequestMessage, TypeOK
    <3> QED BY <2>3, <2>4, <3>1 DEF QueueInv
  <2>6. CASE t = s
    <3>1. chan'[s] = Append(chan[s], m) /\ chan[s] \in Seq(Msgs)
      BY <1>1 DEF HandleRequestMessage, TypeOK
    <3>2. /\ Len(chan'[s]) = Len(chan[s]) + 1
          /\ \A j \in 1..Len(chan[s]) : chan'[s][j] = chan[s][j]
          /\ chan'[s][Len(chan[s]) + 1] = m
          /\ Len(chan[s]) \in Nat
      BY <3>1, AppendProperties, LenProperties
    <3>3. CASE k \in 1..Len(chan[s])
      BY <2>3, <2>4, <2>6, <3>2, <3>3 DEF QueueInv
    <3>4. CASE k = Len(chan[s]) + 1
      BY <2>2, <2>4, <2>6, <3>2, <3>4
    <3> QED BY <2>6, <3>2, <3>3, <3>4
  <2> QED BY <2>5, <2>6
<1>2. ASSUME NEW s \in Sources, Run(s) PROVE QueueInv'
  <2>1. chan[s] \in Seq(Msgs) /\ chan[s] # <<>> BY <1>2 DEF Run, TypeOK
  <2>2. /\ Head(chan[s]) = chan[s][1]
        /\ Len(Tail(chan[s])) = Len(chan[s]) - 1
        /\ \A j \in 1..Len(Tail(chan[s])) : Tail(chan[s])[j] = chan[s][j + 1]
        /\ Len(chan[s]) \in Nat \ {0}
    BY <2>1, HeadTailProperties, EmptySeq, LenProperties
  <2>3. \A n \in Msgs : n # chan[s][1] => pc'[n] = pc[n]
    BY <1>2, <2>2 DEF Run, GoTo, TypeOK
  <2> SUFFICES ASSUME NEW t \in Sources, NEW k \in 1..Len(chan'[t])
               PROVE  /\ pc'[chan'[t][k]] = "queued"
                      /\ msg'[chan'[t][k]].src = t
                      /\ \A j \in 1..Len(chan'[t]) : chan'[t][j] = chan'[t][k] => j = k
    BY DEF QueueInv
  <2>4. msg' = msg BY <1>2 DEF Run
  <2>5. CASE t # s
    <3>1. chan'[t] = chan[t] /\ chan[t] \in Seq(Msgs) BY <1>2, <2>5 DEF Run, TypeOK
    <3>2. chan[t][k] \in Msgs BY <3>1
    <3>3. msg[chan[t][k]].src = t /\ msg[chan[s][1]].src = s
      BY <2>2, <3>1 DEF QueueInv
    <3>4. chan[t][k] # chan[s][1] BY <2>5, <3>3
    <3> QED BY <2>3, <2>4, <3>1, <3>2, <3>4 DEF QueueInv
  <2>6. CASE t = s
    <3>1. chan'[s] = Tail(chan[s]) BY <1>2 DEF Run, TypeOK
    <3>2. k + 1 \in 1..Len(chan[s]) /\ chan'[s][k] = chan[s][k + 1]
      BY <2>2, <2>6, <3>1
    <3>3. chan[s][k + 1] \in Msgs BY <2>1, <3>2
    <3>4. chan[s][k + 1] # chan[s][1] BY <2>2, <3>2 DEF QueueInv
    <3>5. \A j \in 1..Len(chan'[s]) : j + 1 \in 1..Len(chan[s])
                                      /\ chan'[s][j] = chan[s][j + 1]
      BY <2>2, <3>1
    <3> QED BY <2>3, <2>4, <2>6, <3>2, <3>3, <3>4, <3>5 DEF QueueInv
  <2> QED BY <2>5, <2>6
\* A step of a handler moves only itself, and its handler is not queued
<1>3. ASSUME NEW m \in Msgs, pc[m] # "queued", UNCHANGED <<chan, msg>>,
             \A n \in Msgs : n # m => pc'[n] = pc[n]
      PROVE  QueueInv'
  <2>1. \A t \in Sources : \A k \in 1..Len(chan[t]) : chan[t][k] \in Msgs /\ chan[t][k] # m
    BY <1>3 DEF QueueInv, TypeOK
  <2> QED BY <1>3, <2>1 DEF QueueInv
<1>4. ASSUME NEW m \in Msgs, Step(m) \/ InsertBegin(m) \/ AcquireLock(m)
      PROVE  /\ pc[m] # "queued"
             /\ UNCHANGED <<chan, msg>>
             /\ \A n \in Msgs : n # m => pc'[n] = pc[n]
  <2>1. CASE Lookup(m) \/ LookupThrows(m) \/ InsertEnd(m) \/ InsertBegin(m) \/ AcquireLock(m)
    BY <2>1 DEF Lookup, LookupThrows, InsertEnd, InsertBegin, AcquireLock, GoTo, TypeOK
  <2>2. CASE Moving(m) \/ Returning(m) \/ Calling(m)
    BY <2>2 DEF Moving, Returning, Calling, Return, GoTo, TypeOK, Working
  <2> QED BY <1>4, <2>1, <2>2, Shapes
<1>5. CASE UNCHANGED vars BY <1>5 DEF vars, QueueInv
<1> QED BY <1>1, <1>2, <1>3, <1>4, <1>5 DEF Next

\* The mutexes: held by the handlers that are inside, and by nobody else
LEMMA LockStep ==
    ASSUME TypeOK, FrameInv, QueueInv, LockInv, [Next]_vars
    PROVE  LockInv'
<1>1. ASSUME NEW s \in Sources, NEW m \in Msgs, HandleRequestMessage(s, m)
      PROVE  LockInv'
  BY <1>1 DEF HandleRequestMessage, LockInv, Owns, TypeOK, GoTo, Working, local, shared
<1>2. ASSUME NEW s \in Sources, Run(s) PROVE LockInv'
  <2>1. chan[s] \in Seq(Msgs) /\ chan[s] # <<>> BY <1>2 DEF Run, TypeOK
  <2>2. Head(chan[s]) = chan[s][1] /\ 1 \in 1..Len(chan[s]) /\ chan[s][1] \in Msgs
    BY <2>1
  <2>3. pc[Head(chan[s])] = "queued" BY <2>2 DEF QueueInv
  <2> QED BY <1>2, <2>2, <2>3 DEF Run, LockInv, Owns, TypeOK, GoTo, Working, local, shared
<1>3. ASSUME NEW m \in Msgs, Lookup(m) \/ LookupThrows(m) PROVE LockInv'
  BY <1>3 DEF Lookup, LookupThrows, LockInv, Owns, TypeOK, GoTo, Working, local, shared
<1>4. ASSUME NEW m \in Msgs, InsertBegin(m) \/ InsertEnd(m) PROVE LockInv'
  <2>1. \A n \in Msgs, o \in Objs : Owns(n, o)' <=> Owns(n, o)
    <3>1. CASE InsertBegin(m) BY <3>1 DEF InsertBegin, Owns, TypeOK, GoTo, Working
    <3>2. CASE InsertEnd(m) BY <3>2 DEF InsertEnd, Owns, TypeOK, GoTo, Working, local
    <3> QED BY <1>4, <3>1, <3>2
  <2>2. lock' = lock BY <1>4 DEF InsertBegin, InsertEnd
  <2> QED BY <2>1, <2>2 DEF LockInv
<1>5. ASSUME NEW m \in Msgs, AcquireLock(m) PROVE LockInv'
  <2>1. dialogx[m] \in Objs BY <1>5 DEF AcquireLock, FrameInv
  <2>2. \A n \in Msgs : ~Owns(n, dialogx[m])
    BY <1>5, <2>1, Disjoint DEF AcquireLock, LockInv
  <2> SUFFICES ASSUME NEW n \in Msgs, NEW o \in Objs
               PROVE  lock'[o] = n <=> Owns(n, o)'
    BY DEF LockInv
  <2>3. CASE o = dialogx[m]
    BY <1>5, <2>1, <2>2, <2>3 DEF AcquireLock, Owns, TypeOK, GoTo, Working, local
  <2>4. CASE o # dialogx[m]
    BY <1>5, <2>1, <2>4 DEF AcquireLock, LockInv, Owns, TypeOK, GoTo, Working, local
  <2> QED BY <2>3, <2>4
<1>6. ASSUME NEW m \in Msgs, Moving(m) PROVE LockInv'
  BY <1>6 DEF Moving, LockInv, Owns, TypeOK, GoTo, Working, Turn
<1>7. ASSUME NEW m \in Msgs, Returning(m) PROVE LockInv'
  <2> SUFFICES ASSUME NEW n \in Msgs, NEW o \in Objs
               PROVE  lock'[o] = n <=> Owns(n, o)'
    BY DEF LockInv
  <2>1. pc'[m] = "done" /\ outer'[m] = Nil
    BY <1>7 DEF Returning, Return, GoTo, TypeOK
  <2>2. lock'[o] = IF o = dialogx[m] \/ o = outer[m] THEN Nobody ELSE lock[o]
    BY <1>7 DEF Returning, Return
  <2>3. ~Owns(m, o)' BY <2>1, Disjoint DEF Owns, Working
  <2>4. n # m => (Owns(n, o)' <=> Owns(n, o))
    BY <1>7 DEF Returning, Return, GoTo, Owns, TypeOK
  <2>5. CASE o = dialogx[m] \/ o = outer[m]
    <3>1. Owns(m, o) BY <1>7, <2>5 DEF Returning, Owns
    <3> QED BY <2>2, <2>3, <2>4, <2>5, <3>1, Disjoint DEF LockInv
  <2>6. CASE ~(o = dialogx[m] \/ o = outer[m])
    <3>1. ~Owns(m, o) BY <2>6 DEF Owns
    <3> QED BY <2>2, <2>3, <2>4, <2>6, <3>1 DEF LockInv
  <2> QED BY <2>5, <2>6
<1>8. ASSUME NEW m \in Msgs, Calling(m) PROVE LockInv'
  BY <1>8, Disjoint DEF Calling, LockInv, FrameInv, Owns, TypeOK, GoTo, Working
<1>9. CASE UNCHANGED vars BY <1>9 DEF vars, LockInv, Owns
<1> QED BY <1>1, <1>2, <1>3, <1>4, <1>5, <1>6, <1>7, <1>8, <1>9, Shapes DEF Next

\* A loaded entry is never found missing
LEMMA LoadStep ==
    ASSUME TypeOK, FrameInv, QueueInv, LoadInv, [Next]_vars
    PROVE  LoadInv'
<1>1. ASSUME NEW s \in Sources, NEW m \in Msgs, HandleRequestMessage(s, m)
      PROVE  LoadInv'
  BY <1>1 DEF HandleRequestMessage, LoadInv, TypeOK, GoTo, shared
<1>2. ASSUME NEW s \in Sources, Run(s) PROVE LoadInv'
  BY <1>2 DEF Run, LoadInv, TypeOK, GoTo, shared
<1>3. ASSUME NEW m \in Msgs, Lookup(m) PROVE LoadInv'
  <2>1. msg[m].dlg \in Dialogs BY <1>3 DEF Lookup, FrameInv, Message
  <2>2. Nil \in MapRead(msg[m].dlg) => dialogs[msg[m].dlg] # msg[m].dlg
    BY <2>1, Disjoint DEF MapRead, FrameInv, Objs
  <2> QED BY <1>3, <2>2 DEF Lookup, LoadInv, TypeOK, GoTo, shared
<1>4. ASSUME NEW m \in Msgs, InsertEnd(m) PROVE LoadInv'
  <2>1. msg[m].dlg \in Dialogs BY <1>4 DEF InsertEnd, FrameInv, Message
  <2> QED BY <1>4, <2>1, Disjoint DEF InsertEnd, LoadInv, TypeOK, GoTo
<1>5. ASSUME NEW m \in Msgs, LookupThrows(m) \/ InsertBegin(m) \/ AcquireLock(m)
      PROVE  LoadInv'
  BY <1>5 DEF LookupThrows, InsertBegin, AcquireLock, LoadInv, TypeOK, GoTo, shared
<1>6. ASSUME NEW m \in Msgs, Moving(m) \/ Returning(m) \/ Calling(m) PROVE LoadInv'
  BY <1>6 DEF Moving, Returning, Calling, Return, LoadInv, TypeOK, GoTo, Turn
<1>7. CASE UNCHANGED vars BY <1>7 DEF vars, LoadInv
<1> QED BY <1>1, <1>2, <1>3, <1>4, <1>5, <1>6, <1>7, Shapes DEF Next

-----------------------------------------------------------------------------
(* Data: what the handlers do to their dialogs *)

\* A handler writes no object but the one it works on, and only from inside its switch
LEMMA OnlyOwnDialog ==
    ASSUME TypeOK, NEW m \in Msgs, Step(m)
    PROVE  /\ \A o \in Objs : o # dialogx[m] => info'[o] = info[o]
           /\ pc[m] \notin Working => info' = info
           /\ UNCHANGED <<commandFirst, msg>>
           /\ \A n \in Msgs : n # m => /\ pc'[n] = pc[n]
                                      /\ dialogx'[n] = dialogx[n]
                                      /\ outer'[n] = outer[n]
                                      /\ out'[n] = out[n]
<1>1. CASE Lookup(m) \/ LookupThrows(m) \/ InsertEnd(m)
  BY <1>1 DEF Lookup, LookupThrows, InsertEnd, TypeOK, GoTo, local, shared
<1>2. CASE UnassignedTurn(m) \/ FindBestIntent(m) \/ Match(m) \/ AssignProgram(m)
  BY <1>2 DEF UnassignedTurn, FindBestIntent, Match, AssignProgram, Handles, TypeOK,
              GoTo, Working, local, shared
<1>3. CASE AssignedTurn(m) \/ ForwardToProgram(m) \/ ForwardToChat(m)
  BY <1>3 DEF AssignedTurn, ForwardToProgram, ForwardToChat, Handles, TypeOK, Return,
              GoTo, Working, Send
<1>4. CASE ServerMessage(m) \/ ToolFinishOrNotFound(m) \/ UnknownEvent(m)
  BY <1>4 DEF ServerMessage, ToolFinishOrNotFound, UnknownEvent, Handles, TypeOK, Return,
              GoTo, Working, Send
<1>5. CASE ClientTerminate(m)
  BY <1>5 DEF ClientTerminate, Handles, TypeOK, Return, GoTo, Working, Send
<1>6. CASE ToolNotSupport(m) \/ ChatDemand(m)
  BY <1>6 DEF ToolNotSupport, ChatDemand, CallUserHandler, Handles, TypeOK, GoTo, Working
<1> QED BY <1>1, <1>2, <1>3, <1>4, <1>5, <1>6 DEF Step

\* Two handlers are never inside one object
LEMMA Exclusion ==
    ASSUME LockInv, NEW m \in Msgs, NEW n \in Msgs, NEW o \in Objs,
           Owns(m, o), Owns(n, o)
    PROVE  m = n
BY DEF LockInv

\* A turn is not disturbed by the steps of the other handlers
LEMMA OtherTurns ==
    ASSUME TypeOK, FrameInv, LockInv, TurnInv,
           NEW m \in Msgs, Step(m), NEW n \in Msgs, n # m
    PROVE  TurnOK(n)'
<1> SUFFICES ASSUME pc[n] \in Turn PROVE Dlg(n)' = Dlg(n)
  <2>1. /\ pc'[n] = pc[n] /\ msg' = msg /\ commandFirst' = commandFirst
    BY OnlyOwnDialog
  <2> QED BY <2>1 DEF TurnOK, TurnInv
<1>1. dialogx[n] \in Objs /\ Owns(n, dialogx[n])
  BY DEF FrameInv, Turn, Working, Owns
<1>2. dialogx'[n] = dialogx[n] BY OnlyOwnDialog
<1>3. CASE pc[m] \in Working
  <2>1. dialogx[m] # dialogx[n]
    BY <1>1, <1>3, Exclusion DEF Owns
  <2> QED BY <1>1, <1>2, <2>1, OnlyOwnDialog DEF Dlg
<1>4. CASE pc[m] \notin Working
  BY <1>2, <1>4, OnlyOwnDialog DEF Dlg
<1> QED BY <1>3, <1>4

\* Until it is handed over, a turn sits on a dialog whose last line is its own
LEMMA TurnStep ==
    ASSUME TypeOK, FrameInv, QueueInv, LockInv, TurnInv, [Next]_vars
    PROVE  TurnInv'
<1>1. ASSUME NEW s \in Sources, NEW m \in Msgs, HandleRequestMessage(s, m)
      PROVE  TurnInv'
  <2>1. \A n \in Msgs : n # m => msg'[n] = msg[n]
    BY <1>1 DEF HandleRequestMessage, TypeOK
  <2> QED BY <1>1, <2>1
          DEF HandleRequestMessage, TurnInv, TurnOK, Dlg, TypeOK, GoTo, Turn, local, shared
<1>2. ASSUME NEW s \in Sources, Run(s) PROVE TurnInv'
  BY <1>2 DEF Run, TurnInv, TurnOK, Dlg, TypeOK, GoTo, Turn, local, shared
<1>3. ASSUME NEW m \in Msgs, InsertBegin(m) \/ AcquireLock(m) PROVE TurnInv'
  BY <1>3 DEF InsertBegin, AcquireLock, TurnInv, TurnOK, Dlg, TypeOK, GoTo, Turn, local
<1>4. ASSUME NEW m \in Msgs, Step(m) PROVE TurnInv'
  <2> SUFFICES TurnOK(m)' BY <1>4, OtherTurns DEF TurnInv
  <2>1. CASE Lookup(m) \/ InsertEnd(m)
    BY <2>1 DEF Lookup, InsertEnd, TurnOK, Turn, GoTo, TypeOK
  <2>2. CASE LookupThrows(m)
    BY <2>2 DEF LookupThrows, TurnOK, TurnInv, Dlg, local, shared
  <2>3. CASE UnassignedTurn(m)
    <3> DEFINE o == dialogx[m]
               new == AddUserLine(info[o].chatHistory, msg[m].content)
    <3>1. o \in Objs /\ msg[m] \in Message
      BY <2>3 DEF UnassignedTurn, Handles, FrameInv, Working
    <3>2. info[o].chatHistory \in Seq(Line) /\ info[o] \in DialogInfo
      BY <3>1 DEF TypeOK, DialogInfo
    <3>3. msg[m].content \in Contents BY <3>1 DEF Message
    <3>4. /\ Len(new) \in 1..HistoryLimit
          /\ new[Len(new)] = [who |-> "User", text |-> msg[m].content]
      BY <3>2, <3>3, AddUserLineFacts
    <3>5. info'[o] = [info[o] EXCEPT !.chatHistory = new]
      BY <2>3, <3>1 DEF UnassignedTurn, TypeOK
    <3>6. /\ info'[o].chatHistory = new
          /\ info'[o].program = info[o].program
      BY <3>2, <3>5 DEF DialogInfo
    <3>7. dialogx' = dialogx /\ msg' = msg /\ pc'[m] = "find"
      BY <2>3 DEF UnassignedTurn, local, GoTo, TypeOK
    <3>8. msg[m].event = 1001 /\ info[o].program = NoIntent
      BY <2>3 DEF UnassignedTurn, Handles, Dlg
    <3> HIDE DEF new
    <3> QED BY <3>4, <3>6, <3>7, <3>8 DEF TurnOK, Dlg
  <2>4. CASE FindBestIntent(m) \/ Match(m)
    BY <2>4 DEF FindBestIntent, Match, TurnOK, TurnInv, Turn, Dlg, GoTo, TypeOK, shared
  <2>5. CASE AssignProgram(m)
    <3>1. dialogx[m] \in Objs BY <2>5 DEF AssignProgram, FrameInv, Working
    <3>2. /\ info'[dialogx[m]].program = best[m]
          /\ info'[dialogx[m]].mutil = info[dialogx[m]].mutil
          /\ info'[dialogx[m]].chatHistory = info[dialogx[m]].chatHistory
      BY <2>5, <3>1 DEF AssignProgram, TypeOK, DialogInfo
    <3> QED BY <2>5, <3>2 DEF AssignProgram, TurnOK, TurnInv, Turn, Dlg, GoTo, TypeOK, local
  <2>6. CASE Returning(m) \/ Calling(m)
    BY <2>6 DEF Returning, Return, Calling, TurnOK, Turn, GoTo, TypeOK
  <2>7. ASSUME AssignedTurn(m) \/ ForwardToProgram(m) \/ ForwardToChat(m)
               \/ ClientTerminate(m) \/ ServerMessage(m) \/ ToolFinishOrNotFound(m)
               \/ UnknownEvent(m) \/ ToolNotSupport(m) \/ ChatDemand(m)
        PROVE  Returning(m) \/ Calling(m)
    BY <2>7 DEF AssignedTurn, ForwardToProgram, ForwardToChat, ClientTerminate,
                ServerMessage, ToolFinishOrNotFound, UnknownEvent, Handles, Returning,
                Working, ToolNotSupport, ChatDemand, CallUserHandler, InUserHandler, Calling
  <2> QED BY <1>4, <2>1, <2>2, <2>3, <2>4, <2>5, <2>6, <2>7 DEF Step
<1>5. CASE UNCHANGED vars BY <1>5 DEF vars, TurnInv, TurnOK, Dlg
<1> QED BY <1>1, <1>2, <1>3, <1>4, <1>5 DEF Next

\* A program and the chat never both hold a dialog, but inside the turn that passes it on
LEMMA RouteStep ==
    ASSUME TypeOK, FrameInv, QueueInv, LockInv, TurnInv, RouteInv, [Next]_vars
    PROVE  RouteInv'
<1>1. ASSUME NEW s \in Sources, NEW m \in Msgs, HandleRequestMessage(s, m)
      PROVE  RouteInv'
  BY <1>1 DEF HandleRequestMessage, RouteInv, TypeOK, GoTo, local, shared
<1>2. ASSUME NEW s \in Sources, Run(s) PROVE RouteInv'
  <2>1. chan[s] \in Seq(Msgs) /\ chan[s] # <<>> BY <1>2 DEF Run, TypeOK
  <2>2. Head(chan[s]) = chan[s][1] /\ 1 \in 1..Len(chan[s]) /\ chan[s][1] \in Msgs
    BY <2>1
  <2>3. pc[Head(chan[s])] = "queued" BY <2>2 DEF QueueInv
  <2> QED BY <1>2, <2>2, <2>3 DEF Run, RouteInv, TypeOK, GoTo, local, shared
<1>3. ASSUME NEW m \in Msgs, InsertBegin(m) \/ AcquireLock(m) PROVE RouteInv'
  BY <1>3 DEF InsertBegin, AcquireLock, RouteInv, TypeOK, GoTo, local
<1>4. ASSUME NEW m \in Msgs, Step(m) PROVE RouteInv'
  <2> SUFFICES ASSUME NEW o \in Objs, info'[o].program # NoIntent
               PROVE  \/ ~info'[o].mutil /\ ~info'[o].firstMutil
                      \/ \E n \in Msgs : pc'[n] = "forward" /\ dialogx'[n] = o
    BY DEF RouteInv
  <2>1. ASSUME info'[o] = info[o], pc[m] = "forward" => dialogx[m] # o
        PROVE  \/ ~info'[o].mutil /\ ~info'[o].firstMutil
               \/ \E n \in Msgs : pc'[n] = "forward" /\ dialogx'[n] = o
    BY <1>4, <2>1, OnlyOwnDialog DEF RouteInv
  <2>2. CASE pc[m] \notin Working \/ o # dialogx[m]
    BY <1>4, <2>1, <2>2, OnlyOwnDialog DEF Working
  <2>3. CASE pc[m] \in Working /\ o = dialogx[m]
    <3>1. Owns(m, o) BY <2>3 DEF Owns
    <3>2. info[o].program # NoIntent /\ pc[m] # "forward"
             => ~info[o].mutil /\ ~info[o].firstMutil
      BY <2>3, <3>1, Exclusion DEF RouteInv, Owns, Working
    <3>3. info[o] \in DialogInfo BY DEF TypeOK
    <3>4. CASE FindBestIntent(m) \/ Match(m)
      <4>1. info' = info /\ pc[m] # "forward"
        BY <3>4 DEF FindBestIntent, Match, shared
      <4> QED BY <2>1, <4>1
    <3>5. CASE UnassignedTurn(m)
      <4>1. info[o].program = NoIntent BY <2>3, <3>5 DEF UnassignedTurn, Dlg
      <4>2. info'[o].program = info[o].program
        BY <2>3, <3>3, <3>5 DEF UnassignedTurn, TypeOK, DialogInfo
      <4> QED BY <4>1, <4>2
    <3>6. CASE AssignProgram(m)
      BY <2>3, <3>6 DEF AssignProgram, GoTo, TypeOK, local
    <3>7. CASE AssignedTurn(m)
      <4>1. pc[m] = "handle" /\ info[o].program # NoIntent
        BY <2>3, <3>7 DEF AssignedTurn, Handles, Dlg
      <4>2. info'[o].mutil = info[o].mutil /\ info'[o].firstMutil = FALSE
        BY <2>3, <3>3, <3>7 DEF AssignedTurn, TypeOK, DialogInfo
      <4> QED BY <3>2, <4>1, <4>2
    <3>8. CASE ForwardToProgram(m)
      BY <2>3, <3>3, <3>8 DEF ForwardToProgram, TypeOK, DialogInfo
    <3>9. CASE ForwardToChat(m)
      <4>1. info[o].program = NoIntent
        BY <2>3, <3>9 DEF ForwardToChat, TurnInv, TurnOK, Turn, Dlg
      <4>2. info'[o].program = info[o].program
        BY <2>3, <3>3, <3>9 DEF ForwardToChat, TypeOK, DialogInfo
      <4> QED BY <4>1, <4>2
    <3>10. CASE ClientTerminate(m) \/ ToolFinishOrNotFound(m) \/ ToolNotSupport(m)
      <4>1. \/ info' = info /\ info[o].program = NoIntent
            \/ info' = [info EXCEPT ![o].program = NoIntent]
        <5>1. CASE ClientTerminate(m) BY <2>3, <5>1 DEF ClientTerminate, Dlg
        <5>2. CASE ToolFinishOrNotFound(m) BY <2>3, <5>2 DEF ToolFinishOrNotFound
        <5>3. CASE ToolNotSupport(m) BY <2>3, <5>3 DEF ToolNotSupport
        <5> QED BY <3>10, <5>1, <5>2, <5>3
      <4>2. info'[o].program = NoIntent BY <3>3, <4>1 DEF TypeOK, DialogInfo
      <4> QED BY <4>2
    <3>11. CASE ServerMessage(m) \/ ChatDemand(m)
      <4>1. pc[m] # "forward" BY <3>11 DEF ServerMessage, ChatDemand, Handles
      <4>2. CASE ServerMessage(m)
        <5>1. /\ info'[o].program = info[o].program
              /\ info'[o].mutil = info[o].mutil
              /\ info'[o].firstMutil = info[o].firstMutil
          BY <2>3, <3>3, <4>2 DEF ServerMessage, TypeOK, DialogInfo
        <5> QED BY <3>2, <4>1, <5>1
      <4>3. CASE ChatDemand(m)
        <5>1. /\ info'[o].program = info[o].program
              /\ info'[o].mutil = FALSE
              /\ info'[o].firstMutil = info[o].firstMutil
          BY <2>3, <3>3, <4>3 DEF ChatDemand, TypeOK, DialogInfo
        <5> QED BY <3>2, <4>1, <5>1
      <4> QED BY <3>11, <4>2, <4>3
    <3>12. CASE UnknownEvent(m)
      BY <2>1, <3>12 DEF UnknownEvent
    <3>13. CASE Lookup(m) \/ LookupThrows(m) \/ InsertEnd(m)
      BY <2>3, <3>13 DEF Lookup, LookupThrows, InsertEnd, Working
    <3> QED BY <1>4, <3>4, <3>5, <3>6, <3>7, <3>8, <3>9, <3>10, <3>11, <3>12, <3>13 DEF Step
  <2> QED BY <2>2, <2>3
<1>5. CASE UNCHANGED vars BY <1>5 DEF vars, RouteInv
<1> QED BY <1>1, <1>2, <1>3, <1>4, <1>5 DEF Next

\* What m's handler hands over is the right thing, once, with the history of its own turn
HandedOver(m) ==
    /\ Len(out[m]) <= 1
    /\ pc[m] = "done" /\ msg[m].src = "user" /\ msg[m].event = 1001 =>
          \E k \in 1..Len(out[m]) :
              \/ out[m][k].to = "chat"
              \/ out[m][k].to = "program" /\ out[m][k].intention # NoIntent
OwnTurnSeen(m) ==
    \A k \in 1..Len(out[m]) :
        out[m][k].to = "chat" =>
            LET h == out[m][k].history IN
            /\ Len(h) \in 1..HistoryLimit
            /\ h[Len(h)] = [who |-> "User", text |-> msg[m].content]
OutOK(m) == /\ pc[m] # "done" => out[m] = <<>>
            /\ HandedOver(m)
            /\ OwnTurnSeen(m)

\* The properties about what was handed over, message by message
LEMMA OutParts ==
    (OutInv /\ TurnHandedOver /\ ChatSeesOwnTurn) <=> \A m \in Msgs : OutOK(m)
<1>1. TurnHandedOver <=> \A m \in Msgs : HandedOver(m)
  BY Zenon DEF TurnHandedOver, HandedOver
<1>2. ChatSeesOwnTurn <=> \A m \in Msgs : OwnTurnSeen(m)
  BY Zenon DEF ChatSeesOwnTurn, OwnTurnSeen
<1> QED BY <1>1, <1>2 DEF OutInv, OutOK

\* A handler that returns after one delivery is judged by that delivery
LEMMA OneDelivery ==
    ASSUME NEW m \in Msgs, Len(out'[m]) = 1, pc'[m] = "done", msg' = msg,
           msg[m].src = "user" /\ msg[m].event = 1001 =>
              \/ out'[m][1].to = "chat"
              \/ out'[m][1].to = "program" /\ out'[m][1].intention # NoIntent,
           out'[m][1].to = "chat" =>
              LET h == out'[m][1].history IN
              /\ Len(h) \in 1..HistoryLimit
              /\ h[Len(h)] = [who |-> "User", text |-> msg[m].content]
    PROVE  OutOK(m)'
BY DEF OutOK, HandedOver, OwnTurnSeen

\* The first thing that is sent is the only one
LEMMA FirstSend ==
    ASSUME TypeOK, NEW m \in Msgs, NEW d, out[m] = <<>>, Send(m, d)
    PROVE  Len(out'[m]) = 1 /\ out'[m][1] = d
<1>1. out'[m] = <<d>> BY DEF Send, TypeOK
<1> QED BY <1>1

\* Nothing is handed over before the handler returns, and then what it should be
LEMMA OutStep ==
    ASSUME TypeOK, FrameInv, QueueInv, TurnInv, [Next]_vars, \A m \in Msgs : OutOK(m)
    PROVE  \A m \in Msgs : OutOK(m)'
<1>1. ASSUME NEW s \in Sources, NEW m \in Msgs, HandleRequestMessage(s, m)
      PROVE  \A n \in Msgs : OutOK(n)'
  <2> SUFFICES ASSUME NEW n \in Msgs PROVE OutOK(n)' OBVIOUS
  <2>1. out' = out BY <1>1 DEF HandleRequestMessage, shared
  <2>2. CASE n = m
    <3>1. out[m] = <<>> /\ pc'[m] = "queued"
      BY <1>1 DEF HandleRequestMessage, OutOK, GoTo, TypeOK
    <3> QED BY <2>1, <2>2, <3>1 DEF OutOK, HandedOver, OwnTurnSeen
  <2>3. CASE n # m
    <3>1. msg'[n] = msg[n] /\ pc'[n] = pc[n]
      BY <1>1, <2>3 DEF HandleRequestMessage, GoTo, TypeOK
    <3> QED BY <2>1, <3>1 DEF OutOK, HandedOver, OwnTurnSeen
  <2> QED BY <2>2, <2>3
<1>2. ASSUME NEW s \in Sources, Run(s) PROVE \A n \in Msgs : OutOK(n)'
  <2>1. chan[s] \in Seq(Msgs) /\ chan[s] # <<>> BY <1>2 DEF Run, TypeOK
  <2>2. Head(chan[s]) = chan[s][1] /\ 1 \in 1..Len(chan[s]) /\ chan[s][1] \in Msgs
    BY <2>1
  <2>3. pc[Head(chan[s])] = "queued" BY <2>2 DEF QueueInv
  <2>4. out' = out /\ msg' = msg BY <1>2 DEF Run, shared
  <2>5. \A n \in Msgs : pc'[n] = "done" <=> pc[n] = "done"
    BY <1>2, <2>2, <2>3 DEF Run, GoTo, TypeOK
  <2> QED BY <2>4, <2>5 DEF OutOK, HandedOver, OwnTurnSeen
<1>3. ASSUME NEW m \in Msgs, InsertBegin(m) \/ AcquireLock(m)
      PROVE  \A n \in Msgs : OutOK(n)'
  <2>1. out' = out /\ msg' = msg BY <1>3 DEF InsertBegin, AcquireLock
  <2>2. \A n \in Msgs : pc'[n] = "done" <=> pc[n] = "done"
    BY <1>3 DEF InsertBegin, AcquireLock, GoTo, TypeOK
  <2> QED BY <2>1, <2>2 DEF OutOK, HandedOver, OwnTurnSeen
<1>4. ASSUME NEW m \in Msgs, Step(m) PROVE \A n \in Msgs : OutOK(n)'
  <2>1. \A n \in Msgs : n # m => OutOK(n)'
    <3>1. msg' = msg /\ \A n \in Msgs : n # m => pc'[n] = pc[n] /\ out'[n] = out[n]
      BY <1>4, OnlyOwnDialog
    <3> QED BY <3>1 DEF OutOK, HandedOver, OwnTurnSeen
  <2> SUFFICES OutOK(m)' BY <2>1
  <2>2. msg' = msg BY <1>4, OnlyOwnDialog
  \* nothing handed over, and the handler was not one of a user's turn or goes on
  <2>3. ASSUME out' = out, out[m] = <<>>,
               pc'[m] = "done" => ~(msg[m].src = "user" /\ msg[m].event = 1001)
        PROVE  OutOK(m)'
    BY <2>2, <2>3 DEF OutOK, HandedOver, OwnTurnSeen
  <2>4. pc[m] # "done" => out[m] = <<>> BY DEF OutOK
  <2>5. CASE Lookup(m) \/ InsertEnd(m) \/ UnassignedTurn(m) \/ FindBestIntent(m) \/ Match(m)
             \/ AssignProgram(m) \/ ToolNotSupport(m) \/ ChatDemand(m)
    <3>1. out' = out /\ pc[m] # "done"
      BY <2>5 DEF Lookup, InsertEnd, UnassignedTurn, FindBestIntent, Match, AssignProgram,
                  ToolNotSupport, ChatDemand, CallUserHandler, Handles, shared
    <3>2. pc'[m] = "done" => msg[m].src # "user"
      <4>1. CASE Lookup(m) BY <4>1 DEF Lookup, GoTo, TypeOK, InUserHandler
      <4>2. CASE InsertEnd(m) \/ UnassignedTurn(m) \/ Match(m) \/ AssignProgram(m)
        BY <4>2 DEF InsertEnd, UnassignedTurn, Match, AssignProgram, GoTo, TypeOK
      <4>3. CASE FindBestIntent(m) BY <4>3 DEF FindBestIntent, GoTo, TypeOK
      <4>4. CASE ToolNotSupport(m) \/ ChatDemand(m)
        <5>1. CallUserHandler(m)
          <6>1. CASE ToolNotSupport(m) BY <6>1 DEF ToolNotSupport
          <6>2. CASE ChatDemand(m) BY <6>2 DEF ChatDemand
          <6> QED BY <4>4, <6>1, <6>2
        <5> QED BY <5>1 DEF CallUserHandler, GoTo, TypeOK
      <4> QED BY <2>5, <4>1, <4>2, <4>3, <4>4
    <3> QED BY <2>3, <2>4, <3>1, <3>2
  <2>6. CASE LookupThrows(m)
    BY <2>6 DEF LookupThrows, OutOK, HandedOver, OwnTurnSeen, shared
  <2>7. CASE AssignedTurn(m)
    <3>1. pc[m] = "handle" /\ Dlg(m).program # NoIntent BY <2>7 DEF AssignedTurn, Handles
    <3>2. Len(out'[m]) = 1 /\ out'[m][1] = ToProgram(Dlg(m).program)
      BY <2>4, <2>7, <3>1, FirstSend DEF AssignedTurn
    <3>3. pc'[m] = "done" BY <2>7 DEF AssignedTurn, Return, GoTo, TypeOK
    <3>4. out'[m][1].to = "program" /\ out'[m][1].intention # NoIntent
      BY <3>1, <3>2 DEF ToProgram
    <3> QED BY <2>2, <3>2, <3>3, <3>4, OneDelivery
  <2>8. CASE ForwardToProgram(m)
    <3>1. pc[m] = "forward" /\ Dlg(m).program # NoIntent
      BY <2>8 DEF ForwardToProgram, TurnInv, TurnOK, Turn
    <3>2. Len(out'[m]) = 1 /\ out'[m][1] = ToProgram(Dlg(m).program)
      BY <2>4, <2>8, <3>1, FirstSend DEF ForwardToProgram
    <3>3. pc'[m] = "done" BY <2>8 DEF ForwardToProgram, Return, GoTo, TypeOK
    <3>4. out'[m][1].to = "program" /\ out'[m][1].intention # NoIntent
      BY <3>1, <3>2 DEF ToProgram
    <3> QED BY <2>2, <3>2, <3>3, <3>4, OneDelivery
  <2>9. CASE ForwardToChat(m)
    <3> DEFINE h == Dlg(m).chatHistory
    <3>1. /\ pc[m] = "assign"
          /\ Len(h) \in 1..HistoryLimit
          /\ h[Len(h)] = [who |-> "User", text |-> msg[m].content]
      BY <2>9 DEF ForwardToChat, TurnInv, TurnOK, Turn
    <3>2. Len(out'[m]) = 1 /\ out'[m][1] = ToChat(hints[m], h)
      BY <2>4, <2>9, <3>1, FirstSend DEF ForwardToChat
    <3>3. pc'[m] = "done" BY <2>9 DEF ForwardToChat, Return, GoTo, TypeOK
    <3>4. out'[m][1].to = "chat" /\ out'[m][1].history = h BY <3>2 DEF ToChat
    <3> QED BY <2>2, <3>1, <3>2, <3>3, <3>4, OneDelivery
  <2>10. CASE ClientTerminate(m)
    <3>1. pc[m] = "handle" /\ msg[m].event = 1002 /\ pc'[m] = "done"
      BY <2>10 DEF ClientTerminate, Handles, Return, GoTo, TypeOK
    <3>2. out' = out \/ Send(m, ToProgram(NoIntent)) BY <2>10 DEF ClientTerminate
    <3>3. CASE out' = out BY <2>3, <2>4, <3>1, <3>3
    <3>4. CASE Send(m, ToProgram(NoIntent))
      <4>1. Len(out'[m]) = 1 /\ out'[m][1] = ToProgram(NoIntent)
        BY <2>4, <3>1, <3>4, FirstSend
      <4>2. out'[m][1].to = "program" BY <4>1 DEF ToProgram
      <4>3. msg[m].event # 1001 BY <3>1
      <4>4. out'[m][1].to # "chat" BY <4>2
      <4>5. pc'[m] = "done" /\ Len(out'[m]) = 1 BY <3>1, <4>1
      <4> QED BY ZenonT(60), <2>2, <4>3, <4>4, <4>5, OneDelivery
    <3> QED BY <3>2, <3>3, <3>4
  <2>11. CASE ServerMessage(m) \/ ToolFinishOrNotFound(m)
    <3>1. pc[m] = "handle" /\ msg[m].src # "user" /\ pc'[m] = "done"
      BY <2>11 DEF ServerMessage, ToolFinishOrNotFound, Handles, Return, GoTo, TypeOK,
                   InUserHandler
    <3>2. Send(m, ToUser)
      <4>1. CASE ServerMessage(m) BY <4>1 DEF ServerMessage
      <4>2. CASE ToolFinishOrNotFound(m) BY <4>2 DEF ToolFinishOrNotFound
      <4> QED BY <2>11, <4>1, <4>2
    <3>3. Len(out'[m]) = 1 /\ out'[m][1] = ToUser BY <2>4, <3>1, <3>2, FirstSend
    <3>4. out'[m][1].to = "user" BY <3>3 DEF ToUser
    <3> QED BY <2>2, <3>1, <3>3, <3>4, OneDelivery
  <2>12. CASE UnknownEvent(m)
    <3>1. pc[m] = "handle" /\ out' = out BY <2>12 DEF UnknownEvent
    <3>2. ~(msg[m].src = "user" /\ msg[m].event = 1001)
      BY <2>12 DEF UnknownEvent, Known, InUserHandler
    <3> QED BY <2>3, <2>4, <3>1, <3>2
  <2> QED BY <1>4, <2>5, <2>6, <2>7, <2>8, <2>9, <2>10, <2>11, <2>12 DEF Step
<1>5. CASE UNCHANGED vars BY <1>5 DEF vars, OutOK, HandedOver, OwnTurnSeen
<1> QED BY <1>1, <1>2, <1>3, <1>4, <1>5 DEF Next

-----------------------------------------------------------------------------
(* The theorems *)

\* The invariant holds at the start
LEMMA InitIInv == Init => IInv
<1> SUFFICES ASSUME Init PROVE IInv OBVIOUS
<1>1. TypeOK BY InitType
<1>2. FrameInv BY Disjoint DEF Init, FrameInv, Working
<1>3. QueueInv BY DEF Init, QueueInv
<1>4. LockInv BY Disjoint DEF Init, LockInv, Owns, Working, Objs
<1>5. TurnInv BY DEF Init, TurnInv, TurnOK, Turn
<1>6. RouteInv
  <2>1. PICK loaded \in LoadedSets : \E saved \in [loaded -> SavedInfos] :
           info = [o \in Objs |-> IF o \in loaded THEN saved[o] ELSE NewInfo]
    BY DEF Init
  <2>2. \A r \in SavedInfos \cup {NewInfo} :
           r.program # NoIntent => ~r.mutil /\ ~r.firstMutil
    <3>1. ~NewInfo.mutil /\ ~NewInfo.firstMutil BY DEF NewInfo
    <3>2. ASSUME NEW c \in Contents, NEW r,
                 \/ \E u, f \in BOOLEAN :
                       r = [program |-> NoIntent, mutil |-> u, firstMutil |-> f,
                            chatHistory |-> <<[who |-> "User", text |-> c]>>]
                 \/ \E p \in Intents :
                       r = [program |-> p, mutil |-> FALSE, firstMutil |-> FALSE,
                            chatHistory |-> <<[who |-> "User", text |-> c]>>]
          PROVE  r.program # NoIntent => ~r.mutil /\ ~r.firstMutil
      BY <3>2
    <3> QED BY <3>1, <3>2 DEF SavedInfos
  <2>3. \A o \in Objs : info[o] \in SavedInfos \cup {NewInfo} BY <2>1
  <2> QED BY <2>2, <2>3 DEF RouteInv
<1>7. \A m \in Msgs : OutOK(m) BY DEF Init, OutOK, HandedOver, OwnTurnSeen
<1>8. LoadInv BY DEF Init, LoadInv
<1> QED BY <1>1, <1>2, <1>3, <1>4, <1>5, <1>6, <1>7, <1>8, OutParts DEF IInv

\* Every step keeps the invariant
LEMMA IInvStep == IInv /\ [Next]_vars => IInv'
<1> SUFFICES ASSUME IInv, [Next]_vars PROVE IInv' OBVIOUS
<1>1. TypeOK' BY TypeStep DEF IInv
<1>2. FrameInv' BY FrameStep DEF IInv
<1>3. QueueInv' BY QueueStep DEF IInv
<1>4. LockInv' BY LockStep DEF IInv
<1>5. TurnInv' BY TurnStep DEF IInv
<1>6. RouteInv' BY RouteStep DEF IInv
<1>7. LoadInv' BY LoadStep DEF IInv
<1>8. \A m \in Msgs : OutOK(m) BY OutParts DEF IInv
<1>9. (\A m \in Msgs : OutOK(m))' BY <1>8, OutStep DEF IInv
<1>10. (OutInv /\ TurnHandedOver /\ ChatSeesOwnTurn)' BY <1>9, OutParts, PTL
<1> QED BY <1>1, <1>2, <1>3, <1>4, <1>5, <1>6, <1>7, <1>10 DEF IInv

\* The inductive invariant holds in every reachable state
THEOREM Invariance == Spec => []IInv
BY InitIInv, IInvStep, PTL DEF Spec

\* Every variable keeps its type
THEOREM TypeCorrect == Spec => []TypeOK
<1>1. IInv => TypeOK BY DEF IInv
<1> QED BY <1>1, Invariance, PTL

\* No two handlers are inside the same DialogInfo, however many run
THEOREM Mutex == Spec => []MutualExclusion
<1>1. IInv => MutualExclusion BY Exclusion DEF IInv, MutualExclusion
<1> QED BY <1>1, Invariance, PTL

\* A dialog at rest is never both with a program and in the multi-turn chat
THEOREM ProgramOrChat == Spec => []ProgramExcludesChat
<1>1. IInv => ProgramExcludesChat
  <2> SUFFICES ASSUME IInv, NEW o \in Objs, lock[o] = Nobody, info[o].program # NoIntent
               PROVE  ~info[o].mutil /\ ~info[o].firstMutil
    BY DEF ProgramExcludesChat
  <2>1. ASSUME NEW m \in Msgs, pc[m] = "forward", dialogx[m] = o PROVE FALSE
    <3>1. Owns(m, o) BY <2>1 DEF Owns, Working
    <3> QED BY <3>1, Disjoint DEF IInv, LockInv
  <2> QED BY <2>1 DEF IInv, RouteInv
<1> QED BY <1>1, Invariance, PTL

\* Every turn is handed over exactly once, and the chat gets it as the last line
THEOREM HandOver == Spec => [](TurnHandedOver /\ ChatSeesOwnTurn)
<1>1. IInv => TurnHandedOver /\ ChatSeesOwnTurn BY DEF IInv
<1> QED BY <1>1, Invariance, PTL

\* The chat is given a history that ends with the user's own line and keeps the limit
THEOREM ChatHearsOwnTurn == Spec => []ChatSeesOwnTurn
<1>1. IInv => ChatSeesOwnTurn BY DEF IInv
<1> QED BY <1>1, Invariance, PTL

\* A DialogInfo that came from disk stays in the map
THEOREM LoadedKept == Spec => LoadedEntryStays
<1>1. ASSUME IInv, Next, NEW d \in Dialogs, dialogs[d] = d PROVE dialogs'[d] = d
  <2>1. ASSUME NEW m \in Msgs, InsertEnd(m) PROVE dialogs'[d] = d
    <3>1. msg[m].dlg # d BY <1>1, <2>1 DEF InsertEnd, IInv, LoadInv
    <3> QED BY <1>1, <2>1, <3>1 DEF InsertEnd, IInv, TypeOK
  <2>2. ASSUME NEW m \in Msgs, Step(m), ~InsertEnd(m) PROVE dialogs' = dialogs
    BY <2>2, Shapes DEF Lookup, LookupThrows, Moving, Returning, Calling, shared
  <2>3. ASSUME NEW m \in Msgs, InsertBegin(m) \/ AcquireLock(m) PROVE dialogs' = dialogs
    BY <2>3 DEF InsertBegin, AcquireLock
  <2>4. ASSUME NEW s \in Sources, NEW m \in Msgs, HandleRequestMessage(s, m)
        PROVE  dialogs' = dialogs
    BY <2>4 DEF HandleRequestMessage, shared
  <2>5. ASSUME NEW s \in Sources, Run(s) PROVE dialogs' = dialogs
    BY <2>5 DEF Run, shared
  <2>6. CASE UNCHANGED vars BY <1>1, <2>6 DEF vars
  <2> QED BY <1>1, <2>1, <2>2, <2>3, <2>4, <2>5, <2>6 DEF Next
<1>2. IInv /\ [Next]_vars => [\A d \in Dialogs : dialogs[d] = d => dialogs'[d] = d]_vars
  BY <1>1 DEF vars
<1> QED BY <1>2, Invariance, PTL DEF Spec, LoadedEntryStays

\* Steps outside a handler's switch write no dialog and hand nothing over
LEMMA OutsideSteps ==
    ASSUME IInv, Next, \A m \in Msgs : ~(Step(m) /\ pc[m] \in Working)
    PROVE  /\ UNCHANGED <<commandFirst, info, out>>
           /\ \A m \in Msgs : msg'[m] = msg[m] \/ out[m] = <<>>
<1>1. ASSUME NEW m \in Msgs, Step(m), pc[m] \notin Working
      PROVE  UNCHANGED <<commandFirst, info, out, msg>>
  <2>1. Lookup(m) \/ LookupThrows(m) \/ InsertEnd(m)
    BY <1>1, Shapes DEF Moving, Returning, Calling, Working
  <2> QED BY <2>1 DEF Lookup, LookupThrows, InsertEnd, shared
<1>2. ASSUME NEW m \in Msgs, InsertBegin(m) \/ AcquireLock(m)
      PROVE  UNCHANGED <<commandFirst, info, out, msg>>
  BY <1>2 DEF InsertBegin, AcquireLock
<1>3. ASSUME NEW s \in Sources, Run(s) PROVE UNCHANGED <<commandFirst, info, out, msg>>
  BY <1>3 DEF Run, shared
<1>4. ASSUME NEW s \in Sources, NEW m \in Msgs, HandleRequestMessage(s, m)
      PROVE  /\ UNCHANGED <<commandFirst, info, out>>
             /\ \A n \in Msgs : msg'[n] = msg[n] \/ out[n] = <<>>
  <2>1. out[m] = <<>> BY <1>4 DEF HandleRequestMessage, IInv, OutInv
  <2>2. \A n \in Msgs : n # m => msg'[n] = msg[n]
    BY <1>4 DEF HandleRequestMessage, IInv, TypeOK
  <2> QED BY <1>4, <2>1, <2>2 DEF HandleRequestMessage, shared
<1>5. CASE UNCHANGED vars BY <1>5 DEF vars
<1> QED BY <1>1, <1>2, <1>3, <1>4, <1>5 DEF Next

\* The chat is left only on its own demand, unless commands come first
THEOREM ChatKeepsUser == Spec => OnlyChatEndsChat
<1> DEFINE Kept(o) ==
        /\ info'[o].program \in {info[o].program, NoIntent}
        /\ info'[o].mutil \/ \E m \in Msgs : lock[o] = m /\ msg[m].src = "chat"
<1>1. ASSUME IInv, Next, NEW o \in Objs, ~commandFirst, info[o].mutil
      PROVE  Kept(o)
  <2>1. CASE info'[o] = info[o] BY <1>1, <2>1
  <2>2. CASE info'[o] # info[o]
    <3>1. PICK m \in Msgs : Step(m) /\ pc[m] \in Working
      BY <1>1, <2>2, OutsideSteps
    <3>2. o = dialogx[m] BY <1>1, <2>2, <3>1, OnlyOwnDialog DEF IInv
    <3>3. Owns(m, o) /\ lock[o] = m BY <1>1, <3>1, <3>2 DEF Owns, IInv, LockInv
    <3>4. info[o] \in DialogInfo /\ info \in [Objs -> DialogInfo] BY <1>1 DEF IInv, TypeOK
    <3>5. CASE UnassignedTurn(m)
      <4>1. /\ info'[o].program = info[o].program
            /\ info'[o].mutil = info[o].mutil
        BY <3>2, <3>4, <3>5 DEF UnassignedTurn, DialogInfo
      <4> QED BY <1>1, <4>1
    <3>6. CASE AssignedTurn(m)
      <4>1. /\ info'[o].program = info[o].program
            /\ info'[o].mutil = info[o].mutil
        BY <3>2, <3>4, <3>6 DEF AssignedTurn, DialogInfo
      <4> QED BY <1>1, <4>1
    <3>7. CASE AssignProgram(m)
      BY <1>1, <3>2, <3>7 DEF AssignProgram, Dlg
    <3>8. CASE ForwardToProgram(m)
      BY <1>1, <3>2, <3>8 DEF ForwardToProgram, Dlg, IInv, TurnInv, TurnOK, Turn
    <3>9. CASE ForwardToChat(m)
      <4>1. info'[o].program = info[o].program /\ info'[o].mutil = TRUE
        BY <3>2, <3>4, <3>9 DEF ForwardToChat, DialogInfo
      <4> QED BY <4>1
    <3>10. CASE ClientTerminate(m)
      <4>1. info'[o].program = NoIntent /\ info'[o].mutil = info[o].mutil
        BY <2>2, <3>2, <3>4, <3>10 DEF ClientTerminate, DialogInfo
      <4> QED BY <1>1, <4>1
    <3>11. CASE ToolFinishOrNotFound(m)
      <4>1. info'[o].program = NoIntent /\ info'[o].mutil = info[o].mutil
        BY <3>2, <3>4, <3>11 DEF ToolFinishOrNotFound, DialogInfo
      <4> QED BY <1>1, <4>1
    <3>12. CASE ToolNotSupport(m)
      <4>1. info'[o].program = NoIntent /\ info'[o].mutil = info[o].mutil
        BY <3>2, <3>4, <3>12 DEF ToolNotSupport, DialogInfo
      <4> QED BY <1>1, <4>1
    <3>13. CASE ChatDemand(m)
      <4>1. info'[o].program = info[o].program
        BY <3>2, <3>4, <3>13 DEF ChatDemand, DialogInfo
      <4>2. msg[m].src = "chat" BY <3>13 DEF ChatDemand
      <4> QED BY <3>3, <4>1, <4>2
    <3>14. CASE ServerMessage(m)
      <4>1. /\ info'[o].program = info[o].program
            /\ info'[o].mutil = info[o].mutil
        BY <3>2, <3>4, <3>14 DEF ServerMessage, DialogInfo
      <4> QED BY <1>1, <4>1
    <3>15. CASE Lookup(m) \/ LookupThrows(m) \/ InsertEnd(m) \/ FindBestIntent(m)
                \/ Match(m) \/ UnknownEvent(m)
      BY <2>2, <3>15 DEF Lookup, LookupThrows, InsertEnd, FindBestIntent, Match,
                         UnknownEvent, shared
    <3> QED BY <3>1, <3>5, <3>6, <3>7, <3>8, <3>9, <3>10, <3>11, <3>12, <3>13, <3>14,
               <3>15 DEF Step
  <2> QED BY <2>1, <2>2
<1>2. IInv /\ [Next]_vars =>
        [\A o \in Objs : ~commandFirst /\ info[o].mutil => Kept(o)]_vars
  BY <1>1 DEF vars
<1> QED BY <1>2, Invariance, PTL DEF Spec, OnlyChatEndsChat

-----------------------------------------------------------------------------
(* The refinement of DialogRouting *)

\* What a step of m, working on o, means to the abstract routing
Means(m, o) ==
    \/ UNCHANGED <<PartyOf(o), Delivered(m)>>
    \/ /\ PartyOf(o) = "idle" \/ (PartyOf(o) = "chat" /\ commandFirst)
       /\ PartyOf(o)' \in Intents
       /\ Delivered(m)' = Delivered(m)
    \/ /\ PartyOf(o) \in Intents
       /\ Delivered(m) = "nowhere"
       /\ Delivered(m)' = PartyOf(o)
       /\ PartyOf(o)' = PartyOf(o)
    \/ /\ PartyOf(o) \in {"idle", "chat"}
       /\ Delivered(m) = "nowhere"
       /\ PartyOf(o)' = "chat"
       /\ Delivered(m)' = "chat"
    \/ /\ PartyOf(o) # "idle"
       /\ PartyOf(o)' = "idle"
       /\ Delivered(m)' = Delivered(m)

\* A step that means something for one dialog and one turn, and leaves the others alone,
\* is a step of the abstract routing, or a stutter
LEMMA MeansRouting ==
    ASSUME NEW m \in Msgs, NEW o \in Objs, Means(m, o), commandFirst' = commandFirst,
           \A p \in Objs : p # o => PartyOf(p)' = PartyOf(p),
           \A n \in Msgs : n # m => Delivered(n)' = Delivered(n)
    PROVE  [Routing!Next]_(Routing!vars)
<1> DEFINE route == [p \in Objs |-> PartyOf(p)]
           delivered == [n \in Msgs |-> Delivered(n)]
<1>1. route' = [route EXCEPT ![o] = PartyOf(o)'] OBVIOUS
<1>2. delivered' = [delivered EXCEPT ![m] = Delivered(m)'] OBVIOUS
<1>3. route[o] = PartyOf(o) /\ delivered[m] = Delivered(m) OBVIOUS
<1>4. PartyOf(o)' = PartyOf(o) => route' = route OBVIOUS
<1>5. Delivered(m)' = Delivered(m) => delivered' = delivered OBVIOUS
<1> HIDE DEF route, delivered
<1>6. CASE UNCHANGED <<PartyOf(o), Delivered(m)>>
  BY <1>4, <1>5, <1>6 DEF Routing!vars, route, delivered
<1>7. CASE /\ PartyOf(o) = "idle" \/ (PartyOf(o) = "chat" /\ commandFirst)
           /\ PartyOf(o)' \in Intents
           /\ Delivered(m)' = Delivered(m)
  <2>1. Routing!Assign(o, PartyOf(o)')
    BY <1>1, <1>3, <1>5, <1>7 DEF Routing!Assign, route, delivered
  <2> QED BY <1>7, <2>1 DEF Routing!Next
<1>8. CASE /\ PartyOf(o) \in Intents
           /\ Delivered(m) = "nowhere"
           /\ Delivered(m)' = PartyOf(o)
           /\ PartyOf(o)' = PartyOf(o)
  <2>1. Routing!Deliver(o, m)
    BY <1>2, <1>3, <1>4, <1>8 DEF Routing!Deliver, route, delivered
  <2> QED BY <2>1 DEF Routing!Next
<1>9. CASE /\ PartyOf(o) \in {"idle", "chat"}
           /\ Delivered(m) = "nowhere"
           /\ PartyOf(o)' = "chat"
           /\ Delivered(m)' = "chat"
  <2>1. Routing!Converse(o, m)
    BY <1>1, <1>2, <1>3, <1>9 DEF Routing!Converse, route, delivered
  <2> QED BY <2>1 DEF Routing!Next
<1>10. CASE /\ PartyOf(o) # "idle"
            /\ PartyOf(o)' = "idle"
            /\ Delivered(m)' = Delivered(m)
  <2>1. Routing!Release(o)
    BY <1>1, <1>3, <1>5, <1>10 DEF Routing!Release, route, delivered
  <2> QED BY <2>1 DEF Routing!Next
<1> QED BY <1>6, <1>7, <1>8, <1>9, <1>10 DEF Means

\* A delivery that is not a turn means nothing to the routing
LEMMA NoTurn ==
    ASSUME NEW m \in Msgs, msg' = msg, out[m] = <<>>, out'[m] = <<>> \/ msg[m].event # 1001
    PROVE  Delivered(m)' = Delivered(m)
BY DEF Delivered

\* Every step a handler takes inside its switch means one of these
LEMMA WorkMeans ==
    ASSUME IInv, NEW m \in Msgs, NEW o \in Objs, o = dialogx[m],
           Step(m), pc[m] \in Working
    PROVE  Means(m, o)
<1>1. info[o] \in DialogInfo /\ info \in [Objs -> DialogInfo]
  BY DEF IInv, TypeOK
<1>2. out[m] = <<>> /\ TypeOK BY DEF IInv, OutInv, Working
<1>3. msg' = msg BY <1>2, OnlyOwnDialog
<1>4. \A i \in Intents : i # "idle" /\ i # "chat" /\ i # "nowhere" BY PartyNames
<1>5. Delivered(m) = "nowhere" BY <1>2 DEF Delivered
<1>6. pc[m] = "handle" /\ info[o].program # NoIntent => ~info[o].mutil
  <2> SUFFICES ASSUME pc[m] = "handle", info[o].program # NoIntent, info[o].mutil
               PROVE  FALSE
    OBVIOUS
  <2>1. PICK n \in Msgs : pc[n] = "forward" /\ dialogx[n] = o
    BY <1>1 DEF IInv, RouteInv
  <2>2. Owns(n, o) /\ Owns(m, o) BY <2>1 DEF Owns, Working
  <2> QED BY <1>1, <2>1, <2>2, Exclusion DEF IInv
<1>7. ASSUME pc[m] = "handle", info'[o].program = NoIntent,
             info'[o].mutil = info[o].mutil, Delivered(m)' = Delivered(m)
      PROVE  Means(m, o)
  <2>1. CASE info[o].program = NoIntent
    BY <1>7, <2>1 DEF Means, PartyOf
  <2>2. CASE info[o].program # NoIntent
    <3>1. PartyOf(o) = info[o].program /\ info[o].program \in Intents
      BY <1>1, <2>2 DEF PartyOf, DialogInfo
    <3>2. PartyOf(o)' = "idle" BY <1>6, <1>7, <2>2 DEF PartyOf
    <3> QED BY <1>4, <1>7, <3>1, <3>2 DEF Means
  <2> QED BY <2>1, <2>2
<1>8. ASSUME info'[o].program = info[o].program, info'[o].mutil = info[o].mutil,
             Delivered(m)' = Delivered(m)
      PROVE  Means(m, o)
  BY <1>8 DEF Means, PartyOf
<1>9. ASSUME info[o].program # NoIntent, info'[o].program = info[o].program,
             Delivered(m)' = info[o].program
      PROVE  Means(m, o)
  <2>1. PartyOf(o) = info[o].program /\ PartyOf(o)' = info[o].program
    BY <1>9 DEF PartyOf
  <2>2. info[o].program \in Intents BY <1>1, <1>9 DEF DialogInfo
  <2> QED BY <1>5, <1>9, <2>1, <2>2 DEF Means
<1>10. CASE UnassignedTurn(m)
  <2>1. info'[o].program = info[o].program /\ info'[o].mutil = info[o].mutil
    BY <1>1, <1>10 DEF UnassignedTurn, DialogInfo
  <2>2. out' = out BY <1>10 DEF UnassignedTurn
  <2> QED BY <1>2, <1>3, <1>8, <2>1, <2>2, NoTurn
<1>11. CASE FindBestIntent(m) \/ Match(m)
  <2>1. info' = info /\ out' = out BY <1>11 DEF FindBestIntent, Match, shared
  <2> QED BY <1>2, <1>3, <1>8, <2>1, NoTurn
<1>12. CASE AssignProgram(m)
  <2>1. info[o].program = NoIntent
    <3>1. TurnOK(m) BY DEF IInv, TurnInv
    <3> QED BY <1>12, <3>1 DEF AssignProgram, TurnOK, Turn, Dlg
  <2>2. info'[o].program = best[m] /\ best[m] # NoIntent /\ best[m] \in Intents
    BY <1>1, <1>2, <1>12 DEF AssignProgram, DialogInfo, TypeOK
  <2>3. PartyOf(o)' = best[m] BY <2>2 DEF PartyOf
  <2>4. PartyOf(o) = "idle" \/ (PartyOf(o) = "chat" /\ commandFirst)
    BY <1>12, <2>1 DEF AssignProgram, Dlg, PartyOf
  <2>5. Delivered(m)' = Delivered(m)
    <3>1. out' = out BY <1>12 DEF AssignProgram
    <3> QED BY <1>2, <1>3, <3>1, NoTurn
  <2> QED BY <2>2, <2>3, <2>4, <2>5 DEF Means
<1>13. CASE AssignedTurn(m)
  <2>1. info'[o].program = info[o].program /\ info[o].program # NoIntent
    BY <1>1, <1>13 DEF AssignedTurn, DialogInfo, Dlg
  <2>2. Len(out'[m]) = 1 /\ out'[m][1] = ToProgram(info[o].program)
    BY <1>2, <1>13, FirstSend DEF AssignedTurn, Dlg
  <2>3. out'[m][1].to = "program" /\ out'[m][1].intention = info[o].program
    BY <2>2 DEF ToProgram
  <2>4. msg[m].event = 1001 BY <1>13 DEF AssignedTurn, Handles
  <2>5. Delivered(m)' = info[o].program BY <1>3, <2>2, <2>3, <2>4 DEF Delivered
  <2> QED BY <1>9, <2>1, <2>5
<1>14. CASE ForwardToProgram(m)
  <2>1. info'[o].program = info[o].program
    BY <1>1, <1>14 DEF ForwardToProgram, DialogInfo
  <2>2. msg[m].event = 1001 /\ info[o].program # NoIntent
    <3>1. pc[m] = "forward" /\ pc[m] \in Turn BY <1>14 DEF ForwardToProgram, Turn
    <3>2. TurnOK(m) BY DEF IInv, TurnInv
    <3>3. msg[m].event = 1001 /\ Dlg(m).program # NoIntent
      BY <3>1, <3>2 DEF TurnOK
    <3> QED BY <3>3 DEF Dlg
  <2>3. Len(out'[m]) = 1 /\ out'[m][1] = ToProgram(info[o].program)
    BY <1>2, <1>14, FirstSend DEF ForwardToProgram, Dlg
  <2>4. out'[m][1].to = "program" /\ out'[m][1].intention = info[o].program
    BY <2>3 DEF ToProgram
  <2>5. Delivered(m)' = info[o].program BY <1>3, <2>2, <2>3, <2>4 DEF Delivered
  <2> QED BY <1>9, <2>1, <2>2, <2>5
<1>15. CASE ForwardToChat(m)
  <2>1. msg[m].event = 1001 /\ info[o].program = NoIntent
    <3>1. TurnOK(m) BY DEF IInv, TurnInv
    <3> QED BY <1>15, <3>1 DEF ForwardToChat, TurnOK, Turn, Dlg
  <2>2. info'[o].program = NoIntent /\ info'[o].mutil = TRUE
    BY <1>1, <1>15, <2>1 DEF ForwardToChat, DialogInfo
  <2>3. Len(out'[m]) = 1 /\ out'[m][1] = ToChat(hints[m], info[o].chatHistory)
    BY <1>2, <1>15, FirstSend DEF ForwardToChat, Dlg
  <2>4. out'[m][1].to = "chat" BY <2>3 DEF ToChat
  <2>5. Delivered(m)' = "chat" BY <1>3, <2>1, <2>3, <2>4 DEF Delivered
  <2>6. PartyOf(o) \in {"idle", "chat"} /\ PartyOf(o)' = "chat"
    BY <2>1, <2>2 DEF PartyOf
  <2> QED BY <1>5, <2>5, <2>6 DEF Means
<1>16. CASE ClientTerminate(m)
  <2>1. pc[m] = "handle" /\ msg[m].event # 1001
    BY <1>16 DEF ClientTerminate, Handles
  <2>2. \/ info' = info /\ info[o].program = NoIntent
        \/ info' = [info EXCEPT ![o].program = NoIntent]
    BY <1>16 DEF ClientTerminate, Dlg
  <2>3. info'[o].program = NoIntent /\ info'[o].mutil = info[o].mutil
    BY <1>1, <2>2 DEF DialogInfo
  <2> QED BY <1>2, <1>3, <1>7, <2>1, <2>3, NoTurn
<1>17. CASE ToolFinishOrNotFound(m)
  <2>1. pc[m] = "handle" /\ msg[m].event # 1001
    BY <1>17 DEF ToolFinishOrNotFound, Handles
  <2>2. info'[o].program = NoIntent /\ info'[o].mutil = info[o].mutil
    BY <1>1, <1>17 DEF ToolFinishOrNotFound, DialogInfo
  <2> QED BY <1>2, <1>3, <1>7, <2>1, <2>2, NoTurn
<1>18. CASE ToolNotSupport(m)
  <2>1. pc[m] = "handle" /\ msg[m].event # 1001
    BY <1>18 DEF ToolNotSupport, Handles
  <2>2. info'[o].program = NoIntent /\ info'[o].mutil = info[o].mutil
    BY <1>1, <1>18 DEF ToolNotSupport, DialogInfo
  <2> QED BY <1>2, <1>3, <1>7, <2>1, <2>2, NoTurn
<1>19. CASE ChatDemand(m)
  <2>1. info'[o].program = info[o].program /\ info'[o].mutil = FALSE
    BY <1>1, <1>19 DEF ChatDemand, DialogInfo
  <2>2. Delivered(m)' = Delivered(m)
    <3>1. out' = out BY <1>19 DEF ChatDemand, CallUserHandler
    <3> QED BY <1>2, <1>3, <3>1, NoTurn
  <2>3. CASE info[o].program # NoIntent \/ ~info[o].mutil
    <3>1. PartyOf(o)' = PartyOf(o) BY <2>1, <2>3 DEF PartyOf
    <3> QED BY <2>2, <3>1 DEF Means
  <2>4. CASE info[o].program = NoIntent /\ info[o].mutil
    <3>1. PartyOf(o) = "chat" /\ PartyOf(o)' = "idle" BY <2>1, <2>4 DEF PartyOf
    <3> QED BY <2>2, <3>1 DEF Means
  <2> QED BY <2>3, <2>4
<1>20. CASE ServerMessage(m)
  <2>1. info'[o].program = info[o].program /\ info'[o].mutil = info[o].mutil
    BY <1>1, <1>20 DEF ServerMessage, DialogInfo
  <2>2. msg[m].event # 1001 BY <1>20 DEF ServerMessage, Handles
  <2> QED BY <1>2, <1>3, <1>8, <2>1, <2>2, NoTurn
<1>21. CASE UnknownEvent(m)
  <2>1. info' = info /\ out' = out BY <1>21 DEF UnknownEvent
  <2> QED BY <1>2, <1>3, <1>8, <2>1, NoTurn
<1>22. CASE Lookup(m) \/ LookupThrows(m) \/ InsertEnd(m)
  BY <1>22 DEF Lookup, LookupThrows, InsertEnd, Working
<1> QED BY <1>10, <1>11, <1>12, <1>13, <1>14, <1>15, <1>16, <1>17, <1>18, <1>19, <1>20,
           <1>21, <1>22 DEF Step

\* Handlers, locks, channels and caches implement the abstract routing of dialogs
THEOREM Refinement == Spec => ImplementsRouting
<1>1. Init => Routing!Init
  <2> SUFFICES ASSUME Init PROVE Routing!Init OBVIOUS
  <2>1. TypeOK BY InitType
  <2>2. \A o \in Objs : PartyOf(o) \in Intents \cup {"idle", "chat"}
    BY <2>1 DEF TypeOK, DialogInfo, PartyOf
  <2>3. \A m \in Msgs : Delivered(m) = "nowhere" BY DEF Init, Delivered
  <2> QED BY <2>1, <2>2, <2>3 DEF Routing!Init, Routing!Parties, TypeOK
<1>2. ASSUME IInv, [Next]_vars PROVE [Routing!Next]_(Routing!vars)
  <2>1. ASSUME NEW m \in Msgs, Step(m), pc[m] \in Working
        PROVE  [Routing!Next]_(Routing!vars)
    <3>1. TypeOK /\ dialogx[m] \in Objs BY <1>2, <2>1 DEF IInv, FrameInv
    <3> PICK o \in Objs : o = dialogx[m] BY <3>1
    <3>2. \A p \in Objs : p # o => PartyOf(p)' = PartyOf(p)
      BY <2>1, <3>1, OnlyOwnDialog DEF PartyOf
    <3>3. \A n \in Msgs : n # m => Delivered(n)' = Delivered(n)
      BY <2>1, <3>1, OnlyOwnDialog DEF Delivered
    <3>4. commandFirst' = commandFirst BY <2>1, <3>1, OnlyOwnDialog
    <3>5. Means(m, o) BY <1>2, <2>1, WorkMeans
    <3> QED BY <3>2, <3>3, <3>4, <3>5, MeansRouting
  <2>2. ASSUME Next, \A m \in Msgs : ~(Step(m) /\ pc[m] \in Working)
        PROVE  UNCHANGED Routing!vars
    <3>1. /\ UNCHANGED <<commandFirst, info, out>>
          /\ \A m \in Msgs : msg'[m] = msg[m] \/ out[m] = <<>>
      BY <1>2, <2>2, OutsideSteps
    <3>2. \A o \in Objs : PartyOf(o)' = PartyOf(o) BY <3>1 DEF PartyOf
    <3>3. \A m \in Msgs : Delivered(m)' = Delivered(m) BY <3>1 DEF Delivered
    <3> QED BY <3>1, <3>2, <3>3 DEF Routing!vars
  <2>3. CASE UNCHANGED vars
    BY <2>3 DEF vars, Routing!vars, PartyOf, Delivered
  <2> QED BY <1>2, <2>1, <2>2, <2>3
<1> QED BY <1>1, <1>2, Invariance, PTL DEF Spec, ImplementsRouting, Routing!Spec

=============================================================================
