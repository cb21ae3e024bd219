------------------------------ MODULE ChatLLM ------------------------------
(***************************************************************************)
(* The multi-turn chat: chat/chat.go, llm_manager.go and openai.go.  Run   *)
(* starts a goroutine per message.  A handler looks the chat of its dialog *)
(* up without a lock, restores it from its file or creates it, and then    *)
(* talks to the model in up to three requests, reading and writing the     *)
(* messages of the chat without a lock while other handlers and the saver  *)
(* do so too.  The model and the tools are outside; so is who restarts the *)
(* process when it ends.                                                   *)
(*                                                                         *)
(* A turn t of Turns is also the goroutine that handles it and the         *)
(* OpenaiChatLLM that it stores, if it stores one.                         *)
(***************************************************************************)
EXTENDS Integers, Sequences, FiniteSets

CONSTANTS
    Dialogs,
    Turns,              \* messages of the expert in one behaviour (bounds the behaviour)
    MessagesLenLimit,   \* 30 in the code
    MaxFaults,          \* failed requests and writes, useless answers, restarts (bounds it)
    Nil, Nobody,
    Begun               \* a file that was emptied and not filled

ASSUME LimitAssumption == MessagesLenLimit \in Nat \ {0}
ASSUME FaultAssumption == MaxFaults \in Nat
ASSUME NamesAssumption == Nil \notin Turns /\ Nobody \notin Turns /\ Begun # Nil

Message == [who : {"user", "assistant"}, of : Turns]
\* LastSavedContentMd5 is the content it was computed of, Nil for none
OpenaiChatLLM ==
    [Messages : Seq(Message), ExpertChatSystemPrompt : BOOLEAN,
     callFuctionCall : BOOLEAN, LastSavedContentMd5 : Seq(Message) \cup {Nil}]
NewLLMChat == [Messages |-> <<>>, ExpertChatSystemPrompt |-> TRUE,
               callFuctionCall |-> TRUE, LastSavedContentMd5 |-> Nil]

VARIABLES
    pc,         \* where the handler of a turn is
    dialog,     \* the dialog of a turn
    llm,        \* the handler's llmChat, a turn or Nil
    held,       \* the messages that the handler read, to append to them
    request,    \* messageWithExpertSystem without its system message
    reply,      \* what the last answer says: to the user (2001), a demand (1001), no JSON
    LLMChats,   \* the map: the chat of each dialog, or Nil
    chat,       \* every OpenaiChatLLM
    mapWriter,  \* the handler that is writing the map under llmsMutex
    file,       \* the file of each dialog: none, begun or its messages
    saver,      \* saveAllDialogs: where it is, at which dialog, its chat and messages
    said,       \* history: all that was said in a dialog, but for what restarts lost
    kept,       \* history: what said was when the messages of its file were marshalled
    met,        \* history: dialogs in which two turns were at work at once
    failed,     \* history: turns that met a fault
    faults,
    fatal       \* the Go runtime ended the process

handlers == <<pc, dialog, llm, held, request, reply>>
chats == <<LLMChats, chat, mapWriter, said>>
disk == <<file, saver, kept>>
vars == <<handlers, chats, disk, met, failed, faults, fatal>>

PCs == {"unsent", "lookup", "load", "store", "storing", "read", "write", "first",
        "second", "final", "readAnswer", "writeAnswer", "done"}
AtWork(t) == pc[t] \notin {"unsent", "done"}
IdleSaver == [pc |-> "idle", at |-> Nil, llm |-> Nil, data |-> <<>>, said |-> <<>>]

Init ==
    /\ pc = [t \in Turns |-> "unsent"]
    /\ dialog = [t \in Turns |-> Nil]
    /\ llm = [t \in Turns |-> Nil]
    /\ held = [t \in Turns |-> <<>>]
    /\ request = [t \in Turns |-> <<>>]
    /\ reply = [t \in Turns |-> "none"]
    /\ LLMChats = [d \in Dialogs |-> Nil]
    /\ chat = [t \in Turns |-> NewLLMChat]
    /\ mapWriter = Nobody
    /\ file = [d \in Dialogs |-> Nil]
    /\ saver = IdleSaver
    /\ said = [d \in Dialogs |-> <<>>]
    /\ kept = [d \in Dialogs |-> <<>>]
    /\ met = {}
    /\ failed = {}
    /\ faults = 0
    /\ fatal = FALSE

Line(who, t) == [who |-> who, of |-> t]
GoTo(t, where) == pc' = [pc EXCEPT ![t] = where]
Fault == faults < MaxFaults /\ faults' = faults + 1
At(t, from, to) == pc[t] = from /\ GoTo(t, to)

\* deleteOldMessage
Cut(m) ==
    IF Len(m) > MessagesLenLimit
    THEN SubSeq(m, Len(m) - MessagesLenLimit + 1, Len(m)) ELSE m

-----------------------------------------------------------------------------
(* Run and getLLMChatByID *)

\* HandleExpertRequestMessage and the select of Run, over an unbuffered channel: 1001
\* starts a turn, other events do nothing
HandleExpertRequestMessage(t) ==
    /\ pc[t] = "unsent"
    /\ \/ GoTo(t, "done") /\ UNCHANGED <<dialog, met>>
       \/ /\ GoTo(t, "lookup")
          /\ \E d \in Dialogs :
                /\ dialog' = [dialog EXCEPT ![t] = d]
                /\ met' = met \cup {e \in {d} : \E u \in Turns : dialog[u] = e /\ AtWork(u)}
    /\ UNCHANGED <<llm, held, request, reply, chats, disk, failed, faults, fatal>>

\* llm, ok := l.LLMChats[dialogID], without llmsMutex
Lookup(t) ==
    LET found == LLMChats[dialog[t]] IN
    /\ At(t, "lookup", IF found = Nil THEN "load" ELSE "read")
    /\ llm' = [llm EXCEPT ![t] = found]
    /\ UNCHANGED <<dialog, held, request, reply, chats, disk, met, failed, faults, fatal>>

\* ... which the runtime may find to overlap a write
LookupThrows(t) ==
    /\ pc[t] = "lookup" /\ mapWriter # Nobody
    /\ fatal' = TRUE
    /\ UNCHANGED <<handlers, chats, disk, met, failed, faults>>

\* Mutants: the messages of the file are not taken; a file that ends early is taken
RestoreEmpty(d) ==
    IF file[d] \in {Nil, Begun} THEN NewLLMChat
    ELSE [NewLLMChat EXCEPT !.LastSavedContentMd5 = file[d]]
RestoreBegun(d) ==
    IF file[d] = Nil THEN NewLLMChat
    ELSE [Messages |-> file[d], ExpertChatSystemPrompt |-> FALSE,
          callFuctionCall |-> FALSE, LastSavedContentMd5 |-> file[d]]

\* What a restart leaves of what was said: no more than was marshalled, and nothing of it when
\* the file was being written
Whole(d) == file[d] \notin {Nil, Begun}
Lasting(d) == IF Whole(d) THEN kept[d] ELSE <<>>

\* getLLMChatFormCache sets neither the expert's prompt nor the function handler; a file
\* that is missing or cannot be parsed gives a new chat
Restored(d) ==
    IF file[d] \in {Nil, Begun} THEN NewLLMChat
    ELSE [Messages |-> file[d], ExpertChatSystemPrompt |-> FALSE,
          callFuctionCall |-> FALSE, LastSavedContentMd5 |-> file[d]]

LoadOrNew(t) ==
    /\ At(t, "load", "store")
    /\ chat' = [chat EXCEPT ![t] = Restored(dialog[t])]
    /\ llm' = [llm EXCEPT ![t] = t]
    /\ said' = [said EXCEPT ![dialog[t]] = Lasting(dialog[t])]
    /\ UNCHANGED <<dialog, held, request, reply, LLMChats, mapWriter, disk, met, failed,
                   faults, fatal>>

\* Store it in the map under llmsMutex, whatever is there by now
StoreBegin(t) ==
    /\ At(t, "store", "storing")
    /\ mapWriter = Nobody
    /\ mapWriter' = t
    /\ UNCHANGED <<dialog, llm, held, request, reply, LLMChats, chat, said, disk, met,
                   failed, faults, fatal>>

\* Mutant: the mutex is not released
StoreEndLocked(t) ==
    /\ At(t, "storing", "read")
    /\ LLMChats' = [LLMChats EXCEPT ![dialog[t]] = t]
    /\ UNCHANGED <<dialog, llm, held, request, reply, chat, mapWriter, said, disk, met,
                   failed, faults, fatal>>

StoreEnd(t) ==
    /\ At(t, "storing", "read")
    /\ mapWriter' = Nobody
    /\ LLMChats' = [LLMChats EXCEPT ![dialog[t]] = t]
    /\ UNCHANGED <<dialog, llm, held, request, reply, chat, said, disk, met, failed, faults, fatal>>

-----------------------------------------------------------------------------
(* Chat.  Relpying is never set, so that turns of a dialog talk side by side *)

\* l.Messages = append(l.Messages, line): the slice is read ...
ReadMessages(t) ==
    /\ At(t, "read", "write") \/ At(t, "readAnswer", "writeAnswer")
    /\ held' = [held EXCEPT ![t] = chat[llm[t]].Messages]
    /\ UNCHANGED <<dialog, llm, request, reply, chats, disk, met, failed, faults, fatal>>

\* ... and written, with the line, and deleteOldMessage cuts it
Say(t, who) ==
    /\ chat' = [chat EXCEPT ![llm[t]].Messages = Cut(Append(held[t], Line(who, t)))]
    /\ held' = [held EXCEPT ![t] = <<>>]
    /\ said' = [said EXCEPT ![dialog[t]] = Append(@, Line(who, t))]
    /\ UNCHANGED <<dialog, llm, request, reply, LLMChats, mapWriter, disk, met, failed,
                   faults, fatal>>
WriteQuestion(t) == At(t, "write", "first") /\ Say(t, "user")

\* After the answer, ChatLLM makes the reply of it, unless it is no JSON, and Run, which
\* is always ready, hands that to the expert
WriteAnswer(t) == At(t, "writeAnswer", "done") /\ Say(t, "assistant")

\* The first request is answered, with calls of tools or none; the messages are then read
\* again for the last request
FirstRequest(t) ==
    /\ At(t, "first", "second") \/ At(t, "first", "final")
    /\ request' = [request EXCEPT ![t] = chat[llm[t]].Messages]
    /\ UNCHANGED <<dialog, llm, held, reply, chats, disk, met, failed, faults, fatal>>

\* Mutant: what the second request was answered becomes a line of the dialog (line 123)
SecondRequestKept(t) ==
    /\ At(t, "second", "final")
    /\ chat' = [chat EXCEPT ![llm[t]].Messages = Append(@, Line("assistant", t))]
    /\ request' = [request EXCEPT ![t] = Append(@, Line("assistant", t))]
    /\ UNCHANGED <<dialog, llm, held, reply, LLMChats, mapWriter, said, disk, met, failed,
                   faults, fatal>>

\* The tools that were asked for are called, if there is a handler, and the second request
\* is answered; its answer goes into the last request only
SecondRequest(t) ==
    /\ At(t, "second", "final")
    /\ request' = [request EXCEPT ![t] = Append(@, Line("assistant", t))]
    /\ UNCHANGED <<dialog, llm, held, reply, chats, disk, met, failed, faults, fatal>>

\* Without the expert's prompt the answer may be anything, with it only a fault is no JSON
FinalRequest(t) ==
    /\ At(t, "final", "readAnswer")
    /\ \/ \E r \in {"user", "demand"} : reply' = [reply EXCEPT ![t] = r] /\ UNCHANGED <<faults, failed>>
       \/ /\ reply' = [reply EXCEPT ![t] = "useless"]
          /\ IF chat[llm[t]].ExpertChatSystemPrompt
             THEN Fault /\ failed' = failed \cup {t}
             ELSE UNCHANGED <<faults, failed>>
    /\ request' = [request EXCEPT ![t] = <<>>]
    /\ UNCHANGED <<dialog, llm, held, chats, disk, met, fatal>>

\* A request fails, as the second one may do when nothing answers the calls of tools: the
\* question stays and the expert hears nothing
RequestFails(t) ==
    /\ At(t, "first", "done") \/ At(t, "second", "done") \/ At(t, "final", "done")
    /\ IF pc[t] = "second" /\ ~chat[llm[t]].callFuctionCall THEN UNCHANGED faults ELSE Fault
    /\ failed' = failed \cup {t}
    /\ request' = [request EXCEPT ![t] = <<>>]
    /\ UNCHANGED <<dialog, llm, held, reply, chats, disk, met, fatal>>

-----------------------------------------------------------------------------
(* PeriodicSave and saveAllDialogs, for one chat after another *)

\* Whenever the range comes to the chat of d, it is marshalled under llmsMutex, which
\* handlers that talk do not take; an unchanged MD5 ends it
SaveChat(d) ==
    LET o == LLMChats[d] IN
    /\ saver.pc = "idle" /\ mapWriter = Nobody
    /\ o # Nil
    /\ chat[o].Messages # chat[o].LastSavedContentMd5
    /\ saver' = [pc |-> "open", at |-> d, llm |-> o, data |-> chat[o].Messages,
                  said |-> said[d]]
    /\ UNCHANGED <<handlers, chats, file, kept, met, failed, faults, fatal>>

\* The range over the map does not take llmsMutex
SaveThrows ==
    /\ saver.pc = "idle" /\ mapWriter # Nobody
    /\ fatal' = TRUE
    /\ UNCHANGED <<handlers, chats, disk, met, failed, faults>>

\* os.WriteFile empties the file ...
Truncate ==
    /\ saver.pc = "open"
    /\ saver' = [saver EXCEPT !.pc = "write"]
    /\ file' = [file EXCEPT ![saver.at] = Begun]
    /\ UNCHANGED <<handlers, chats, kept, met, failed, faults, fatal>>

\* ... and fills it
WriteFile ==
    /\ saver.pc = "write"
    /\ saver' = IdleSaver
    /\ file' = [file EXCEPT ![saver.at] = saver.data]
    /\ chat' = [chat EXCEPT ![saver.llm].LastSavedContentMd5 = saver.data]
    /\ kept' = [kept EXCEPT ![saver.at] = saver.said]
    /\ UNCHANGED <<handlers, LLMChats, mapWriter, said, met, failed, faults, fatal>>

\* Mutant: the MD5 is kept all the same
WriteFailsUnseen ==
    /\ saver.pc \in {"open", "write"}
    /\ Fault
    /\ saver' = IdleSaver
    /\ chat' = [chat EXCEPT ![saver.llm].LastSavedContentMd5 = saver.data]
    /\ UNCHANGED <<handlers, LLMChats, mapWriter, said, file, kept, met, failed, fatal>>

\* It cannot be opened, or cannot be filled
WriteFails ==
    /\ saver.pc \in {"open", "write"}
    /\ Fault
    /\ saver' = IdleSaver
    /\ UNCHANGED <<handlers, chats, file, kept, met, failed, fatal>>

-----------------------------------------------------------------------------
(* The whole *)

\* The process ends and is started again: only the files are left
Restart ==
    /\ Fault
    /\ pc' = [t \in Turns |-> IF AtWork(t) THEN "done" ELSE pc[t]]
    /\ failed' = failed \cup {t \in Turns : AtWork(t)}
    /\ LLMChats' = [d \in Dialogs |-> Nil]
    /\ mapWriter' = Nobody
    /\ saver' = IdleSaver
    /\ fatal' = FALSE
    /\ UNCHANGED <<dialog, llm, held, request, reply, chat, said, file, kept, met>>

Step(t) ==
    \/ Lookup(t) \/ LoadOrNew(t) \/ StoreBegin(t) \/ StoreEnd(t)
    \/ ReadMessages(t) \/ WriteQuestion(t) \/ WriteAnswer(t)
Request(t) == FirstRequest(t) \/ SecondRequest(t) \/ FinalRequest(t) \/ RequestFails(t)
Save == Truncate \/ WriteFile \/ \E d \in Dialogs : SaveChat(d)

Next ==
    \/ /\ ~fatal
       /\ \/ \E t \in Turns : \/ HandleExpertRequestMessage(t) \/ Step(t)
                              \/ LookupThrows(t) \/ Request(t)
          \/ Save \/ SaveThrows \/ WriteFails
    \/ Restart

Spec == Init /\ [][Next]_vars

\* Handlers and the saver are scheduled; nothing is assumed of who sends, nor of requests,
\* which have no time limit (context.Background(), line 52)
FairSpec ==
    /\ Spec
    /\ \A t \in Turns : WF_vars(~fatal /\ Step(t))
    /\ WF_vars(~fatal /\ Save)
-----------------------------------------------------------------------------
(* Properties *)

\* Every variable holds a value of its kind: the chats, the handlers and the files
TypeOK ==
    /\ pc \in [Turns -> PCs]
    /\ dialog \in [Turns -> Dialogs \cup {Nil}]
    /\ llm \in [Turns -> Turns \cup {Nil}]
    /\ held \in [Turns -> Seq(Message)] /\ request \in [Turns -> Seq(Message)]
    /\ reply \in [Turns -> {"none", "useless", "user", "demand"}]
    /\ LLMChats \in [Dialogs -> Turns \cup {Nil}]
    /\ chat \in [Turns -> OpenaiChatLLM]
    /\ mapWriter \in Turns \cup {Nobody}
    /\ \A d \in Dialogs : file[d] \in {Nil, Begun} \/ file[d] \in Seq(Message)
    /\ saver.pc \in {"idle", "open", "write"}
    /\ said \in [Dialogs -> Seq(Message)] /\ kept \in [Dialogs -> Seq(Message)]
    /\ met \subseteq Dialogs /\ failed \subseteq Turns
    /\ faults \in 0..MaxFaults /\ fatal \in BOOLEAN

\* Every answer but a first line comes after the question that it answers
InOrder(m) == \A i \in 2..Len(m) : m[i].who = "assistant" => m[i - 1] = Line("user", m[i].of)

\* As long as the turns of a dialog come one after the other, its conversation stays in
\* order, in memory and in its file, over failed requests, calls of tools, cuts and
\* restarts, and what the model is asked last ends with the question of this very turn
ConversationInOrder ==
    \A d \in Dialogs \ met :
        /\ LLMChats[d] # Nil => InOrder(chat[LLMChats[d]].Messages)
        /\ Whole(d) => InOrder(file[d])
        /\ \A t \in Turns : pc[t] = "final" /\ dialog[t] = d =>
              \E i \in 1..Len(request[t]) :
                  /\ request[t][i] = Line("user", t)
                  /\ \A j \in i + 1..Len(request[t]) : request[t][j] = Line("assistant", t)

\* The newest lines of s, as many as the limit allows
Newest(m, s) ==
    /\ Len(m) = IF Len(s) > MessagesLenLimit THEN MessagesLenLimit ELSE Len(s)
    /\ m = SubSeq(s, Len(s) - Len(m) + 1, Len(s))

\* In such a dialog only old lines are lost: the chat in the map holds the newest of all that
\* was said, the file those of an earlier moment, however many were said since, and a restart
\* goes on from there.  It forgets what was said since that moment, or all of it if it finds
\* the file while it is written (Lasting)
OnlyOldLinesGo ==
    \A d \in Dialogs \ met :
        /\ LLMChats[d] # Nil => Newest(chat[LLMChats[d]].Messages, said[d])
        /\ Whole(d) => /\ Newest(file[d], kept[d])
                       /\ \E n \in 0..Len(said[d]) : kept[d] = SubSeq(said[d], 1, n)

\* Every turn is answered to the expert, unless it meets a fault, talks to a chat that was
\* restored without the expert's prompt, or waits for the model for ever
TurnsAnswered ==
    \A t \in Turns :
        pc[t] = "lookup" ~>
            \/ pc[t] = "done" /\ reply[t] \in {"user", "demand"}
            \/ t \in failed \/ fatal
            \/ llm[t] # Nil /\ ~chat[llm[t]].ExpertChatSystemPrompt
            \/ [](pc[t] \in {"first", "second", "final"})

\* When no turn is at work, the file of every chat in the map comes to hold its messages,
\* failed writes included
FileCatchesUp ==
    (\A t \in Turns : ~AtWork(t))
      ~> \/ \E t \in Turns : AtWork(t)
         \/ \A d \in Dialogs : LLMChats[d] # Nil => file[d] = chat[LLMChats[d]].Messages
         \/ fatal
=============================================================================
