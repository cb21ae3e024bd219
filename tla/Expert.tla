------------------------------- MODULE Expert -------------------------------
(***************************************************************************)
(* The dispatcher of experts/experts.go.  Three buffered channels bring    *)
(* messages from the user, from the program library and from the chat;     *)
(* Run takes them off and starts one goroutine per message, so handlers of *)
(* one dialog run concurrently and in any order.  A handler looks its      *)
(* dialog up in t.dialogs (without dialogsMutex), creates the entry when   *)
(* it is missing, takes the entry's mutex and decides who gets the         *)
(* message.                                                                *)
(*                                                                         *)
(* A message m of Msgs is also the goroutine that handles it.  DialogInfo  *)
(* objects live in a heap: the object loaded from disk for dialog d is     *)
(* named d, the one that the handler of m allocates is named m.            *)
(***************************************************************************)
EXTENDS Integers, Sequences

CONSTANTS
    Dialogs,        \* dialog identifiers
    Intents,        \* intents that have a matcher and a program
    Contents,       \* what a message can say
    Msgs,           \* messages sent in one behaviour (bounds the behaviour)
    messageformatting,  \* what the intent recogniser sees of a content
    Winners,        \* Winners[c]: intents that may win for c with score >= 0.9
    HistoryLimit,   \* chatSaveHistoryLimit
    ChanCap,        \* capacity of each of the three channels
    LoadedSets,     \* sets of dialogs that loadDialogInfo may find on disk
    UserEvents, ProgramEvents, ChatEvents,   \* event types each party sends
    NoIntent, Nobody, Nil, NoMsg

Objs == Dialogs \cup Msgs
Sources == {"user", "program", "chat"}

ASSUME Disjoint ==
    /\ Dialogs \cap Msgs = {}
    /\ Nil \notin Objs
    /\ Nobody \notin Msgs
    /\ NoIntent \notin Intents
\* names of parties that are not programs
ASSUME PartyNames == {"idle", "chat", "nowhere"} \cap Intents = {}
ASSUME FormatAssumption == messageformatting \in [Contents -> Contents]
ASSUME WinnersAssumption == Winners \in [Contents -> SUBSET Intents]
\* SetChatSaveHistoryLimit raises a limit below 1 to 1
ASSUME LimitAssumption == HistoryLimit \in Nat \ {0}
ASSUME CapAssumption == ChanCap \in Nat \ {0}
ASSUME LoadedAssumption == LoadedSets \subseteq SUBSET Dialogs
ASSUME EventsAssumption ==
    /\ UserEvents \cup ProgramEvents \cup ChatEvents \subseteq Int
    /\ UserEvents \subseteq {1001, 1002}

EventsOf == [user |-> UserEvents, program |-> ProgramEvents, chat |-> ChatEvents]
Message == [src : Sources, event : Int, dlg : Dialogs, content : Contents]
Line == [who : {"User", "Program", "Chat"}, text : Contents]
DialogInfo == [program : Intents \cup {NoIntent}, mutil : BOOLEAN,
               firstMutil : BOOLEAN, chatHistory : Seq(Line)]
Delivery == [to : Sources, intention : Intents \cup {NoIntent},
             hints : BOOLEAN, history : Seq(Line)]

VARIABLES
    commandFirst,  \* set before Run, never changed afterwards
    chan,          \* the three input channels
    msg,           \* what each message says, NoMsg until it is sent
    pc,            \* where the handler of a message is
    dialogx,       \* the handler's variable of the same name
    outer,         \* dialogx of the calling handler, in a nested user handler
    best,          \* bestProgram of the running user handler
    hints,         \* whether its possibleIntentions is non-nil
    dialogs,       \* the map t.dialogs: the object of each dialog, or Nil
    mapWriter,     \* the handler that is writing the map under dialogsMutex
    info,          \* the fields of every DialogInfo object
    lock,          \* holder of every object's RWMutex
    IntentCache,   \* cached winner per formatted content
    out,           \* what the handler of a message gave to the callbacks
    fatal          \* the Go runtime ended the process

vars == <<commandFirst, chan, msg, pc, dialogx, outer, best, hints, dialogs,
          mapWriter, info, lock, IntentCache, out, fatal>>
local == <<dialogx, outer, best, hints>>
shared == <<dialogs, mapWriter, info, lock, IntentCache, out>>

Working == {"handle", "find", "match", "assign", "forward"}
PCs == {"unsent", "queued", "lookup", "insert", "inserting", "lock", "done"}
         \cup Working

NewInfo == [program |-> NoIntent, mutil |-> FALSE, firstMutil |-> FALSE,
            chatHistory |-> <<>>]

\* What the file may say of a dialog at rest: never used, or with a last line of the user's
\* and in the multi-turn chat or not, or assigned to a program
SavedInfos ==
    {NewInfo} \cup
    {[program |-> NoIntent, mutil |-> u, firstMutil |-> f,
      chatHistory |-> <<[who |-> "User", text |-> c]>>] :
       u \in BOOLEAN, f \in BOOLEAN, c \in Contents} \cup
    {[program |-> p, mutil |-> FALSE, firstMutil |-> FALSE,
      chatHistory |-> <<[who |-> "User", text |-> c]>>] :
       p \in Intents, c \in Contents}

Init ==
    /\ commandFirst \in BOOLEAN
    /\ chan = [s \in Sources |-> <<>>]
    /\ msg = [m \in Msgs |-> NoMsg]
    /\ pc = [m \in Msgs |-> "unsent"]
    /\ dialogx = [m \in Msgs |-> Nil]
    /\ outer = [m \in Msgs |-> Nil]
    /\ best = [m \in Msgs |-> NoIntent]
    /\ hints = [m \in Msgs |-> FALSE]
    /\ mapWriter = Nobody
    /\ lock = [o \in Objs |-> Nobody]
    /\ IntentCache = [c \in Contents |-> NoIntent]
    /\ out = [m \in Msgs |-> <<>>]
    /\ fatal = FALSE
    /\ \E loaded \in LoadedSets :
         /\ dialogs = [d \in Dialogs |-> IF d \in loaded THEN d ELSE Nil]
         /\ \E saved \in [loaded -> SavedInfos] :
              info = [o \in Objs |-> IF o \in loaded THEN saved[o] ELSE NewInfo]

-----------------------------------------------------------------------------
(* Helpers *)

GoTo(m, where) == pc' = [pc EXCEPT ![m] = where]

\* m runs (perhaps nested) in handleFromUserMessage
InUserHandler(m) == msg[m].src = "user" \/ outer[m] # Nil

\* What FindBestIntent matches and caches
Formatted(m) == messageformatting[msg[m].content]

\* The dialog object that m works on
Dlg(m) == info[dialogx[m]]

\* Mutant: the first lines are kept
KeepFirst(h) == IF Len(h) > HistoryLimit THEN SubSeq(h, 1, HistoryLimit) ELSE h

\* Append to ChatHistory and keep its last HistoryLimit lines
KeepLast(h) ==
    IF Len(h) > HistoryLimit THEN SubSeq(h, Len(h) - HistoryLimit + 1, Len(h)) ELSE h
AddLine(h, who, text) == KeepLast(Append(h, [who |-> who, text |-> text]))

\* A user line is added unless it repeats the last line
AddUserLine(h, text) ==
    LET line == [who |-> "User", text |-> text]
    IN  IF h # <<>> /\ h[Len(h)] = line THEN KeepLast(h) ELSE AddLine(h, "User", text)

Send(m, delivery) == out' = [out EXCEPT ![m] = Append(@, delivery)]
ToUser == [to |-> "user", intention |-> NoIntent, hints |-> FALSE, history |-> <<>>]
ToProgram(i) ==
    [to |-> "program", intention |-> i, hints |-> FALSE, history |-> <<>>]
ToChat(h, history) ==
    [to |-> "chat", intention |-> NoIntent, hints |-> h, history |-> history]

\* Mutant: an early return that leaves the object locked
ReturnLocked(m) ==
    /\ GoTo(m, "done")
    /\ dialogx' = [dialogx EXCEPT ![m] = Nil]
    /\ outer' = [outer EXCEPT ![m] = Nil]
    /\ best' = [best EXCEPT ![m] = NoIntent]
    /\ hints' = [hints EXCEPT ![m] = FALSE]
    /\ UNCHANGED lock

\* The deferred Unlocks of the running handler and of its caller, and its exit
Return(m) ==
    /\ lock' = [o \in Objs |-> IF o \in {dialogx[m], outer[m]} THEN Nobody ELSE lock[o]]
    /\ GoTo(m, "done")
    /\ dialogx' = [dialogx EXCEPT ![m] = Nil]
    /\ outer' = [outer EXCEPT ![m] = Nil]
    /\ best' = [best EXCEPT ![m] = NoIntent]
    /\ hints' = [hints EXCEPT ![m] = FALSE]

\* What an unlocked read of t.dialogs[d] may see while a write is in progress
MapRead(d) ==
    {dialogs[d]} \cup
    {dialogx[w] : w \in {w \in Msgs : w = mapWriter /\ msg[w].dlg = d}}

-----------------------------------------------------------------------------
(* The channels *)

\* HandleUserRequestMessage, HandleProgramRequestMessage, HandleChatRequestMessage:
\* the message is copied and sent into its channel, which blocks when it is full
HandleRequestMessage(s, m) ==
    /\ pc[m] = "unsent"
    /\ Len(chan[s]) < ChanCap
    /\ \E e \in EventsOf[s], d \in Dialogs, c \in Contents :
         msg' = [msg EXCEPT ![m] = [src |-> s, event |-> e, dlg |-> d, content |-> c]]
    /\ chan' = [chan EXCEPT ![s] = Append(@, m)]
    /\ GoTo(m, "queued")
    /\ UNCHANGED <<commandFirst, local, shared, fatal>>

\* The select of Run: take one message and start its handler
Run(s) ==
    /\ chan[s] # <<>>
    /\ GoTo(Head(chan[s]), "lookup")
    /\ chan' = [chan EXCEPT ![s] = Tail(@)]
    /\ UNCHANGED <<commandFirst, msg, local, shared, fatal>>

-----------------------------------------------------------------------------
(* Finding the dialog object and locking it *)

\* Mutants: a new entry for every message of the user; no entry for an unknown dialog
LookupAlwaysCreates(m) ==
    /\ pc[m] = "lookup"
    /\ \E o \in MapRead(msg[m].dlg) :
         /\ dialogx' = [dialogx EXCEPT ![m] = o]
         /\ GoTo(m, IF InUserHandler(m) THEN "insert" ELSE IF o # Nil THEN "lock" ELSE "done")
    /\ UNCHANGED <<commandFirst, chan, msg, outer, best, hints, shared, fatal>>
LookupNeverCreates(m) ==
    /\ pc[m] = "lookup"
    /\ \E o \in MapRead(msg[m].dlg) :
         /\ dialogx' = [dialogx EXCEPT ![m] = o]
         /\ GoTo(m, IF o # Nil THEN "lock" ELSE "done")
    /\ UNCHANGED <<commandFirst, chan, msg, outer, best, hints, shared, fatal>>

\* dialogx, exists := t.dialogs[message.DialogID], without dialogsMutex
Lookup(m) ==
    /\ pc[m] = "lookup"
    /\ \E o \in MapRead(msg[m].dlg) :
         /\ dialogx' = [dialogx EXCEPT ![m] = o]
         /\ GoTo(m, IF o # Nil THEN "lock"
                    ELSE IF InUserHandler(m) THEN "insert" ELSE "done")
    /\ UNCHANGED <<commandFirst, chan, msg, outer, best, hints, shared, fatal>>

\* A map read that overlaps a map write: "fatal error: concurrent map read and map write"
LookupThrows(m) ==
    /\ pc[m] = "lookup"
    /\ mapWriter # Nobody
    /\ fatal' = TRUE
    /\ UNCHANGED <<commandFirst, chan, msg, pc, local, shared>>

\* Allocate the DialogInfo, take dialogsMutex and start the map write
InsertBegin(m) ==
    /\ pc[m] = "insert"
    /\ mapWriter = Nobody
    /\ mapWriter' = m
    /\ dialogx' = [dialogx EXCEPT ![m] = m]
    /\ GoTo(m, "inserting")
    /\ UNCHANGED <<commandFirst, chan, msg, outer, best, hints, dialogs, info,
                   lock, IntentCache, out, fatal>>

InsertEnd(m) ==
    /\ pc[m] = "inserting"
    /\ dialogs' = [dialogs EXCEPT ![msg[m].dlg] = m]
    /\ mapWriter' = Nobody
    /\ GoTo(m, "lock")
    /\ UNCHANGED <<commandFirst, chan, msg, local, info, lock, IntentCache, out, fatal>>

\* Mutant: the mutex is not taken
AcquireNoLock(m) ==
    /\ pc[m] = "lock"
    /\ lock' = [lock EXCEPT ![dialogx[m]] = m]
    /\ GoTo(m, "handle")
    /\ UNCHANGED <<commandFirst, chan, msg, local, dialogs, mapWriter, info,
                   IntentCache, out, fatal>>

\* dialogx.RWMutex.Lock(): Go's mutex is not reentrant
AcquireLock(m) ==
    /\ pc[m] = "lock"
    /\ lock[dialogx[m]] = Nobody
    /\ lock' = [lock EXCEPT ![dialogx[m]] = m]
    /\ GoTo(m, "handle")
    /\ UNCHANGED <<commandFirst, chan, msg, local, dialogs, mapWriter, info,
                   IntentCache, out, fatal>>

\* The running handler of m is at its switch, in the user's frame or not, on event e
Handles(m, user, e) ==
    pc[m] = "handle" /\ InUserHandler(m) = user /\ msg[m].event = e

-----------------------------------------------------------------------------
(* handleFromUserMessage *)

\* 1001: extend the history; an assigned program gets the message
AssignedTurn(m) ==
    /\ Handles(m, TRUE, 1001)
    /\ Dlg(m).program # NoIntent
    /\ info' = [info EXCEPT ![dialogx[m]].chatHistory = AddUserLine(@, msg[m].content),
                            ![dialogx[m]].firstMutil = FALSE]
    /\ Send(m, ToProgram(Dlg(m).program))
    /\ Return(m)
    /\ UNCHANGED <<commandFirst, chan, msg, dialogs, mapWriter, IntentCache, fatal>>

\* Mutant: the test for an assigned program is lost
UnassignedTurnAnyway(m) ==
    /\ Handles(m, TRUE, 1001)
    /\ info' = [info EXCEPT ![dialogx[m]].chatHistory = AddUserLine(@, msg[m].content)]
    /\ GoTo(m, "find")
    /\ UNCHANGED <<commandFirst, chan, msg, local, dialogs, mapWriter, lock,
                   IntentCache, out, fatal>>

\* 1001 with no program assigned: extend the history and look for one
UnassignedTurn(m) ==
    /\ Handles(m, TRUE, 1001)
    /\ Dlg(m).program = NoIntent
    /\ info' = [info EXCEPT ![dialogx[m]].chatHistory = AddUserLine(@, msg[m].content)]
    /\ GoTo(m, "find")
    /\ UNCHANGED <<commandFirst, chan, msg, local, dialogs, mapWriter, lock,
                   IntentCache, out, fatal>>

\* Mutant: the content is returned in place of the intent cached for it
FindContent(m) ==
    /\ pc[m] = "find"
    /\ best' = [best EXCEPT ![m] = Formatted(m)]
    /\ GoTo(m, IF IntentCache[Formatted(m)] # NoIntent THEN "assign" ELSE "match")
    /\ UNCHANGED <<commandFirst, chan, msg, dialogx, outer, hints, shared, fatal>>

\* FindBestIntent: read the cache; a hit has no possible intentions
FindBestIntent(m) ==
    /\ pc[m] = "find"
    /\ best' = [best EXCEPT ![m] = IntentCache[Formatted(m)]]
    /\ GoTo(m, IF IntentCache[Formatted(m)] # NoIntent THEN "assign" ELSE "match")
    /\ UNCHANGED <<commandFirst, chan, msg, dialogx, outer, hints, shared, fatal>>

\* FindBestIntent after a miss: run the matchers (ties fall either way) and cache the
\* winner, unless the dialog is in the multi-turn chat
Match(m) ==
    LET c == Formatted(m) IN
    /\ pc[m] = "match"
    /\ \E i \in IF Winners[c] = {} THEN {NoIntent} ELSE Winners[c] :
         /\ best' = [best EXCEPT ![m] = i]
         /\ IntentCache' = IF i # NoIntent /\ ~Dlg(m).mutil
                           THEN [IntentCache EXCEPT ![c] = i] ELSE IntentCache
    /\ hints' = [hints EXCEPT ![m] = Intents # {}]
    /\ GoTo(m, "assign")
    /\ UNCHANGED <<commandFirst, chan, msg, dialogx, outer, dialogs, mapWriter, info,
                   lock, out, fatal>>

\* Mutant: commands always come first
AssignProgramFirst(m) ==
    /\ pc[m] = "assign"
    /\ best[m] # NoIntent
    /\ info' = [info EXCEPT ![dialogx[m]].program = best[m]]
    /\ GoTo(m, "forward")
    /\ UNCHANGED <<commandFirst, chan, msg, local, dialogs, mapWriter, lock,
                   IntentCache, out, fatal>>

\* Assign the program found: in the multi-turn chat only if commands come first
AssignProgram(m) ==
    /\ pc[m] = "assign"
    /\ best[m] # NoIntent
    /\ ~Dlg(m).mutil \/ commandFirst
    /\ info' = [info EXCEPT ![dialogx[m]].program = best[m]]
    /\ GoTo(m, "forward")
    /\ UNCHANGED <<commandFirst, chan, msg, local, dialogs, mapWriter, lock,
                   IntentCache, out, fatal>>

\* Mutant: the dialog stays marked as being in the multi-turn chat
ForwardInChat(m) ==
    /\ pc[m] = "forward"
    /\ info' = [info EXCEPT ![dialogx[m]].firstMutil = FALSE]
    /\ Send(m, ToProgram(Dlg(m).program))
    /\ Return(m)
    /\ UNCHANGED <<commandFirst, chan, msg, dialogs, mapWriter, IntentCache, fatal>>

\* ... and give it the message
ForwardToProgram(m) ==
    /\ pc[m] = "forward"
    /\ info' = [info EXCEPT ![dialogx[m]].firstMutil = FALSE,
                            ![dialogx[m]].mutil = FALSE]
    /\ Send(m, ToProgram(Dlg(m).program))
    /\ Return(m)
    /\ UNCHANGED <<commandFirst, chan, msg, dialogs, mapWriter, IntentCache, fatal>>

\* gotoMutil: give the message to the multi-turn chat
ForwardToChat(m) ==
    /\ pc[m] = "assign"
    /\ \/ best[m] = NoIntent
       \/ Dlg(m).mutil /\ ~commandFirst
    /\ info' = [info EXCEPT ![dialogx[m]].firstMutil = ~Dlg(m).mutil,
                            ![dialogx[m]].mutil = TRUE]
    /\ Send(m, ToChat(hints[m], Dlg(m).chatHistory))
    /\ Return(m)
    /\ UNCHANGED <<commandFirst, chan, msg, dialogs, mapWriter, IntentCache, fatal>>

\* 1002: an assigned program is told (the copy carries no intention) and let go
ClientTerminate(m) ==
    /\ Handles(m, TRUE, 1002)
    /\ IF Dlg(m).program = NoIntent
       THEN UNCHANGED <<info, out>>
       ELSE /\ Send(m, ToProgram(NoIntent))
            /\ info' = [info EXCEPT ![dialogx[m]].program = NoIntent]
    /\ Return(m)
    /\ UNCHANGED <<commandFirst, chan, msg, dialogs, mapWriter, IntentCache, fatal>>

-----------------------------------------------------------------------------
(* handleFromProgramMessage and handleFromChatMessage *)

\* 2001 from the program or the chat: a line of history, and the text for the user
ServerMessage(m) ==
    /\ Handles(m, FALSE, 2001)
    /\ info' = [info EXCEPT ![dialogx[m]].chatHistory =
                  AddLine(@, IF msg[m].src = "program" THEN "Program" ELSE "Chat",
                          msg[m].content)]
    /\ Send(m, ToUser)
    /\ Return(m)
    /\ UNCHANGED <<commandFirst, chan, msg, dialogs, mapWriter, IntentCache, fatal>>

\* 2002 and 2004 from the program: the user is told, the program is let go
ToolFinishOrNotFound(m) ==
    /\ Handles(m, FALSE, 2002) \/ Handles(m, FALSE, 2004)
    /\ msg[m].src = "program"
    /\ info' = [info EXCEPT ![dialogx[m]].program = NoIntent]
    /\ Send(m, ToUser)
    /\ Return(m)
    /\ UNCHANGED <<commandFirst, chan, msg, dialogs, mapWriter, IntentCache, fatal>>

\* Call handleFromUserMessage from inside a handler, whose lock stays taken
CallUserHandler(m) ==
    /\ outer' = [outer EXCEPT ![m] = dialogx[m]]
    /\ dialogx' = [dialogx EXCEPT ![m] = Nil]
    /\ GoTo(m, "lookup")
    /\ UNCHANGED <<commandFirst, chan, msg, best, hints, dialogs, mapWriter, lock,
                   IntentCache, out, fatal>>

\* 2003 from the program: let it go and hand the message to the user's handler
ToolNotSupport(m) ==
    /\ Handles(m, FALSE, 2003)
    /\ msg[m].src = "program"
    /\ info' = [info EXCEPT ![dialogx[m]].program = NoIntent]
    /\ CallUserHandler(m)

\* 1001 from the chat, the demand it worked out: leave the multi-turn chat and
\* hand the message to the user's handler
ChatDemand(m) ==
    /\ Handles(m, FALSE, 1001)
    /\ msg[m].src = "chat"
    /\ info' = [info EXCEPT ![dialogx[m]].mutil = FALSE]
    /\ CallUserHandler(m)

\* The events each switch knows
Known(m) ==
    IF InUserHandler(m) THEN {1001, 1002}
    ELSE IF msg[m].src = "program" THEN {2001, 2002, 2003, 2004} ELSE {1001, 2001}

\* The default branches
UnknownEvent(m) ==
    /\ pc[m] = "handle"
    /\ msg[m].event \notin Known(m)
    /\ Return(m)
    /\ UNCHANGED <<commandFirst, chan, msg, dialogs, mapWriter, info, IntentCache,
                   out, fatal>>

-----------------------------------------------------------------------------
(* The whole *)

\* The steps of m's handler that never wait
Step(m) ==
    \/ Lookup(m) \/ LookupThrows(m) \/ InsertEnd(m)
    \/ AssignedTurn(m) \/ UnassignedTurn(m) \/ FindBestIntent(m) \/ Match(m)
    \/ AssignProgram(m) \/ ForwardToProgram(m) \/ ForwardToChat(m)
    \/ ClientTerminate(m) \/ ServerMessage(m) \/ ToolFinishOrNotFound(m)
    \/ ToolNotSupport(m) \/ ChatDemand(m) \/ UnknownEvent(m)

\* Every message handled, or the process gone: nothing is left to do
Finished == fatal \/ \A m \in Msgs : pc[m] = "done"

Next ==
    \/ /\ ~fatal
       /\ \/ \E s \in Sources, m \in Msgs : HandleRequestMessage(s, m)
          \/ \E s \in Sources : Run(s)
          \/ \E m \in Msgs : Step(m) \/ InsertBegin(m) \/ AcquireLock(m)
    \/ Finished /\ UNCHANGED vars

Spec == Init /\ [][Next]_vars

\* select picks a ready channel at random, goroutines are scheduled fairly, and Go's
\* mutexes hand over to a waiting goroutine; the parties need not send anything
FairSpec ==
    /\ Spec
    /\ \A s \in Sources : WF_vars(~fatal /\ Run(s))
    /\ \A m \in Msgs : /\ WF_vars(~fatal /\ Step(m))
                       /\ SF_vars(~fatal /\ InsertBegin(m))
                       /\ SF_vars(~fatal /\ AcquireLock(m))
-----------------------------------------------------------------------------
(* Properties *)

\* Every variable holds a value of its kind: the state the Go declarations describe
TypeOK ==
    /\ commandFirst \in BOOLEAN
    /\ chan \in [Sources -> Seq(Msgs)]
    /\ msg \in [Msgs -> Message \cup {NoMsg}]
    /\ pc \in [Msgs -> PCs]
    /\ dialogx \in [Msgs -> Objs \cup {Nil}]
    /\ outer \in [Msgs -> Objs \cup {Nil}]
    /\ best \in [Msgs -> Intents \cup {NoIntent}]
    /\ hints \in [Msgs -> BOOLEAN]
    /\ dialogs \in [Dialogs -> Objs \cup {Nil}]
    /\ mapWriter \in Msgs \cup {Nobody}
    /\ info \in [Objs -> DialogInfo]
    /\ lock \in [Objs -> Msgs \cup {Nobody}]
    /\ IntentCache \in [Contents -> Intents \cup {NoIntent}]
    /\ out \in [Msgs -> Seq(Delivery)]
    /\ fatal \in BOOLEAN

\* Two goroutines never run their handlers on one DialogInfo at the same time, a nested
\* call included: the per-dialog mutex of lines 441, 607 and 661
Owns(m, o) == (pc[m] \in Working /\ dialogx[m] = o) \/ outer[m] = o
MutualExclusion ==
    \A o \in Objs : \A m, n \in Msgs : Owns(m, o) /\ Owns(n, o) => m = n

\* A dialog that is given to a program has left the multi-turn chat, whenever no handler
\* is inside it: the chat and a program never both believe that they hold the user
ProgramExcludesChat ==
    \A o \in Objs : lock[o] = Nobody /\ info[o].program # NoIntent
                      => ~info[o].mutil /\ ~info[o].firstMutil

\* The history that goes to the chat ends with the very line the user just said and is
\* never longer than the limit, however the handlers of the dialog interleave
ChatSeesOwnTurn ==
    \A m \in Msgs : \A k \in 1..Len(out[m]) :
        out[m][k].to = "chat" =>
            LET h == out[m][k].history IN
            /\ Len(h) \in 1..HistoryLimit
            /\ h[Len(h)] = [who |-> "User", text |-> msg[m].content]

\* A turn of the user is handed over exactly once, to a program or to the chat, by the
\* time its handler returns, whatever else happened to the dialog meanwhile
TurnHandedOver ==
    \A m \in Msgs :
        /\ Len(out[m]) <= 1
        /\ pc[m] = "done" /\ msg[m].src = "user" /\ msg[m].event = 1001 =>
              \E k \in 1..Len(out[m]) :
                  \/ out[m][k].to = "chat"
                  \/ out[m][k].to = "program" /\ out[m][k].intention # NoIntent

\* A handler never throws away a DialogInfo that was loaded from disk: only a missing
\* entry is created
LoadedEntryStays == [][\A d \in Dialogs : dialogs[d] = d => dialogs'[d] = d]_vars

\* While the chat holds the user and commands do not come first, only a demand of the
\* chat ends that: no turn, no answer of a program and no race starts a program behind it
OnlyChatEndsChat ==
    [][\A o \in Objs : ~commandFirst /\ info[o].mutil =>
          /\ info'[o].program \in {info[o].program, NoIntent}
          /\ info'[o].mutil \/ \E m \in Msgs : lock[o] = m /\ msg[m].src = "chat"]_vars

\* Each DialogInfo behaves as one abstract dialog: who holds it, and who got each turn
PartyOf(o) ==
    IF info[o].program # NoIntent THEN info[o].program
    ELSE IF info[o].mutil THEN "chat" ELSE "idle"
Delivered(m) ==
    IF out[m] = <<>> \/ msg[m].event # 1001 THEN "nowhere"
    ELSE LET last == out[m][Len(out[m])]
         IN  IF last.to = "program" THEN last.intention ELSE last.to

Routing == INSTANCE DialogRouting WITH
    Idle <- "idle", Chat <- "chat", Nowhere <- "nowhere",
    route <- [o \in Objs |-> PartyOf(o)],
    delivered <- [m \in Msgs |-> Delivered(m)]

\* The handlers, locks and caches together implement the abstract routing
ImplementsRouting == Routing!Spec

\* Every turn the user sends is eventually handed to a program or to the chat, as long as
\* neither party hands a message back and no map access kills the process
EveryTurnHandedOver ==
    \A m \in Msgs : pc[m] = "queued" /\ msg[m].src = "user" /\ msg[m].event = 1001
                     ~> out[m] # <<>> \/ fatal

\* What the comments at lines 635 and 664 say: a turn that the program declines is given
\* to another party, and a demand worked out by the chat comes back to the dispatcher as
\* a turn of the user
HandBackReassigned ==
    \A m \in Msgs : pc[m] = "queued" /\ \/ msg[m].src = "program" /\ msg[m].event = 2003
                                        \/ msg[m].src = "chat" /\ msg[m].event = 1001
                     ~> out[m] # <<>>
=============================================================================
