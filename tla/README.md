# TLA+ models of expertlib

expertlib routes the turns of a dialog to programs (Node.js processes, one intent each) and to a
multi-turn chat. This directory holds TLA+ models of its concurrent parts, the TLC configurations
that check them on small instances, and TLAPS proofs of every safety property that those
configurations find to hold. Paths and line numbers below
are those of the Go source (`src/`).

    tlc -workers 2 -config Expert_safety.cfg MCExpert     # one run; the table below names the others
    tlapm Expert_proofs.tla                               # the proofs of one module; so for every *_proofs

## 1. Inventory of the system

| Component | State | Operations | Hard behaviours | What makes it correct |
|---|---|---|---|---|
| **Dispatcher** `experts/experts.go` | three channels of 1000 messages, `dialogs` map of `DialogInfo` (Program, Mutil, FirstMutil, ChatHistory), one mutex each, `dialogsMutex`, the dialog file | `Handle*RequestMessage`, `Run`, `handleFromUser/Program/ChatMessage`, `saveDialogInfo`, `loadDialogInfo`, `UpdateIntentMatcherFromRNNPath` | one goroutine per message, so turns of a dialog are handled in any order; map read without its mutex; check-then-create of entries; a nested handler call under a mutex that is not reentrant; a crash during a save | mutual exclusion per dialog; each turn handed over exactly once; a program and the chat never both hold the user; the chat sees the turn it is to answer |
| **Intent matching** `experts/intent_match.go` | registered matchers, cache content -> intent, cache file and its MD5 | `FindBestIntent`, `Register`, `UnRegister`, `SaveIntentCache`, `LoadIntentCache` | a goroutine per matcher, answers in any order; read lock, matching, write lock are three sections; failing writes, crash | the winner is the best of those asked and good enough; what is cached was earned for its content; every call returns |
| **RNN intents** `experts/rnnIntent.go` | ONNX sessions, tokenizers | load, `Matching` | none beyond inference | a score between 0 and 1 |
| **Program library** `program/program.go`, `program/session.go` | `sessions` map, per session: listener, connection, process, idle timer | `handleFromExpertMessage`, `GetOrCreateSession`, `Send`, `CloseSession`, `handleConnection`, `waitForProcess`, timer | four kinds of goroutine close sessions, by dialog rather than by session, in three critical sections; `Send` waits for a connection; a reader outlives its session | no turn goes to a process that was dealt with before; a closed session is closed; a connection that is written to is read; one process per dialog |
| **Program storage** `program/storage.go` | `data` map of `DialogData`, one file per dialog, MD5 of the last save | `/memory` queries and saves, load on first use, `periodicPersist` | check-then-load without exclusion; file truncated before it is filled; unlocked rounds over the map | a query is answered with what was saved under its dialog and key; what was saved stays and reaches the file |
| **Chat** `chat/chat.go`, `chat/llm_manager.go`, `chat/openai.go` | LLM chats per dialog, their messages, their files | messages of the expert, `Chat`, save and restore | two first messages create two chats; a save overlaps a `Chat`; restored chats lack prompt and tools; failing requests | every turn is answered; the conversation stays in order and only its old lines are lost |
| **MCP client** `ssemcpclient/ssemcpclient.go` | the current client; per client: stream, endpoint, HTTP client, pending calls by id, `initChan`, `ReconnectChan`, `stopChan` | `NewSSEFuncCall`, `RunRoutine`, `Init`, the event handlers, `CallTool`/`CallFunction`, `Close` | timeout against a late or doubled answer, reconnection against calls in flight, channels closed twice, ids that wrap | a call gets its own answer or an error, and returns; a lost client is replaced; a panic has one of a few known causes |
| **Message types** `types/` | none | none | none | records of the other modules stand for them |
| **Example server** `example/main.go` | none of its own | wiring | not part of the library | |

*Interactions.* The user's side, the program library and the chat each put messages into a channel of
the dispatcher; the dispatcher calls back with the message for the party it chose
(`userMessageHandler`, `programMessageHandler`, `chatMessageHandler`). A callback of the program
library puts the message into that library's own channel, where again every message gets a goroutine.
Events: 1001 a turn or a demand, 1002 the client terminates; 2001 a message for the user, 2002 the
program ended, 2003 it declines the turn, 2004 there is no such program. Programs reach the storage
over HTTP and the library over a Unix socket; chats reach tools through the MCP client.

The hazards that the properties are aimed at are in `PROJECT.json` under `hazards`, each at its line.

## 2. Modules

| Module | Models | Role |
|---|---|---|
| `Expert` | `experts/experts.go` | the dispatcher |
| `DialogRouting` | | what the dispatcher promises of one dialog, without handlers and locks; `Expert` implements it |
| `ProgramSessions` | `program/program.go`, `program/session.go` | the program library; the Node.js process is external |
| `IntentMatch` | `experts/intent_match.go` | matching, its cache and the cache file |
| `Storage` | `program/storage.go` | the key-value store and its files |
| `DialogFile` | `experts/experts.go` (save, load, ticker) | `Expert` together with its dialog file, the saver and restarts |
| `ChatLLM` | `chat/chat.go`, `chat/llm_manager.go`, `chat/openai.go` | the multi-turn chat; the model and the tools are external |
| `MCPClient` | `ssemcpclient/ssemcpclient.go` | the client of the tool server, which is external |
| `*_proofs` | | the TLAPS proofs about the module of that name; `DialogFile_proofs` builds on `Expert_proofs`, `MCPClient_panics_proofs` on `MCPClient_proofs` |
| `MC*` | | constants for TLC |

**Expert.** A message is also its goroutine; `pc[m]` is where that goroutine stands: `lookup` (the map
read), `insert`/`inserting` (the map write under `dialogsMutex`), `lock` (waiting for
`dialogx.RWMutex`), `handle` (at the `switch`), `find`/`match`/`assign`/`forward` (the parts of a turn
without an assigned program), `done`. `DialogInfo` objects live in a heap `info`, because two handlers
may create two objects for one dialog: the object loaded from disk carries the dialog's name, one that
a handler allocates carries the handler's. A map read that overlaps a map write returns the old or the
new pointer, or ends the process as the Go runtime does (`LookupThrows`, `fatal`). One action is what
runs between two points where another goroutine can matter: under the dialog's mutex nothing else
touches the object, and what a turn does there is split at its calls of `FindBestIntent` and where it assigns
the program in two places (476 and 539) so that the properties see the intermediate state. 2003 and a
demand of the chat call `handleFromUserMessage` with the mutex still taken; `outer` is the caller's
`dialogx`. Events that a `switch` does not know fall into `UnknownEvent`. `FindBestIntent` appears
here by what it returns; `IntentMatch` has its inside.

**DialogRouting.** Per `DialogInfo`, the party that holds it (idle, the chat, a program) and per turn
the party that got it. A program does not pass a dialog on directly, the chat gives it up only by
handing it back or, when commands come first, to a program. Refinement mapping: `route[o]` is the
program, else the chat if `Mutil`, else idle; `delivered[m]` is the last recipient of the turn. A turn
that assigns a program maps to two abstract steps, `Assign` and `Deliver`.

**ProgramSessions.** A message is its handler and, if it creates a session, that session and its process.
`CloseSession` is three actions (`CloseLookup`, `Close`, `Delete`), as in the code, run on behalf of a
handler, a reader, the waiter for the process or the timer. `reader[s]` is `handleConnection` for the
connection of process `s`; `home[s]` is the session that accepted it, which is the one whose listener stood
on the dialog's socket path at that time and may be a newer one. The 16 byte header and the JSON body are
reduced to answers that are understood, garbled (the reader gives up) or not parsed (logged and skipped).
The idle timer may fire once for each session of `IdleSessions`; it is armed by a connection, a reuse or an
answer, even after the session was closed. `Send` writes to whatever connection the session has, since it
does not know whether the process still runs. `gone[m]` is a history variable: the processes that
`waitForProcess` was through with when the message came.

**IntentMatch.** A call asks with a content, attachments and `ifsave` (`Questions`). It reads the cache,
which is keyed by the content alone, starts one matcher per registered intent, takes the results one at a
time, concludes (threshold, three best hints; `sort.Slice` is not stable, so ties fall either way) and
caches. `Score` is a table of content, attachments and intent, as `Matching` is given both; so a hit may
name an intent that other attachments earned, as in the code. Matchers come and go meanwhile.
`SaveIntentCache` is begin (the file is truncated) and end or failure; a crash loses everything but the
file. `CacheContentIntent` waits while the save holds the read lock.

**Storage.** A request is its goroutine and, if it loads, its `DialogData`. Lookup, load and insert
are three steps, since the read lock they take excludes nobody. An action that the `switch` does not know
still loads the entry (`Ignore`); a value that is saved may be null. Writing a file is begin (truncated) and
end or failure. `saved`, `last`, `loaders` and `outdated` are history variables that the properties use; no
guard reads them.

**DialogFile** extends `Expert` and leaves it as it is: `FileNext` is a step of the dispatcher `Beside`
the saver, a step of the saver, or `Restart`. The saver marshals `t.dialogs` under `dialogsMutex`, so no
entry is stored meanwhile, but it reads one field of an entry after the other while handlers change
them. Then the MD5 is compared, the file is emptied (`Truncate`) and filled (`WriteFile`); a failure is
possible at either. `Restart` drops what is in memory and loads what the file holds, which is the map, or
nothing when the file is missing or was cut off. What a restart keeps of the intent cache is any part of
it. `overlapped`, `lost` and `saved` are history variables.

**ChatLLM.** A turn is its goroutine and the `OpenaiChatLLM` it stores, if it stores one. The lookup, the
restoring or creation and the store (two steps, under `llmsMutex`) are as in `getLLMChatByID`; both
functions that store use the same two actions. `Chat` reads the slice of messages, writes it with the
question and the cut, makes two or three requests and appends the answer; `held` is the slice between
reading and writing, so that turns that talk side by side lose lines as in the code.
`ExpertChatSystemPrompt` and `callFuctionCall` say whether the chat has them: a restored chat has neither.
The saver picks any chat of the map when its MD5 changed. `said` and `kept` are history variables: all lines
said in a dialog but for those that a restart lost, and what `said` was when the messages in its file were
marshalled. An answer is a reply to the user, a demand or no JSON (`useless`): the last is a fault of the
model where the expert's prompt was sent, and may happen at any time where it was not.

**MCPClient.** The clients that `RunRoutine` creates are numbered, so that a call may still hold an old one.
`routine` is where `RunRoutine` is; `closing[by]` is where one of the two callers of `Close` is
(`RunRoutine` with its callback in `Init`, or the callback in `connectAndProcess`), in three steps:
`stopChan`, the HTTP client, the registered channels. `server` is the set of requests the server may still
answer, to which it may never answer, answer late or answer twice; `initialize` takes the last number
without counting, as in the code. A panic (a channel closed twice, a send into a closed one, a nil client)
is recorded in `panic`, after which nothing happens. `losses`, `doubled` and `early` are history that says
how often a client lost its stream or a post, whether the server answered one request twice, and whether a
call took a number before its client was initialised. `setup` is `NewSSEFuncCall` up to `UpdateTools`; calls
need its tools.

The Node.js processes, the language model, the tool server, the file system and the Go runtime (scheduler,
mutexes, maps) are not code of this repository: they are modelled from how the code uses them.

Definitions that begin with a comment `Mutant:` are wrong variants of the definition they precede, used
to make sure that each property can fail; no specification uses them.

## 3. Runs

| Run | Specification and bounds | Checks |
|---|---|---|
| `Expert_safety` | `Spec`; one dialog, two intents, three messages (1001 and 1002 of the client; 2001, 2002 and 2003 of programs; 1001 of the chat), history of two lines, dialog on disk or not | `TypeOK`, `MutualExclusion`, `ProgramExcludesChat`, `ChatSeesOwnTurn`, `TurnHandedOver`, `LoadedEntryStays`, `OnlyChatEndsChat`, `ImplementsRouting` |
| `Expert_live` | `FairSpec`; two messages, no 2003 and no demand of the chat | `EveryTurnHandedOver`, and no deadlock |
| `Expert_handback` | `FairSpec`; two messages, 2003 and demands | **violated:** `HandBackReassigned` |
| `Sessions_safety` | `Spec`; two dialogs, one program, two messages, one answer per process (garbled or 2002) | `TypeOK`, `NoTurnToTheGone`, `NoDeadEntry`, `ConnectionIsRead` |
| `Sessions_live` | `FairSpec`; one dialog, two messages, idle timer | `CloseIsFinal`, `HandlersReturn`, `DeadSessionLeaves` |
| `Sessions_one` | `Spec`; three turns, processes that answer 2002 | **violated:** `OneProcessPerDialog` |
| `IntentMatch` | `FairSpec`; two calls, four matchers (a tie at the top, one comes and goes), two contents, one of them with two sets of attachments that different matchers win, a threshold of 0 or 2, one crash | `TypeOK`, `WinnerIsBest`, `AnswersAreEarned`, `CallsReturn` |
| `Storage` | `FairSpec`; two dialogs, two requests (a query, a save or neither), one key, two values, one crash, failing writes | `TypeOK`, `AnswersWereSaved`, `SavesAreKept`, `Md5TellsFile`, `UnsavedIsPersisted` |
| `DialogFile` | `FairFileSpec`; one dialog on disk or not, two messages (1001; 2002; 1001 of the chat), one restart or failing write | `FileTypeOK`, `ExclusionSurvivesRestart`, `SavedDialogsSurvive`, `FileCatchesUp` |
| `ChatLLM` | `FairSpec`; one dialog, two turns, two lines kept, two faults | `TypeOK`, `ConversationInOrder`, `OnlyOldLinesGo`, `TurnsAnswered`, `FileCatchesUp` |
| `MCP_safety` | `Spec`; two calls with two numbers, two clients, two faults | `TypeOK`, `AnswersDoNotMix`, `NoDeadChannel`, `PanicsHaveCauses` |
| `MCP_live` | `FairSpec`; one call, three clients, two faults | `CallsReturn`, `Reconnects` |

*Why these bounds.* The dispatcher's races need two handlers on one dialog; a third lets something else
happen between the two (a turn between an assignment and a 2002, say). Dialogs share only the map and the
channels, whose races the first messages of one dialog already show. Two history lines with three messages
reach the cut of the history; a channel of one place makes senders wait. Two intents that tie give every
outcome of a match; contents with one winner, a tie, no winner, and one that equals another after formatting
are spread over the runs. In the session runs a message may become a session, so two or three messages are
two or three processes with their readers, waiters and handlers: a turn that finds the process of an earlier
one dead, and a late `CloseSession` against a new session, need two, the second process of
`OneProcessPerDialog` three; the theorems have no such bound. Four matchers are one more than the possible
intentions that are returned; a threshold of 0 is the edge at which the empty name can win. In `DialogFile`
one dialog shows everything, since the saver treats entries alike and a torn snapshot is one of a single
entry; one restart after a save, or one failure, is what its properties speak of. `ChatLLM` has two turns
because every race there is between two, a limit of two lines so that a question and its answer already
reach the cut and every line of a second turn cuts one, and two faults so that a failure may follow a
restart. In `MCP_safety` `FirstCallId` is 2 and `WrapId` 4 (3 and 10000 in the code), so that two calls and
an endpoint that comes again use a number twice; `Ids` also holds what `initGetCallableTools` may count
beyond the wrap. The faults are those of the network or the server, and the end of the context: two, so that
a stream may be opened again and the request for its tools, which takes a number, may fail, or a successor
fail too.

*Fairness.* `Expert`: `select` picks a ready channel at random and goroutines are scheduled, so `Run` and
each handler's steps are weakly fair; a Go mutex that is released again and again is handed to a waiter at
last (starvation mode), so taking one is strongly fair. Nobody is obliged to send a message.
`ProgramSessions`: the library's goroutines are weakly fair; nothing is assumed of the expert, the processes
or the timer, except that a process reads what is written to its socket. `IntentMatch`: goroutines are fair,
strongly where they wait for the lock that a save holds; a save returns with success or without. `Storage`:
the ticker ticks, and a file that is written again and again is written once; nothing is assumed of
requests. `DialogFile`: the ticker fires, the saver is scheduled and gets `dialogsMutex` in the end; nothing
is assumed of handlers. `ChatLLM`: handlers and the saver are scheduled; nothing is assumed of requests,
which the code gives no time limit, so `TurnsAnswered` allows a turn that waits for the model for ever.
`MCPClient`: goroutines are scheduled, posts and `Unsubscribe` return and timers run out; nothing is assumed
of the stream, the answers and the callers.

*Deadlock* is checked in `Expert_live`, where it says that handlers and senders do not wait for each other
for ever. It is left on in `IntentMatch`, `Storage` and `DialogFile`, but says nothing there: in every state
the ticker can take a step or, in `IntentMatch`, a matcher can come or go. It is off where the system may
rest (all messages, turns or calls of the bound are through), where a panic ends it (`MCP_*`, `ChatLLM`),
and in `Expert_safety` and `Expert_handback`, where handlers do wait for themselves: see below.

*What the violated runs show.* Each checks what a comment or document of the repository says:

1. `Expert_handback`: a turn that a program declines (2003) and a demand of the chat (1001) are never
   handed to another party. The handler takes the mutex it already holds (637 and 441, 666 and 441)
   and every later message of the dialog waits behind it. Hence `EveryTurnHandedOver` is checked for
   parties that send neither.
2. `Sessions_one`: of two overlapping `CloseSession` calls the second deletes the session created in
   between; its process keeps running beside the next one.

*What the exemptions stand for.* Some properties hold only up to something the code does not exclude, and
say so in their statement:

- Two first messages of a dialog create two `DialogInfo` objects (experts.go:429-438), two `DialogData`
  (storage.go:115-136) or two LLM chats (llm_manager.go:136-147), and one of them is dropped from the map.
  Hence the properties of `Expert` are stated per object, `SavesAreKept` for dialogs with a `Lone` first
  request, those of `ChatLLM` for dialogs in which no two turns `met`.
- The same race leaves a stale MD5 in the storage: r1 and r2 read the file, r1's object is stored, changed
  and written, then r2's is stored over it with the MD5 of the old file, and its next write may be skipped.
  `Md5TellsFile` allows it for such an object (`outdated`) and says that it takes overlapping first
  requests. It allows a torn file besides: after a write that fails halfway the code does not write again if
  the data returns to what it was at the last save.
- A turn may be written to a process that ends, or that is closed by another goroutine, before it reads it,
  and is then lost without a word. `NoTurnToTheGone` says how far this goes: never to a process that
  `waitForProcess` was through with when the turn came. In particular, a turn that comes later than that
  finds another process or is answered.
- A cache hit looks at the content only. `AnswersAreEarned` says that some call about that content earned
  what it returns, not that the attachments of the hit do, nor that the intent is still registered.
- A save that overlaps a handler may write a dialog that is in the chat and with a program (`overlapped`); a
  write of a dialog file that was cut off loses all dialogs, and a later save may be skipped because the MD5
  is that of the last complete one (`lost`).
- After a restart a chat has no expert prompt, and its turns may stay without any reply (`TurnsAnswered`).
  Once a request fails the question stays in the conversation and nobody is told.
- Numbers of calls wrap (9999 to 3), and a stream that is opened again may take one for the request for the
  tools besides (ssemcpclient.go:291). So `AnswersDoNotMix` allows a foreign answer once the calls of a
  client and its endpoints together are as many as there are numbers.
- `MCPClient` panics, in six places, and `PanicsHaveCauses` lists what each takes. `stopChan` is closed
  twice when a client that could not be initialised is closed by the callback and by `RunRoutine`.
  `sseClient` is nil in `NewSSEFuncCall` when the context ended before there was a client. `initChan` is
  closed twice when the server opens a stream again. The HTTP client is nil for a call that is overtaken by
  the replacement of its client, for a client that was given up while its endpoint was still asking, or
  after a stream was opened again. `ReconnectChan` is closed twice when two failures (of the stream or of
  posts) hit one client: two that the network makes, one and that of a call that was early (on a client that
  is not initialised yet), or those of two early calls. The channel of a call is closed twice, or sent into
  when it is closed, while the call is in progress: when its client is replaced after the answer came, when
  the server answers twice, or when two requests have the same number, because a call was early, a stream
  was opened again or the numbers are used up. A doubled answer is enough by itself, with no reconnection at
  all.
- The idle timer of a session closes it without the 2002 that program/Info.md:11 describes; the expert
  keeps the dialog assigned. No property depends on that message.

## 4. Proofs

Every invariant and every action property of the runs that pass, and the refinement of `DialogRouting`, is a
theorem for every value of the constants. What the models bound (messages, requests, calls, faults) is a
constant too, so the theorems hold for any bound. Each module proves that its inductive invariant (`IInv`,
`FileInv` in `DialogFile_proofs`, `PInv` together with `IInv` in `MCPClient_panics_proofs`) holds initially
and is kept by every step, one lemma for each part of it and one proof step for each action; the properties
follow from it. TLC, too, finds each inductive invariant to hold on the instances of the runs.

| Module | Theorems | Say of the specification |
|---|---|---|
| `Expert_proofs` | `Invariance`, `TypeCorrect` | `[]IInv`, `[]TypeOK` |
| | `Mutex` | `[]MutualExclusion` |
| | `ProgramOrChat` | `[]ProgramExcludesChat` |
| | `HandOver`, `ChatHearsOwnTurn` | `[](TurnHandedOver /\ ChatSeesOwnTurn)`, `[]ChatSeesOwnTurn` |
| | `LoadedKept`, `ChatKeepsUser` | the action properties `LoadedEntryStays`, `OnlyChatEndsChat` |
| | `Refinement` | `Expert!Spec` implements `DialogRouting!Spec` |
| `DialogFile_proofs` | `FileInvariance`, `FileTypeCorrect` | `[]FileInv`, `[]FileTypeOK` |
| | `ExclusionSurvives`, `SavedSurvive` | `[]ExclusionSurvivesRestart`, `[]SavedDialogsSurvive` |
| | `MutexOverRestarts` | `[]MutualExclusion`, here of `FileSpec` |
| `ProgramSessions_proofs` | `Invariance`, `TypeCorrectness` | `[]IInv`, `[]TypeOK` |
| | `TurnsSpareTheGone`, `ClosedForGood` | `[]NoTurnToTheGone`, `[]CloseIsFinal` |
| | `DeadEntriesLeave`, `ConnectionsAreRead` | `[]NoDeadEntry`, `[]ConnectionIsRead` |
| `IntentMatch_proofs` | `Invariance`, `TypeCorrectness` | `[]IInv`, `[]TypeOK` |
| | `BestIntentWins`, `CacheEarned` | `[]WinnerIsBest`, `[]AnswersAreEarned` |
| `Storage_proofs` | `Invariance`, `TypeCorrectness` | `[]IInv`, `[]TypeOK` |
| | `AnswersFromOwnDialog`, `SavesKept`, `Md5IsOfFile` | `[]AnswersWereSaved`, `[]SavesAreKept`, `[]Md5TellsFile` |
| `MCPClient_proofs` | `Invariance`, `TypeCorrectness` | `[]IInv`, `[]TypeOK` |
| | `NoDeadChannels`, `AnswersKeepApart` | `[]NoDeadChannel`, `[]AnswersDoNotMix` |
| `MCPClient_panics_proofs` | `PanicsExplained` | `[]PanicsHaveCauses` |
| `ChatLLM_proofs` | `Invariance`, `TypeCorrectness` | `[]IInv`, `[]TypeOK` |
| | `ConversationsKeepOrder`, `OnlyOldLinesAreLost` | `[]ConversationInOrder`, `[]OnlyOldLinesGo` |

*Assumptions.* Only the named ones of the modules, which TLC evaluates in every run. They are of four kinds:
names stand for different things (`Disjoint`, `PartyNames`, `NilAssumption`, every `NamesAssumption`);
tables are functions, and sets of events, programs and file contents what their names say
(`FormatAssumption`, `WinnersAssumption`, `QuestionAssumption`, `ScoreAssumption`, `FilesAssumption`,
`LoadedAssumption`, `ProgramsAssumption`, `EventsAssumption`, `ChangingAssumption`, `MinAssumption`); limits
of the code are positive (`LimitAssumption`, `CapAssumption`; `SetChatSaveHistoryLimit` raises smaller
values to 1) and numbers of calls begin above those of the setup (`IdAssumption`); and bounds are numbers
and finite (`BoundAssumption`, `CrashAssumption`, `FaultAssumption`, `CallsAssumption`).

### The arguments

**Expert.** `IInv` adds to `TypeOK`:

- `FrameInv`: what the place of a handler says of its variables, and `mapWriter` is the handler that
  is inserting;
- `QueueInv`: a message is in at most one place of the channels, and only while it is `queued`; without it
  `Run` might start a handler twice;
- `LockInv`: a mutex is held by exactly the handlers that believe they hold it, an outer handler
  included. This gives `MutualExclusion`, and lets every other part ignore the steps of other handlers on
  the same object (`OnlyOwnDialog`, `OtherTurns`);
- `TurnInv`: inside a turn no program is assigned before line 476, the history is not empty, is within the
  limit and ends with the line just said;
- `RouteInv`: `ProgramExcludesChat` but for the turn that is between lines 476 and 539;
- `OutInv`: nothing is handed over before the handler returns, which makes the hand-over unique;
- `LoadInv`: a handler that creates an entry found no loaded one;
- the two properties `TurnHandedOver` and `ChatSeesOwnTurn` themselves.

The lemmas `KeepLastFacts`, `AddLineFacts` and `AddUserLineFacts` say what the history operators
return for every limit. `ChatKeepsUser` and `Refinement` are step arguments under `IInv`: each
action maps to one step of `DialogRouting` or to a stutter, `MeansRouting` being the common part.

**DialogFile.** A step of the dispatcher keeps what `Expert_proofs` shows it to keep (`HandlersInv`, whose
lemmas are used again), so what is new are the saver's steps and `Restart`. A restart may lose what the
output and load histories are about, so these parts are not in `FileInv`. `MarshalInv` says that what the
saver has read of an entry is what the entry says, unless a handler worked meanwhile; with `RouteInv` it
makes the snapshot one in which no dialog is both with a program and in the chat (`ApartInv`). `KnownInv`
follows the dialogs of a complete file: they are in the map, then in the data on its way, then in the next
file.

**ProgramSessions.** `CallInv` is the core: it says what a `CloseSession` call has found and done, so that a
session whose close came as far as the deletion is dead, and one that a waiter closes has no process left.
`EntryInv` ties the map and the socket paths to sessions of that dialog, so that a call closes sessions of
its own dialog only; `ProcessInv` ties connections to processes and readers. `ConnectionIsRead` and
`CloseIsFinal` are then inductive relative to the rest; `WaiterInv` gives `NoDeadEntry`. For
`NoTurnToTheGone`, `HomeInv` says that the session which a process connected to, its own or a newer one, is
not in the map once the waiter of that process is through: whoever deleted the entry last deleted by dialog.
So a turn that comes later is given a session that this process does not serve (`GoneInv`), and `TurnInv`
gives the other half, that a handler returns with a turn written or answered.

**IntentMatch.** `CallInv` keeps for each call that `best` scores at least as much as every matcher that
answered, whatever the order, and that the hints are among the best three; `CacheInv` that some call that
matched earned each entry of cache and file (`EarnedBy`), and a hit what it returns. That call keeps what it
knows: no step takes a matcher's answer back.

**Storage.** `LoaderInv` and `RequestInv` say who loaded what; `LoneInv` says of a dialog with one loader
that its object is what was saved last; `Md5Inv` that an object whose file nobody else wrote since it was
read has the MD5 of that file, unless it is torn, and `OutdatedInv` that of any other object there is a
second loader; `SavedInv` that objects and files hold saved values of their own dialog. That a `Lone`
dialog's loader is the object in the map uses the theorems about the cardinality of finite sets.

**MCPClient.** Numbers are counted: a client has given out at most one for each call and one for each
endpoint it was sent (`CountInv`), hence while these are fewer than `WrapId` no number was given twice
(`IdInv`). `ServerInv`, `ChannelInv` and `CallInv` follow a number from the call over the server to the
channel, which gives `AnswersDoNotMix`. Trying to prove that property in an earlier form, which counted
calls only, showed it to be false with two faults: an endpoint that comes again asks for the tools again,
and when that request fails its number is taken all the same. The run `MCP_safety` has those two faults.

**Panics of the MCP client.** `PanicsHaveCauses` is about single steps, so each part of `PInv` says that
without the cause the step does not panic. `OrderInv`: while every client was initialised, each is closed
once, by `RunRoutine`, after it was initialised. `ClosedInv`: a nil HTTP client or a `Close` in progress
means that `stopChan` is closed. `LossInv`: a closed `ReconnectChan` has its loss. `EarlyInv` and
`FirstIdsInv`: `initializeEndpoint` takes the numbers 0 and 1 unless a call was early, so that its answers
are for no call. `AnswerInv`: as long as nothing went wrong with its client, the answer to a call is its
only one. A call on a client that replaces another may take number 0 before `initializeEndpoint` does, which
is what `early` records.

**ChatLLM.** `OwnInv` gives every chat one dialog: that of the turn that stored it, of the turns that talk
to it, and of the file it goes to. So a dialog is not touched by the turns of others. `AloneInv`: where no
two turns met, one turn is at work, and its chat, the chat in the map and the one being saved are the same;
a chat that is being loaded has none of these beside it. `TurnInv`: that turn has read the conversation as
it is, and the conversation ends with its question until it is answered. `OrderInv` is the property,
extended to what the saver holds. `PastInv` says that memory, file and saver hold `Cut` of `said`, of `kept`
and of what was said when the saver marshalled, and that the latter two begin `said`. `CutTwice` is why
cutting line by line comes to the newest lines of all: it makes no difference whether old lines were cut
before, for every limit. `SaidStep` says how `said` changes: by the lines of turns, or to what the file kept
when a chat is restored, which happens only where nobody saves that chat. `SayInOrder` says what one line
more and the cut do to the order.

### Only model-checked

- Liveness (`EveryTurnHandedOver`, `HandlersReturn`, `DeadSessionLeaves`, `CallsReturn` of both modules,
  `UnsavedIsPersisted`, `TurnsAnswered`, `Reconnects`, `FileCatchesUp` of both modules): it rests on
  fairness, that is on ENABLED, which the provers at hand do not treat.
- The absence of deadlock in `Expert_live`, for the same reason.
- The violated properties `HandBackReassigned` and `OneProcessPerDialog`: TLC shows the counterexamples.

## 5. Limits of the models

- `Expert` leaves out `saveDialogInfo` and its ticker, which are in `DialogFile`; its initial states are
  what a file can hold of a dialog at rest, with at most one line of history, which is the user's. Over
  restarts `DialogFile_proofs` carries the exclusion of handlers and of program and chat; `TurnHandedOver`,
  `ChatSeesOwnTurn` and the refinement are about a run of the process from such a state on.
- `DialogFile` reads a field at once: a string torn between its two words is not modelled, nor are custom
  save and load handlers and the end of the process by a map that is marshalled while it is replaced. Its
  run has the demand of the chat as the only event of the chat, and one of the program, which is what its
  state space allows.
- `ChatLLM`: an append and the cut after it are one step; the saver takes one chat after the other in any
  order; a request that is answered with no choice at all (openai.go:84) is not modelled; `Relpying` is
  never set and so is no state. A chat saves only if `SetDataFilePath` was called: `NewChat` leaves
  `DataPath` of the manager empty.
- `MCPClient`: the notification between the two requests of `initializeEndpoint` belongs to the first;
  the server answers nothing that it was not asked; numbers wrap early.
- The end of the process by a concurrent map access is explicit in `Expert`; in `IntentMatch` and
  `Storage` it is one of the crashes.
- `UpdateIntentMatcherFromRNNPath` is the `Register` and `UnRegister` calls it makes, not its panic
  without a manager.
- With a threshold of 0 a nameless winner may be cached; `WinnerIsBest` and `AnswersAreEarned` say when.
- The RNN inference, the message types, the example server and the layout of messages are not modelled.

## 6. Plan

Done, in this order: `Expert` with `DialogRouting`, its runs and proofs; `ProgramSessions`; `IntentMatch`;
`Storage`; `MCPClient`; `DialogFile`; `ChatLLM`; the proofs of the safety properties of these six.

To do, most important first:

1. `DialogRouting` over restarts: which of its promises `DialogFile` still implements, with a restart as a
   step of its own.
2. An abstract specification of what a program's storage and a tool call promise, as `DialogRouting` is one
   of the dispatcher, and the refinements proved from the invariants of section 4.
3. A composition of `Expert` and `ProgramSessions` over the two channels between them: does the dispatcher's
   idea of the assigned program agree with the sessions that run?
