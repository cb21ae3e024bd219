------------------------------ MODULE MCPClient ------------------------------
(***************************************************************************)
(* The MCP client of ssemcpclient/ssemcpclient.go.  Calls of tools are     *)
(* posted over HTTP and answered over a server-sent event stream; an       *)
(* answer finds its call by the number of the request.  RunRoutine         *)
(* replaces a client whose stream or calls fail by a new one and closes    *)
(* the old one, while calls hold either of them.  Closing a channel twice, *)
(* sending into a closed one or using a nil pointer panics and ends the    *)
(* process.                                                                *)
(*                                                                         *)
(* The clients that RunRoutine creates are numbered 1, 2, ...              *)
(***************************************************************************)
EXTENDS Integers, FiniteSets

CONSTANTS
    Calls,          \* calls of tools in one behaviour (bounds the behaviour)
    MaxClients,     \* clients that RunRoutine creates (bounds the behaviour)
    MaxFaults,      \* faults of the network and the server, and the end of ctx (bounds the behaviour)
    WrapId,         \* the number at which messageID starts over, 10000 in the code
    FirstCallId,    \* where it starts over, 3 in the code
    None

ASSUME BoundAssumption == MaxClients \in Nat \ {0} /\ MaxFaults \in Nat
ASSUME IdAssumption == FirstCallId \in Nat \ {0, 1} /\ WrapId \in Nat /\ FirstCallId < WrapId
ASSUME CallsAssumption == IsFiniteSet(Calls)
ASSUME NamesAssumption ==
    /\ Calls \cap {None, "initialize", "tools", "open", "failed", "timeout", "closed"} = {}
    /\ None \notin {"stopChan", "respChan", "ReconnectChan", "initChan", "client", "sseClient"}

Clients == 1..MaxClients
Closers == {"routine", "connect"}
\* initializeEndpoint counts without looking at WrapId, so that a number may pass it
Ids == 0..WrapId + MaxFaults + Cardinality(Calls)
Asked == Calls \cup {"initialize", "tools"}
\* What is closed twice, or sent into when it is closed, or nil
Panics == {"stopChan", "respChan", "ReconnectChan", "initChan", "client", "sseClient"}

\* MCPSSEClient, with its goroutines: a channel is TRUE when it is closed
MCPSSEClient ==
    [conn : {"none", "connecting", "up", "failed"},   \* connectAndProcess
     events : BOOLEAN,                       \* whether its loop takes events
     asking : Nat, listing : Nat,            \* initializeEndpoint, at its first and last request
     endpointURL : Nat, client : BOOLEAN,     \* how often set; whether not nil
     initChan : BOOLEAN, stopChan : BOOLEAN, ReconnectChan : BOOLEAN,
     messageID : Ids, tools : BOOLEAN,
     responseChannels : [Ids -> Calls \cup {None}],
     closing : [Closers -> {"no", "begin", "unsubscribe", "channels", "end"}],
     losses : Nat, doubled : BOOLEAN]    \* history: failures of its stream and its posts,
                                         \* and whether the server answered a request twice
NewSSEClient ==
    [conn |-> "none", events |-> FALSE, asking |-> 0, listing |-> 0,
     endpointURL |-> 0, client |-> TRUE,
     initChan |-> FALSE, stopChan |-> FALSE, ReconnectChan |-> FALSE,
     messageID |-> 0, tools |-> FALSE,
     responseChannels |-> [n \in Ids |-> None],
     closing |-> [by \in Closers |-> "no"], losses |-> 0, doubled |-> FALSE]

\* A call of CallFunction: the client that it loaded, its number, its channel, and as history
\* whether it took the number before the client was initialised
Call ==
    [pc : {"unused", "loaded", "registered", "posting", "waiting", "returned"},
     at : Clients \cup {None}, id : Ids, early : BOOLEAN,
     respChan : Asked \cup {"open", "closed"}, result : Asked \cup {None, "failed", "timeout", "closed"}]

VARIABLES
    mcp,         \* every client
    sseClient,   \* the client that calls load, 0 for nil
    routine,     \* where RunRoutine's goroutine is
    ctx,         \* whether its context is live
    setup,       \* where NewSSEFuncCall is
    call,        \* every call
    server,      \* requests that the server may answer
    initFailed,  \* history: a client was given up before it was initialised
    faults,
    panic        \* the panic that ended the process

vars == <<mcp, sseClient, routine, ctx, setup, call, server, initFailed, faults, panic>>

Init ==
    /\ mcp = [c \in Clients |-> NewSSEClient]
    /\ sseClient = 0
    /\ routine = "start"
    /\ ctx = TRUE
    /\ setup = [pc |-> "waits", at |-> None]
    /\ call = [k \in Calls |-> [pc |-> "unused", at |-> None, id |-> 0,
                                early |-> FALSE, respChan |-> "open", result |-> None]]
    /\ server = {}
    /\ initFailed = FALSE
    /\ faults = 0
    /\ panic = None

fatal == panic # None
Panic(happens, what) == panic' = IF happens THEN what ELSE None

\* Mutant: the numbers start over one too early
NextIdShort(n) == IF n + 1 = WrapId - 1 THEN FirstCallId ELSE n + 1

\* messageID++ of CallFunction
NextId(n) == IF n + 1 = WrapId THEN FirstCallId ELSE n + 1

Fault == faults < MaxFaults /\ faults' = faults + 1
Ask(c, n, what) == server' = server \cup {[to |-> c, id |-> n, what |-> what]}

-----------------------------------------------------------------------------
(* RunRoutine and Init *)

\* NewSSEClient and Swap; a former client is closed before Init connects the new one
Start ==
    /\ routine = "start"
    /\ sseClient < MaxClients
    /\ sseClient' = sseClient + 1
    /\ IF sseClient = 0
       THEN /\ routine' = "init"
            /\ mcp' = [mcp EXCEPT ![1].conn = "connecting"]
       ELSE /\ routine' = "closeOld"
            /\ mcp' = [mcp EXCEPT ![sseClient].closing["routine"] = "begin"]
    /\ UNCHANGED <<ctx, setup, call, server, initFailed, faults, panic>>

\* ... which it did
OldClosed ==
    /\ routine = "closeOld"
    /\ mcp[sseClient - 1].closing["routine"] = "end"
    /\ routine' = "init"
    /\ mcp' = [mcp EXCEPT ![sseClient].conn = "connecting"]
    /\ UNCHANGED <<sseClient, ctx, setup, call, server, initFailed, faults, panic>>

\* Init sees initChan closed; the first time, RunRoutine returns to its caller
Initialized ==
    /\ routine = "init"
    /\ mcp[sseClient].initChan
    /\ routine' = "wait"
    /\ setup' = IF setup.pc = "waits" THEN [setup EXCEPT !.pc = "returned"] ELSE setup
    /\ UNCHANGED <<mcp, sseClient, ctx, call, server, initFailed, faults, panic>>

\* Init gives up after 60 seconds: errorCallback closes the client
InitTimeout ==
    /\ routine = "init"
    /\ Fault
    /\ routine' = "giveUp"
    /\ initFailed' = TRUE
    /\ mcp' = [mcp EXCEPT ![sseClient].closing["routine"] = "begin"]
    /\ UNCHANGED <<sseClient, ctx, setup, call, server, panic>>

\* Mutant: RunRoutine waits for its context only
ReconnectNever ==
    /\ routine = "giveUp" /\ mcp[sseClient].closing["routine"] = "end"
    /\ routine' = "start"
    /\ UNCHANGED <<mcp, sseClient, ctx, setup, call, server, initFailed, faults, panic>>

\* Init failed, or ReconnectChan was closed; the loop starts over in five seconds
Reconnect ==
    /\ \/ routine = "giveUp" /\ mcp[sseClient].closing["routine"] = "end"
       \/ routine = "wait" /\ mcp[sseClient].ReconnectChan
    /\ routine' = "start"
    /\ UNCHANGED <<mcp, sseClient, ctx, setup, call, server, initFailed, faults, panic>>

\* The context ends; RunRoutine sees that in its two waits, and its deferred function
\* closes the current client
Cancel ==
    /\ ctx
    /\ Fault
    /\ ctx' = FALSE
    /\ UNCHANGED <<mcp, sseClient, routine, setup, call, server, initFailed, panic>>
Stop ==
    /\ ~ctx
    /\ routine \in {"wait", "start"} /\ sseClient > 0
    /\ routine' = "stopped"
    /\ mcp' = [mcp EXCEPT ![sseClient].closing["routine"] = "begin"]
    /\ UNCHANGED <<sseClient, ctx, setup, call, server, initFailed, faults, panic>>

-----------------------------------------------------------------------------
(* Close, as RunRoutine or connectAndProcess calls it *)

\* close(c.stopChan)
CloseStop(c, by) ==
    /\ mcp[c].closing[by] = "begin"
    /\ Panic(mcp[c].stopChan, "stopChan")
    /\ mcp' = [mcp EXCEPT ![c].closing[by] = "unsubscribe", ![c].stopChan = TRUE]
    /\ UNCHANGED <<sseClient, routine, ctx, setup, call, server, initFailed, faults>>

\* Unsubscribe returns; c.client = nil
CloseClient(c, by) ==
    /\ mcp[c].closing[by] = "unsubscribe"
    /\ mcp' = [mcp EXCEPT ![c].closing[by] = "channels", ![c].client = FALSE]
    /\ UNCHANGED <<sseClient, routine, ctx, setup, call, server, initFailed, faults, panic>>

\* Close and delete every registered channel, under c.mu
CloseChannels(c, by) ==
    LET waiting == {mcp[c].responseChannels[n] : n \in Ids} \ {None} IN
    /\ mcp[c].closing[by] = "channels"
    /\ Panic(\E k \in waiting : call[k].respChan # "open", "respChan")
    /\ call' = [k \in Calls |-> IF k \in waiting THEN [call[k] EXCEPT !.respChan = "closed"]
                                ELSE call[k]]
    /\ mcp' = [mcp EXCEPT ![c].closing[by] = "end",
                          ![c].responseChannels = [n \in Ids |-> None]]
    /\ UNCHANGED <<sseClient, routine, ctx, setup, server, initFailed, faults>>

Close(c, by) == CloseStop(c, by) \/ CloseClient(c, by) \/ CloseChannels(c, by)

-----------------------------------------------------------------------------
(* connectAndProcess and the events *)

\* SubscribeChan returns nil, and the goroutine that takes the events starts
Connect(c) ==
    /\ mcp[c].conn = "connecting"
    /\ mcp' = [mcp EXCEPT ![c].conn = "up", ![c].events = TRUE]
    /\ UNCHANGED <<sseClient, routine, ctx, setup, call, server, initFailed, faults, panic>>

\* SubscribeChan returns an error: errorCallback closes the client
ConnectFails(c) ==
    /\ mcp[c].conn = "connecting"
    /\ Fault
    /\ initFailed' = TRUE
    /\ mcp' = [mcp EXCEPT ![c].conn = "failed", ![c].closing["connect"] = "begin"]
    /\ UNCHANGED <<sseClient, routine, ctx, setup, call, server, panic>>

\* The stream broke: OnDisconnect closes ReconnectChan
Disconnect(c) ==
    /\ mcp[c].conn = "up"
    /\ Fault
    /\ Panic(mcp[c].ReconnectChan, "ReconnectChan")
    /\ mcp' = [mcp EXCEPT ![c].ReconnectChan = TRUE, ![c].losses = @ + 1]
    /\ UNCHANGED <<sseClient, routine, ctx, setup, call, server, initFailed>>

\* The select of the goroutine takes stopChan; what the server answers is heard no more
StopEvents(c) ==
    /\ mcp[c].events
    /\ mcp[c].stopChan
    /\ mcp' = [mcp EXCEPT ![c].events = FALSE]
    /\ server' = {r \in server : r.to # c}
    /\ UNCHANGED <<sseClient, routine, ctx, setup, call, initFailed, faults, panic>>

\* handleEndpointEvent; a server sends one when a stream opens, so another one means that
\* the stream was opened again behind the client's back
Endpoint(c) ==
    /\ mcp[c].events
    /\ IF mcp[c].endpointURL > 0 THEN Fault ELSE UNCHANGED faults
    /\ mcp' = [mcp EXCEPT ![c].endpointURL = @ + 1, ![c].asking = @ + 1]
    /\ UNCHANGED <<sseClient, routine, ctx, setup, call, server, initFailed, panic>>

\* handleMessageEvent, under c.mu: an answer is sent into the channel registered under its
\* number, which is then closed but stays registered.  The server may answer twice
HandleMessage(c) ==
    \E r \in {r \in server : r.to = c} :
        LET k == mcp[c].responseChannels[r.id] IN
        /\ mcp[c].events
        /\ \/ /\ server' = server \ {r}
              /\ UNCHANGED faults
              /\ mcp' = [mcp EXCEPT ![c].tools = @ \/ (r.id = 1 /\ r.what = "tools")]
           \/ /\ UNCHANGED server
              /\ Fault
              /\ mcp' = [mcp EXCEPT ![c].tools = @ \/ (r.id = 1 /\ r.what = "tools"),
                                    ![c].doubled = TRUE]
        /\ IF k = None THEN UNCHANGED <<call, panic>>
           ELSE /\ Panic(call[k].respChan # "open", "respChan")
                /\ call' = [call EXCEPT ![k].respChan = r.what]
        /\ UNCHANGED <<sseClient, routine, ctx, setup, initFailed>>

-----------------------------------------------------------------------------
(* initializeEndpoint; a failed post ends it, whether the server got the request or not *)

\* sendInitializationRequest, with the present number, and the notification after it
AskInitialize(c) ==
    /\ mcp[c].asking > 0
    /\ Panic(~mcp[c].client, "client")
    /\ Ask(c, mcp[c].messageID, "initialize")
    /\ \/ mcp' = [mcp EXCEPT ![c].asking = @ - 1, ![c].listing = @ + 1] /\ UNCHANGED faults
       \/ mcp' = [mcp EXCEPT ![c].asking = @ - 1] /\ Fault
    /\ UNCHANGED <<sseClient, routine, ctx, setup, call, initFailed>>

\* initGetCallableTools, with the next number, and close(c.initChan)
AskTools(c) ==
    LET n == mcp[c].messageID + 1 IN
    /\ mcp[c].listing > 0
    /\ Ask(c, n, "tools")
    /\ \/ /\ mcp' = [mcp EXCEPT ![c].listing = @ - 1, ![c].messageID = n, ![c].initChan = TRUE]
          /\ IF mcp[c].client THEN Panic(mcp[c].initChan, "initChan") ELSE Panic(TRUE, "client")
          /\ UNCHANGED faults
       \/ /\ mcp' = [mcp EXCEPT ![c].listing = @ - 1, ![c].messageID = n]
          /\ Panic(~mcp[c].client, "client")
          /\ Fault
    /\ UNCHANGED <<sseClient, routine, ctx, setup, call, initFailed>>

-----------------------------------------------------------------------------
(* NewSSEFuncCall *)

\* RunRoutine returns when its context ends, too
SetupCancelled ==
    /\ setup.pc = "waits"
    /\ ~ctx
    /\ setup' = [setup EXCEPT !.pc = "returned"]
    /\ UNCHANGED <<mcp, sseClient, routine, ctx, call, server, initFailed, faults, panic>>

\* UpdateTools loads the client, whose GetTools reads tools until they are there
UpdateTools ==
    /\ setup.pc = "returned"
    /\ Panic(sseClient = 0, "sseClient")
    /\ setup' = [pc |-> "polls", at |-> IF sseClient = 0 THEN None ELSE sseClient]
    /\ UNCHANGED <<mcp, sseClient, routine, ctx, call, server, initFailed, faults>>

\* ... or for 15 seconds
GotTools ==
    /\ setup.pc = "polls"
    /\ setup' = [setup EXCEPT !.pc = IF mcp[setup.at].tools THEN "ready" ELSE "none"]
    /\ UNCHANGED <<mcp, sseClient, routine, ctx, call, server, initFailed, faults, panic>>

-----------------------------------------------------------------------------
(* CallTool and CallFunction *)

Goes(k, c, place) == call[k].pc = place /\ call[k].at = c
Return(k, what) == call' = [call EXCEPT ![k].pc = "returned", ![k].result = what]

\* The deferred function deletes whatever is registered under the number
Unregister(k) ==
    mcp' = [mcp EXCEPT ![call[k].at].responseChannels[call[k].id] = None]

\* CallTool knows the tool and loads the client; without tools it returns at once
CallTool(k) ==
    /\ call[k].pc = "unused"
    /\ setup.pc = "ready"
    /\ call' = [call EXCEPT ![k].pc = "loaded", ![k].at = sseClient]
    /\ UNCHANGED <<mcp, sseClient, routine, ctx, setup, server, initFailed, faults, panic>>

\* CallFunction takes a number and registers its channel, under c.mu
CallFunction(k) ==
    LET c == call[k].at
        n == NextId(mcp[c].messageID) IN
    /\ call[k].pc = "loaded"
    /\ call' = [call EXCEPT ![k].pc = "registered", ![k].id = n,
                            ![k].early = ~mcp[c].initChan]
    /\ mcp' = [mcp EXCEPT ![c].messageID = n, ![c].responseChannels[n] = k]
    /\ UNCHANGED <<sseClient, routine, ctx, setup, server, initFailed, faults, panic>>

\* postJSON to the endpoint, with c.client
Post(k) ==
    LET c == call[k].at IN
    /\ call[k].pc = "registered"
    /\ mcp[c].endpointURL > 0
    /\ Panic(~mcp[c].client, "client")
    /\ call' = [call EXCEPT ![k].pc = "posting"]
    /\ Ask(c, call[k].id, k)
    /\ UNCHANGED <<mcp, sseClient, routine, ctx, setup, initFailed, faults>>

\* Without an endpoint nothing is sent; a request may also be lost, or its response
NotPosted(k) ==
    \/ call[k].pc = "registered" /\ mcp[call[k].at].endpointURL = 0 /\ UNCHANGED faults
    \/ call[k].pc = "posting" /\ Fault

\* ReconnectChan is closed and the call returns
PostFails(k) ==
    LET c == call[k].at
        lost == IF call[k].pc = "posting" THEN mcp[c].losses + 1 ELSE mcp[c].losses IN
    /\ NotPosted(k)
    /\ \/ /\ call[k].pc = "registered" /\ ~mcp[c].client
          /\ Panic(TRUE, "client") /\ UNCHANGED <<mcp, call>>
       \/ /\ call[k].pc = "posting" \/ mcp[c].client
          /\ mcp[c].ReconnectChan
          /\ mcp' = [mcp EXCEPT ![c].losses = lost]
          /\ Panic(TRUE, "ReconnectChan") /\ UNCHANGED call
       \/ /\ call[k].pc = "posting" \/ mcp[c].client
          /\ ~mcp[c].ReconnectChan
          /\ mcp' = [mcp EXCEPT ![c].ReconnectChan = TRUE, ![c].losses = lost,
                                ![c].responseChannels[call[k].id] = None]
          /\ Return(k, "failed")
          /\ UNCHANGED panic
    /\ UNCHANGED <<sseClient, routine, ctx, setup, server, initFailed>>

Posted(k) ==
    /\ call[k].pc = "posting"
    /\ call' = [call EXCEPT ![k].pc = "waiting"]
    /\ UNCHANGED <<mcp, sseClient, routine, ctx, setup, server, initFailed, faults, panic>>

\* Mutant: the select does not wait for the channel
AnswerAtOnce(k) ==
    /\ call[k].pc = "waiting"
    /\ Return(k, call[k].respChan)
    /\ Unregister(k)
    /\ UNCHANGED <<sseClient, routine, ctx, setup, server, initFailed, faults, panic>>

\* Mutant: the channel of a call stays registered when the call returns
AnswerStays(k) ==
    /\ call[k].pc = "waiting"
    /\ call[k].respChan # "open"
    /\ Return(k, call[k].respChan)
    /\ UNCHANGED <<mcp, sseClient, routine, ctx, setup, server, initFailed, faults, panic>>

\* The select takes what is in respChan, or that it was closed
Answer(k) ==
    /\ call[k].pc = "waiting"
    /\ call[k].respChan # "open"
    /\ Return(k, call[k].respChan)
    /\ Unregister(k)
    /\ UNCHANGED <<sseClient, routine, ctx, setup, server, initFailed, faults, panic>>

\* Mutant: 30 seconds count once the client was closed
TimeoutIfClosed(k) ==
    /\ call[k].pc = "waiting" /\ mcp[call[k].at].stopChan
    /\ Return(k, "timeout")
    /\ Unregister(k)
    /\ UNCHANGED <<sseClient, routine, ctx, setup, server, initFailed, faults, panic>>

\* ... or 30 seconds are over, whatever is in respChan by then
Timeout(k) ==
    /\ call[k].pc = "waiting"
    /\ Return(k, "timeout")
    /\ Unregister(k)
    /\ UNCHANGED <<sseClient, routine, ctx, setup, server, initFailed, faults, panic>>

-----------------------------------------------------------------------------
(* The whole *)

Routine == Start \/ OldClosed \/ Initialized \/ Reconnect \/ Stop
Setup == SetupCancelled \/ UpdateTools \/ GotTools
Client(c) ==
    \/ \E by \in Closers : Close(c, by)
    \/ StopEvents(c) \/ AskInitialize(c) \/ AskTools(c)
Network(c) == Connect(c) \/ ConnectFails(c) \/ Disconnect(c) \/ Endpoint(c) \/ HandleMessage(c)
Step(k) ==
    \/ CallFunction(k) \/ Post(k) \/ Posted(k) \/ PostFails(k) \/ Answer(k) \/ Timeout(k)

Next ==
    /\ ~fatal
    /\ \/ Routine \/ InitTimeout \/ Cancel \/ Setup
       \/ \E c \in Clients : Client(c) \/ Network(c)
       \/ \E k \in Calls : CallTool(k) \/ Step(k)

Spec == Init /\ [][Next]_vars

\* Goroutines are scheduled, posts and Unsubscribe return, and timers run out; nothing is
\* assumed of the stream, of the server's answers and of who calls
FairSpec ==
    /\ Spec
    /\ WF_vars(~fatal /\ Routine)
    /\ \A c \in Clients : WF_vars(~fatal /\ Client(c))
    /\ \A k \in Calls : WF_vars(~fatal /\ Step(k))
-----------------------------------------------------------------------------
(* Properties *)

\* Every variable holds a value of its kind: the state of MCPSSEClient, of RunRoutine and of
\* the calls
TypeOK ==
    /\ mcp \in [Clients -> MCPSSEClient]
    /\ sseClient \in 0..MaxClients
    /\ routine \in {"start", "closeOld", "init", "giveUp", "wait", "stopped"}
    /\ ctx \in BOOLEAN
    /\ setup \in [pc : {"waits", "returned", "polls", "ready", "none"}, at : Clients \cup {None}]
    /\ call \in [Calls -> Call]
    /\ server \subseteq [to : Clients, id : Ids, what : Asked]
    /\ initFailed \in BOOLEAN
    /\ faults \in 0..MaxFaults
    /\ panic \in Panics \cup {None}

\* The calls of a client, with a number for every stream that was opened, used the numbers up
NumbersUsed(c) ==
    Cardinality({j \in Calls : call[j].at = c /\ call[j].id > 0}) + mcp[c].endpointURL >= WrapId

\* However answers are late, doubled or reordered and clients replaced, a call returns the
\* answer to another call only once the numbers of its client are used up.  (It may return
\* the answer to an initialize request, which borrows the last number: line 264.)
AnswersDoNotMix ==
    \A k \in Calls : call[k].result \in Calls \ {k} => NumbersUsed(call[k].at)

\* A registered channel belongs to a call in progress on that very client, so nothing is
\* left behind by calls that returned, timed out or failed
Busy(k) == call[k].pc \notin {"unused", "returned"}
NoDeadChannel ==
    \A c \in Clients : \A n \in Ids :
        LET k == mcp[c].responseChannels[n] IN
        k # None => Busy(k) /\ call[k].at = c /\ call[k].id = n

\* The server opened the stream of a client again behind its back
Reopened(c) == mcp[c].endpointURL > 1
\* A call took a number of a client that is not initialised yet, as one that replaces another
Early(k, c) == call[k].early /\ call[k].at = c
\* A call is in progress on a client that is being closed, or was
Overtaken(k) == Busy(k) /\ mcp[call[k].at].stopChan

\* Each panic takes a cause of its own, and the code guards against everything else.
\* A client is closed twice (line 342) only if one could not be initialised, and sseClient
\* is nil (NewSSEFuncCall) only if the context ended before the first was.  initChan is
\* closed twice (259) only for a stream that was opened again.  http.Client is nil (328) for
\* a call in progress while its client is replaced, for a client that was given up while it
\* was still being initialised, or for a stream that was opened again.  ReconnectChan is
\* closed twice (117, 387) if the stream and the posts of one client failed twice, or once
\* with an early call, or if it had two early calls.  And the channel of a call is closed
\* twice (210, 211, 350) only while that call is in progress, if its client is replaced once
\* the answer came, if the server answers twice, or if two requests share its number:
\* because a call was early, the stream opened again or the numbers are used up
PanicsHaveCauses ==
    /\ panic = "stopChan" => initFailed
    /\ panic = "sseClient" => ~ctx
    /\ panic = "initChan" => \E c \in Clients : Reopened(c)
    /\ panic = "client" =>
          (\E k \in Calls : Overtaken(k)) \/ initFailed \/ (\E c \in Clients : Reopened(c))
    /\ panic = "ReconnectChan" =>
          \E c \in Clients :
             \/ mcp[c].losses > 1
             \/ \E k \in Calls : Early(k, c) /\ (\/ mcp[c].losses > 0
                                                  \/ \E j \in Calls \ {k} : Early(j, c))
    /\ panic = "respChan" =>
          \E k \in Calls : Busy(k) /\
             (\/ Overtaken(k)
              \/ mcp[call[k].at].doubled \/ Reopened(call[k].at) \/ NumbersUsed(call[k].at)
              \/ \E j \in Calls : Early(j, call[k].at))

\* Every call returns: with an answer, or because the post failed, the client was closed or
\* 30 seconds are over
CallsReturn == \A k \in Calls : Busy(k) ~> ~Busy(k) \/ fatal

\* A client whose stream or post failed is replaced, unless the context ends (line 442)
Reconnects ==
    \A c \in Clients \ {MaxClients} :
        routine = "wait" /\ sseClient = c /\ mcp[c].ReconnectChan
          ~> sseClient > c \/ ~ctx \/ fatal
=============================================================================
