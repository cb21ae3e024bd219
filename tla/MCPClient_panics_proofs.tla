----------------------- MODULE MCPClient_panics_proofs -----------------------
(***************************************************************************)
(* Why MCPClient panics: the invariant behind PanicsHaveCauses and its     *)
(* proof, on top of the invariant of MCPClient_proofs.                     *)
(***************************************************************************)
EXTENDS MCPClient_proofs

USE DEF fatal, Panic

-----------------------------------------------------------------------------
(* The inductive invariant *)

\* http.Client is nil, and a Close is past its first line, only when stopChan is closed
ClosedOK(c) ==
    /\ ~mcp[c].client => mcp[c].stopChan
    /\ \A by \in Closers :
          mcp[c].closing[by] \in {"unsubscribe", "channels", "end"} => mcp[c].stopChan
ClosedInv == \A c \in Clients : ClosedOK(c)

\* While every client was initialised, clients are replaced one after the other, each
\* closed once, by RunRoutine and only after it was initialised
OrderOK(c) ==
    /\ mcp[c].closing["connect"] = "no"
    /\ mcp[c].closing["routine"] \in {"no", "begin"} => ~mcp[c].stopChan
    /\ c > sseClient \/ (c = sseClient /\ routine # "stopped")
          => mcp[c].closing["routine"] = "no"
    /\ c < sseClient \/ (c = sseClient /\ routine \in {"wait", "start", "stopped"})
          => mcp[c].initChan
OrderInv == ~initFailed => routine # "giveUp" /\ \A c \in Clients : OrderOK(c)

\* A call that was not early found its client initialised, so that two numbers were gone
EarlyOK(k) ==
    /\ call[k].early => call[k].id > 0
    /\ call[k].id > 0 /\ ~call[k].early => mcp[call[k].at].initChan /\ call[k].id > 1
EarlyInv ==
    /\ \A k \in Calls : EarlyOK(k)
    /\ \A c \in Clients : mcp[c].initChan => mcp[c].messageID > 0

\* Who closed ReconnectChan is known
LossOK(c) ==
    mcp[c].ReconnectChan =>
        mcp[c].losses > 0 \/ \E k \in Calls : Early(k, c) /\ call[k].pc = "returned"
LossInv == \A c \in Clients : LossOK(c)

\* Nothing answers a call before it has a channel, and no request is there before its post
FreshInv ==
    /\ \A k \in Calls : call[k].pc \in {"unused", "loaded"} => call[k].respChan = "open"
    /\ \A r \in server :
          r.what \in Calls => call[r.what].pc \notin {"unused", "loaded", "registered"}

\* initializeEndpoint takes the first two numbers, if it runs once and no call comes first
Prompt(c) == mcp[c].endpointURL <= 1 /\ \A k \in Calls : ~Early(k, c)
FirstIdsInv == \A r \in server : r.what \notin Calls /\ Prompt(r.to) => r.id <= 1

\* As long as nothing went wrong with a client, the answer to a call was its only one
Clean(c) == ~mcp[c].stopChan /\ ~mcp[c].doubled /\ ~NumbersUsed(c) /\ Prompt(c)
AnswerOK(k) ==
    call[k].pc # "unused" /\ Clean(call[k].at) /\ call[k].respChan # "open" =>
        call[k].pc # "registered" /\ \A r \in server : r.what # k
AnswerInv == \A k \in Calls : AnswerOK(k)

PInv ==
    /\ ClosedInv /\ OrderInv /\ EarlyInv /\ LossInv /\ FreshInv /\ FirstIdsInv /\ AnswerInv
    /\ PanicsHaveCauses

-----------------------------------------------------------------------------
(* What the steps move *)

\* What PanicsHaveCauses looks at in a client, but for its endpoint and its numbers
Kept(c) ==
    /\ mcp'[c].closing = mcp[c].closing /\ mcp'[c].stopChan = mcp[c].stopChan
    /\ mcp'[c].client = mcp[c].client
    /\ mcp'[c].ReconnectChan = mcp[c].ReconnectChan /\ mcp'[c].losses = mcp[c].losses
    /\ mcp'[c].doubled = mcp[c].doubled

\* A step that moves one client keeps the others
LEMMA KeptElsewhere ==
    ASSUME NEW d \in Clients, \A e \in Clients \ {d} : mcp'[e] = mcp[e], Kept(d)
    PROVE  \A c \in Clients : Kept(c)
BY DEF Kept

\* Most steps keep all of that
Bystanders ==
    \/ OldClosed \/ Initialized \/ Reconnect \/ Cancel \/ Setup \/ UNCHANGED vars
    \/ Start /\ sseClient = 0
    \/ \E d \in Clients : \/ Connect(d) \/ Endpoint(d) \/ StopEvents(d)
                          \/ AskInitialize(d) \/ AskTools(d)
    \/ \E k \in Calls : \/ CallTool(k) \/ CallFunction(k) \/ Post(k) \/ Posted(k)
                        \/ Answer(k) \/ Timeout(k)

LEMMA BystandersKeep ==
    ASSUME TypeOK, CallInv, Bystanders
    PROVE  \A c \in Clients : Kept(c)
<1> USE FieldTypes
<1>1. CASE mcp' = mcp BY <1>1 DEF Kept
<1>2. CASE Initialized \/ Reconnect \/ Cancel \/ Setup \/ UNCHANGED vars
  BY <1>1, <1>2 DEF Initialized, Reconnect, Cancel, Setup, SetupCancelled, UpdateTools,
                    GotTools, vars
<1>3. CASE OldClosed \/ (Start /\ sseClient = 0)
  <2>1. PICK e : mcp' = [mcp EXCEPT ![e].conn = "connecting"] BY <1>3 DEF OldClosed, Start
  <2> QED BY <2>1 DEF Kept, MCPSSEClient
<1>4. ASSUME NEW d \in Clients, Connect(d) \/ Endpoint(d) \/ StopEvents(d)
      PROVE  \A c \in Clients : Kept(c)
  <2>1. mcp[d] \in MCPSSEClient OBVIOUS
  <2>2. \A e \in Clients \ {d} : mcp'[e] = mcp[e]
    BY <1>4 DEF Connect, Endpoint, StopEvents
  <2>3. CASE Connect(d) BY <2>1, <2>2, <2>3, KeptElsewhere DEF Connect, Kept, MCPSSEClient
  <2>4. CASE Endpoint(d) BY <2>1, <2>2, <2>4, KeptElsewhere DEF Endpoint, Kept, MCPSSEClient
  <2>5. CASE StopEvents(d)
    BY <2>1, <2>2, <2>5, KeptElsewhere DEF StopEvents, Kept, MCPSSEClient
  <2> QED BY <1>4, <2>3, <2>4, <2>5
<1>5. ASSUME NEW d \in Clients, AskInitialize(d) PROVE \A c \in Clients : Kept(c)
  <2>1. \/ mcp' = [mcp EXCEPT ![d].asking = @ - 1, ![d].listing = @ + 1]
        \/ mcp' = [mcp EXCEPT ![d].asking = @ - 1]
    BY <1>5 DEF AskInitialize
  <2>2. mcp[d] \in MCPSSEClient OBVIOUS
  <2> QED BY SMTT(30), <2>1, <2>2, KeptElsewhere DEF Kept, MCPSSEClient
<1>6. ASSUME NEW d \in Clients, AskTools(d) PROVE \A c \in Clients : Kept(c)
  <2>1. PICK n :
          \/ mcp' = [mcp EXCEPT ![d].listing = @ - 1, ![d].messageID = n, ![d].initChan = TRUE]
          \/ mcp' = [mcp EXCEPT ![d].listing = @ - 1, ![d].messageID = n]
    BY <1>6 DEF AskTools
  <2>2. mcp[d] \in MCPSSEClient OBVIOUS
  <2> QED BY SMTT(30), <2>1, <2>2, KeptElsewhere DEF Kept, MCPSSEClient
<1>7. ASSUME NEW k \in Calls, CallTool(k) \/ Post(k) \/ Posted(k)
      PROVE  \A c \in Clients : Kept(c)
  BY <1>1, <1>7 DEF CallTool, Post, Posted
<1>8. ASSUME NEW k \in Calls, CallFunction(k) \/ Answer(k) \/ Timeout(k)
      PROVE  \A c \in Clients : Kept(c)
  <2> DEFINE d == call[k].at
  <2>1. d \in Clients BY <1>8 DEF CallFunction, Answer, Timeout, CallInv, CallOK
  <2>2. PICK n, i :
          \/ mcp' = [mcp EXCEPT ![d].messageID = n, ![d].responseChannels[n] = i]
          \/ mcp' = [mcp EXCEPT ![d].responseChannels[n] = i]
    BY ZenonT(60), <1>8 DEF CallFunction, Answer, Timeout, Unregister
  <2> HIDE DEF d
  <2>3. mcp[d] \in MCPSSEClient BY <2>1
  <2>4. \A e \in Clients \ {d} : mcp'[e] = mcp[e] BY <2>2
  <2>5. Kept(d) BY <2>1, <2>2, <2>3 DEF Kept, MCPSSEClient
  <2> QED BY <2>1, <2>4, <2>5, KeptElsewhere
<1> QED BY <1>2, <1>3, <1>4, <1>5, <1>6, <1>7, <1>8 DEF Bystanders

\* The steps that begin a Close, and where
Begins(c, by) ==
    \/ by = "routine" /\ c = sseClient /\ (Start \/ InitTimeout \/ Stop)
    \/ by = "connect" /\ ConnectFails(c)

LEMMA BeginsMoves ==
    ASSUME TypeOK, NEW c \in Clients, NEW by \in Closers, Begins(c, by)
    PROVE  /\ \A d \in Clients \ {c} : mcp'[d] = mcp[d]
           /\ mcp'[c].closing = [mcp[c].closing EXCEPT ![by] = "begin"]
           /\ mcp'[c].stopChan = mcp[c].stopChan /\ mcp'[c].client = mcp[c].client
           /\ mcp'[c].ReconnectChan = mcp[c].ReconnectChan /\ mcp'[c].losses = mcp[c].losses
           /\ mcp'[c].doubled = mcp[c].doubled /\ mcp'[c].initChan = mcp[c].initChan
<1> USE FieldTypes
<1>1. mcp[c] \in MCPSSEClient OBVIOUS
<1>2. CASE by = "routine" /\ c = sseClient /\ (Start \/ InitTimeout \/ Stop)
  <2>1. mcp' = [mcp EXCEPT ![c].closing[by] = "begin"] BY <1>2 DEF Start, InitTimeout, Stop, Clients
  <2> QED BY <1>1, <2>1 DEF MCPSSEClient
<1>3. CASE by = "connect" /\ ConnectFails(c)
  <2>1. mcp' = [mcp EXCEPT ![c].conn = "failed", ![c].closing[by] = "begin"]
    BY <1>3 DEF ConnectFails
  <2> QED BY <1>1, <2>1 DEF MCPSSEClient
<1> QED BY <1>2, <1>3 DEF Begins

\* Every step is one of those, one of Close, a loss or a message
LEMMA Kinds ==
    ASSUME TypeOK, SetupInv, [Next]_vars
    PROVE  \/ Bystanders
           \/ \E c \in Clients, by \in Closers : Begins(c, by)
           \/ \E c \in Clients, by \in Closers : Close(c, by)
           \/ \E c \in Clients : Disconnect(c) \/ HandleMessage(c)
           \/ \E k \in Calls : PostFails(k)
<1>1. sseClient \in 0..MaxClients /\ "routine" \in Closers /\ "connect" \in Closers
  BY DEF TypeOK, Closers
<1>2. InitTimeout => sseClient # 0 BY DEF InitTimeout, SetupInv
<1>3. CASE Start \/ InitTimeout \/ Stop
  <2>1. CASE sseClient # 0
    <3>1. sseClient \in Clients BY <1>1, <2>1, BoundAssumption DEF Clients
    <3> QED BY <1>1, <1>3, <2>1, <3>1 DEF Begins
  <2>2. CASE sseClient = 0
    BY <1>2, <1>3, <2>2 DEF Bystanders, Stop
  <2> QED BY <2>1, <2>2
<1>4. CASE UNCHANGED vars BY <1>4 DEF Bystanders
<1>5. ASSUME NEW c \in Clients, ConnectFails(c) PROVE Begins(c, "connect")
  BY <1>5 DEF Begins
<1> QED BY <1>1, <1>3, <1>4, <1>5 DEF Next, Routine, Client, Network, Step, Bystanders

\* Close moves one client, and its reconnecting not at all
LEMMA CloseMoves ==
    ASSUME TypeOK, NEW c \in Clients, NEW by \in Closers, Close(c, by)
    PROVE  /\ \A d \in Clients \ {c} : mcp'[d] = mcp[d]
           /\ mcp'[c].ReconnectChan = mcp[c].ReconnectChan /\ mcp'[c].losses = mcp[c].losses
           /\ mcp'[c].doubled = mcp[c].doubled /\ mcp'[c].initChan = mcp[c].initChan
           /\ \/ /\ CloseStop(c, by) /\ mcp[c].closing[by] = "begin"
                 /\ mcp'[c].closing = [mcp[c].closing EXCEPT ![by] = "unsubscribe"]
                 /\ mcp'[c].stopChan /\ mcp'[c].client = mcp[c].client
              \/ /\ CloseClient(c, by) /\ mcp[c].closing[by] = "unsubscribe"
                 /\ mcp'[c].closing = [mcp[c].closing EXCEPT ![by] = "channels"]
                 /\ mcp'[c].stopChan = mcp[c].stopChan
              \/ /\ CloseChannels(c, by) /\ mcp[c].closing[by] = "channels"
                 /\ mcp'[c].closing = [mcp[c].closing EXCEPT ![by] = "end"]
                 /\ mcp'[c].stopChan = mcp[c].stopChan /\ mcp'[c].client = mcp[c].client
<1> USE FieldTypes
<1>1. mcp[c] \in MCPSSEClient OBVIOUS
<1>2. CASE CloseStop(c, by) BY <1>1, <1>2 DEF CloseStop, MCPSSEClient
<1>3. CASE CloseClient(c, by) BY <1>1, <1>3 DEF CloseClient, MCPSSEClient
<1>4. CASE CloseChannels(c, by) BY <1>1, <1>4 DEF CloseChannels, MCPSSEClient
<1> QED BY <1>2, <1>3, <1>4 DEF Close

\* A stream or a post that fails moves one client, and only its reconnecting
LEMMA DisconnectMoves ==
    ASSUME TypeOK, NEW c \in Clients, Disconnect(c)
    PROVE  /\ \A d \in Clients \ {c} : mcp'[d] = mcp[d]
           /\ mcp'[c].ReconnectChan /\ mcp'[c].losses = mcp[c].losses + 1
           /\ mcp[c].losses \in Nat /\ mcp'[c].initChan = mcp[c].initChan
           /\ mcp'[c].closing = mcp[c].closing /\ mcp'[c].stopChan = mcp[c].stopChan
           /\ mcp'[c].client = mcp[c].client /\ mcp'[c].doubled = mcp[c].doubled
           /\ call' = call
BY FieldTypes DEF Disconnect, MCPSSEClient

\* What PostFails does to its client and to its call
LEMMA PostFailsMoves ==
    ASSUME TypeOK, CallInv, NEW k \in Calls, PostFails(k), NEW c, c = call[k].at
    PROVE  /\ c \in Clients /\ \A d \in Clients \ {c} : mcp'[d] = mcp[d]
           /\ mcp[c].losses \in Nat
           /\ \/ call[k].pc = "posting" /\ mcp'[c].losses \in {mcp[c].losses, mcp[c].losses + 1}
              \/ /\ call[k].pc = "registered" /\ mcp[c].endpointURL = 0
                 /\ mcp'[c].losses = mcp[c].losses
           /\ \/ /\ call[k].pc = "registered" /\ ~mcp[c].client /\ panic' = "client"
                 /\ mcp' = mcp /\ call' = call
              \/ /\ mcp[c].ReconnectChan /\ mcp'[c].ReconnectChan = mcp[c].ReconnectChan
                 /\ panic' = "ReconnectChan" /\ call' = call
                 /\ call[k].pc = "posting" => mcp'[c].losses = mcp[c].losses + 1
              \/ /\ panic' = panic
                 /\ call' = [call EXCEPT ![k].pc = "returned", ![k].result = "failed"]
                 /\ call[k].pc = "posting" => mcp'[c].losses = mcp[c].losses + 1
<1> USE FieldTypes
<1>1. c \in Clients BY DEF PostFails, NotPosted, CallInv, CallOK
<1>2. mcp[c] \in MCPSSEClient /\ mcp[c].losses \in Nat BY <1>1 DEF MCPSSEClient
<1> DEFINE x == IF call[k].pc = "posting" THEN mcp[c].losses + 1 ELSE mcp[c].losses
<1>3. \/ call[k].pc = "posting"
      \/ call[k].pc = "registered" /\ mcp[c].endpointURL = 0
  BY DEF PostFails, NotPosted
<1>4. \/ /\ call[k].pc = "registered" /\ ~mcp[c].client
         /\ panic' = "client" /\ mcp' = mcp /\ call' = call
      \/ /\ mcp[c].ReconnectChan
         /\ mcp' = [mcp EXCEPT ![c].losses = x] /\ panic' = "ReconnectChan" /\ call' = call
      \/ /\ mcp' = [mcp EXCEPT ![c].ReconnectChan = TRUE, ![c].losses = x,
                              ![c].responseChannels[call[k].id] = None]
         /\ call' = [call EXCEPT ![k].pc = "returned", ![k].result = "failed"]
         /\ panic' = panic
  <2>1. \/ UNCHANGED <<mcp, call>> /\ Panic(TRUE, "client")
           /\ call[k].pc = "registered" /\ ~mcp[c].client
        \/ /\ mcp[c].ReconnectChan
           /\ mcp' = [mcp EXCEPT ![c].losses = x] /\ call' = call
           /\ Panic(TRUE, "ReconnectChan")
        \/ /\ mcp' = [mcp EXCEPT ![c].ReconnectChan = TRUE, ![c].losses = x,
                                ![c].responseChannels[call[k].id] = None]
           /\ Return(k, "failed") /\ panic' = panic
    BY DEF PostFails
  <2> HIDE DEF x
  <2> QED BY <2>1 DEF Return
<1>5. /\ x \in {mcp[c].losses, mcp[c].losses + 1}
      /\ call[k].pc = "posting" => x = mcp[c].losses + 1
      /\ call[k].pc = "registered" => x = mcp[c].losses
  OBVIOUS
<1> HIDE DEF x
<1>6. CASE /\ call[k].pc = "registered" /\ ~mcp[c].client
           /\ panic' = "client" /\ mcp' = mcp /\ call' = call
  BY <1>1, <1>2, <1>3, <1>6
<1>7. CASE /\ mcp[c].ReconnectChan
           /\ mcp' = [mcp EXCEPT ![c].losses = x] /\ panic' = "ReconnectChan" /\ call' = call
  <2>1. mcp'[c].losses = x /\ mcp'[c].ReconnectChan = mcp[c].ReconnectChan
    BY <1>1, <1>2, <1>7 DEF MCPSSEClient
  <2> QED BY <1>1, <1>2, <1>3, <1>5, <1>7, <2>1
<1>8. CASE /\ mcp' = [mcp EXCEPT ![c].ReconnectChan = TRUE, ![c].losses = x,
                              ![c].responseChannels[call[k].id] = None]
           /\ call' = [call EXCEPT ![k].pc = "returned", ![k].result = "failed"]
           /\ panic' = panic
  <2>1. mcp'[c].losses = x BY <1>1, <1>2, <1>8 DEF MCPSSEClient
  <2> QED BY <1>1, <1>2, <1>3, <1>5, <1>8, <2>1
<1> QED BY <1>4, <1>6, <1>7, <1>8

-----------------------------------------------------------------------------
(* Closing *)

\* Every step keeps the order of Close
LEMMA ClosedStep ==
    ASSUME TypeOK, CallInv, SetupInv, ClosedInv, [Next]_vars
    PROVE  ClosedInv'
<1> USE FieldTypes
<1> SUFFICES ASSUME NEW c \in Clients PROVE ClosedOK(c)' BY DEF ClosedInv
<1>0. ClosedOK(c) /\ mcp[c] \in MCPSSEClient BY DEF ClosedInv
<1>1. ASSUME mcp'[c].closing = mcp[c].closing, mcp'[c].stopChan = mcp[c].stopChan,
             mcp'[c].client = mcp[c].client
      PROVE  ClosedOK(c)'
  BY <1>0, <1>1 DEF ClosedOK
<1>2. CASE Bystanders BY <1>1, <1>2, BystandersKeep DEF Kept
<1>3. ASSUME NEW d \in Clients, NEW by \in Closers, Begins(d, by) PROVE ClosedOK(c)'
  <2>1. CASE c # d BY <1>1, <1>3, <2>1, BeginsMoves
  <2>2. CASE c = d
    <3>1. /\ mcp'[c].closing = [mcp[c].closing EXCEPT ![by] = "begin"]
          /\ mcp'[c].stopChan = mcp[c].stopChan /\ mcp'[c].client = mcp[c].client
      BY <1>3, <2>2, BeginsMoves
    <3> QED BY <1>0, <3>1 DEF ClosedOK, MCPSSEClient
  <2> QED BY <2>1, <2>2
<1>4. ASSUME NEW d \in Clients, NEW by \in Closers, Close(d, by) PROVE ClosedOK(c)'
  <2>1. CASE c # d
    <3>1. mcp'[c] = mcp[c] BY ZenonT(60), <1>4, <2>1, CloseMoves
    <3> QED BY <1>1, <3>1
  <2>2. CASE c = d
    <3>1. \/ mcp'[c].stopChan
          \/ /\ mcp[c].closing[by] \in {"unsubscribe", "channels"}
             /\ mcp'[c].stopChan = mcp[c].stopChan
      BY <1>4, <2>2, CloseMoves
    <3>2. mcp'[c].stopChan BY <1>0, <3>1 DEF ClosedOK
    <3> QED BY <3>2 DEF ClosedOK
  <2> QED BY <2>1, <2>2
<1>5. ASSUME NEW d \in Clients, Disconnect(d) PROVE ClosedOK(c)'
  <2>1. CASE c # d BY <1>1, <1>5, <2>1, DisconnectMoves
  <2>2. CASE c = d BY <1>1, <1>5, <2>2, DisconnectMoves
  <2> QED BY <2>1, <2>2
<1>6. ASSUME NEW d \in Clients, HandleMessage(d) PROVE ClosedOK(c)'
  <2>1. CASE c # d BY <1>1, <1>6, <2>1, Handles
  <2>2. CASE c = d BY <1>1, <1>6, <2>2, Handles DEF Rest
  <2> QED BY <2>1, <2>2
<1>7. ASSUME NEW k \in Calls, PostFails(k) PROVE ClosedOK(c)'
  <2>1. CASE c # call[k].at
    <3>1. mcp'[c] = mcp[c]
      <4>1. \A d \in Clients \ {call[k].at} : mcp'[d] = mcp[d] BY <1>7, Ends
      <4> QED BY <2>1, <4>1
    <3> QED BY <1>1, <3>1
  <2>2. CASE c = call[k].at BY <1>1, <1>7, <2>2, Ends DEF Rest
  <2> QED BY <2>1, <2>2
<1> QED BY <1>2, <1>3, <1>4, <1>5, <1>6, <1>7, Kinds

-----------------------------------------------------------------------------
(* The order of replacement *)

\* That a client could not be initialised is not forgotten
LEMMA FailedStays ==
    ASSUME TypeOK, [Next]_vars, initFailed
    PROVE  initFailed'
<1>1. initFailed' = initFailed \/ initFailed' = TRUE
  BY DEF Next, Routine, Start, OldClosed, Initialized, InitTimeout, Reconnect,
         Cancel, Stop, Setup, SetupCancelled, UpdateTools, GotTools, Client, Network, Close,
         CloseStop, CloseClient, CloseChannels, Connect, ConnectFails, Disconnect, StopEvents,
         Endpoint, HandleMessage, AskInitialize, AskTools, CallTool, Step, CallFunction, Post,
         Posted, PostFails, Answer, Timeout, vars
<1> QED BY <1>1

\* Clients are replaced in turn, each closed once
LEMMA OrderStep ==
    ASSUME TypeOK, CallInv, SetupInv, OrderInv, [Next]_vars
    PROVE  OrderInv'
<1> USE FieldTypes
<1> SUFFICES ASSUME ~initFailed', ~initFailed
             PROVE  routine' # "giveUp" /\ \A c \in Clients : OrderOK(c)'
  BY FailedStays DEF OrderInv
<1>0. routine # "giveUp" /\ \A c \in Clients : OrderOK(c) /\ mcp[c] \in MCPSSEClient
  BY DEF OrderInv
<1>1. \A c \in Clients : mcp[c].initChan => mcp'[c].initChan BY FlagMoves
<1>2. ASSUME NEW c \in Clients, mcp'[c].closing = mcp[c].closing,
             mcp'[c].stopChan = mcp[c].stopChan, sseClient' = sseClient, routine' = routine
      PROVE  OrderOK(c)'
  BY <1>0, <1>1, <1>2 DEF OrderOK
<1>3. CASE Start /\ sseClient = 0
  <2>1. sseClient' = 1 /\ routine' = "init" BY <1>3 DEF Start
  <2>2. \A c \in Clients : Kept(c) BY <1>3, BystandersKeep DEF Bystanders
  <2>3. \A c \in Clients : c \in Int /\ c > sseClient /\ ~(c < 1) BY <1>3 DEF Clients
  <2> QED BY <1>0, <2>1, <2>2, <2>3 DEF Kept, OrderOK
<1>4. CASE Start /\ sseClient # 0
  <2>1. /\ routine = "start" /\ sseClient' = sseClient + 1 /\ routine' = "closeOld"
        /\ sseClient \in Clients
    BY <1>4, BoundAssumption DEF Start, Clients, TypeOK
  <2>2. Begins(sseClient, "routine") /\ "routine" \in Closers BY <1>4 DEF Begins, Closers
  <2>3. ASSUME NEW c \in Clients PROVE OrderOK(c)'
    <3>1. c \in Int BY DEF Clients
    <3>2. CASE c = sseClient
      <4>1. /\ mcp'[c].closing = [mcp[c].closing EXCEPT !["routine"] = "begin"]
            /\ mcp'[c].stopChan = mcp[c].stopChan
        BY <2>1, <2>2, <3>2, BeginsMoves
      <4>2. /\ mcp'[c].closing["routine"] = "begin"
            /\ mcp'[c].closing["connect"] = mcp[c].closing["connect"]
        BY <1>0, <4>1 DEF MCPSSEClient, Closers
      <4>3. /\ mcp[c].closing["connect"] = "no" /\ ~mcp[c].stopChan /\ mcp[c].initChan
        BY <1>0, <2>1, <3>2 DEF OrderOK
      <4> QED BY <1>1, <2>1, <3>1, <3>2, <4>1, <4>2, <4>3 DEF OrderOK
    <3>3. CASE c # sseClient
      <4>1. mcp'[c] = mcp[c] BY <2>1, <2>2, <3>3, BeginsMoves
      <4>2. sseClient \in Int BY DEF TypeOK
      <4>3. c < sseClient + 1 => c < sseClient BY <3>1, <3>3, <4>2
      <4> QED BY <1>0, <2>1, <3>1, <3>3, <4>1, <4>3 DEF OrderOK
    <3> QED BY <3>2, <3>3
  <2> QED BY <2>1, <2>3
<1>5. CASE OldClosed \/ Initialized \/ Reconnect
  <2>1. \A c \in Clients : Kept(c) BY <1>5, BystandersKeep DEF Bystanders
  <2>2. /\ sseClient' = sseClient /\ routine' \in {"init", "wait", "start"}
        /\ routine # "stopped"
        /\ routine' = "init" \/ mcp[sseClient].initChan \/ routine = "wait"
    BY <1>0, <1>5 DEF OldClosed, Initialized, Reconnect
  <2>3. routine' # "init" => \A c \in Clients : c = sseClient => mcp[c].initChan
    BY <1>0, <2>2 DEF OrderOK
  <2>4. ASSUME NEW c \in Clients PROVE OrderOK(c)'
    BY <1>0, <1>1, <2>1, <2>2, <2>3 DEF Kept, OrderOK
  <2> QED BY <2>2, <2>4
<1>6. CASE InitTimeout \/ \E c \in Clients : ConnectFails(c)
  BY <1>6 DEF InitTimeout, ConnectFails
<1>7. CASE Stop
  <2>1. /\ routine \in {"wait", "start"} /\ sseClient' = sseClient /\ routine' = "stopped"
        /\ sseClient \in Clients
    BY <1>7, BoundAssumption DEF Stop, Clients, TypeOK
  <2>2. Begins(sseClient, "routine") /\ "routine" \in Closers BY <1>7 DEF Begins, Closers
  <2>3. ASSUME NEW c \in Clients PROVE OrderOK(c)'
    <3>1. c \in Int BY DEF Clients
    <3>2. CASE c = sseClient
      <4>1. /\ mcp'[c].closing = [mcp[c].closing EXCEPT !["routine"] = "begin"]
            /\ mcp'[c].stopChan = mcp[c].stopChan
        BY <2>1, <2>2, <3>2, BeginsMoves
      <4>2. /\ mcp'[c].closing["routine"] = "begin"
            /\ mcp'[c].closing["connect"] = mcp[c].closing["connect"]
        BY <1>0, <4>1 DEF MCPSSEClient, Closers
      <4>3. /\ mcp[c].closing["connect"] = "no" /\ ~mcp[c].stopChan /\ mcp[c].initChan
        BY <1>0, <2>1, <3>2 DEF OrderOK
      <4> QED BY <1>1, <2>1, <3>1, <3>2, <4>1, <4>2, <4>3 DEF OrderOK
    <3>3. CASE c # sseClient
      <4>1. mcp'[c] = mcp[c] BY <2>1, <2>2, <3>3, BeginsMoves
      <4> QED BY <1>0, <2>1, <3>1, <3>3, <4>1 DEF OrderOK
    <3> QED BY <3>2, <3>3
  <2> QED BY <2>1, <2>3
<1>8. ASSUME NEW d \in Clients, NEW by \in Closers, Close(d, by)
      PROVE  routine' # "giveUp" /\ \A c \in Clients : OrderOK(c)'
  <2>1. sseClient' = sseClient /\ routine' = routine
    BY <1>8 DEF Close, CloseStop, CloseClient, CloseChannels
  <2>2. ASSUME NEW c \in Clients \ {d} PROVE OrderOK(c)'
    <3>1. mcp'[c] = mcp[c] BY <1>8, CloseMoves
    <3> QED BY <1>2, <2>1, <3>1
  <2>3. PICK x \in {"unsubscribe", "channels", "end"} :
          mcp'[d].closing = [mcp[d].closing EXCEPT ![by] = x]
    BY <1>8, CloseMoves
  <2>4. mcp[d].closing[by] # "no" BY <1>8, CloseMoves
  <2>5. OrderOK(d) /\ mcp[d] \in MCPSSEClient BY <1>0
  <2>6. by = "routine" BY <2>4, <2>5 DEF OrderOK, Closers
  <2>7. mcp'[d].closing["routine"] = x /\ mcp'[d].closing["connect"] = mcp[d].closing["connect"]
    BY <2>3, <2>5, <2>6 DEF MCPSSEClient, Closers
  <2>8. OrderOK(d)' BY <1>1, <2>1, <2>4, <2>5, <2>6, <2>7 DEF OrderOK
  <2> QED BY <1>0, <2>1, <2>2, <2>8
<1>9. CASE /\ \/ Cancel \/ Setup \/ UNCHANGED vars
              \/ \E d \in Clients : \/ Connect(d) \/ Endpoint(d) \/ StopEvents(d)
                                    \/ AskInitialize(d) \/ AskTools(d)
              \/ \E k \in Calls : \/ CallTool(k) \/ CallFunction(k) \/ Post(k) \/ Posted(k)
                                  \/ Answer(k) \/ Timeout(k)
  <2>1. \A c \in Clients : Kept(c) BY SMTT(30), <1>9, BystandersKeep DEF Bystanders
  <2>2. sseClient' = sseClient /\ routine' = routine
    BY <1>9 DEF Cancel, Setup, SetupCancelled, UpdateTools, GotTools, vars, Connect,
                StopEvents, Endpoint, AskInitialize, AskTools,
                CallTool, CallFunction, Post, Posted, Answer, Timeout
  <2> QED BY <1>0, <1>2, <2>1, <2>2 DEF Kept
<1>10. ASSUME NEW d \in Clients, Disconnect(d) \/ HandleMessage(d)
       PROVE  routine' # "giveUp" /\ \A c \in Clients : OrderOK(c)'
  <2>1. sseClient' = sseClient /\ routine' = routine BY <1>10 DEF Disconnect, HandleMessage
  <2>2. /\ mcp'[d].closing = mcp[d].closing /\ mcp'[d].stopChan = mcp[d].stopChan
        /\ \A c \in Clients \ {d} : mcp'[c] = mcp[c]
    BY <1>10, DisconnectMoves, Handles DEF Rest
  <2> QED BY <1>0, <1>2, <2>1, <2>2
<1>11. ASSUME NEW k \in Calls, PostFails(k)
       PROVE  routine' # "giveUp" /\ \A c \in Clients : OrderOK(c)'
  <2> DEFINE d == call[k].at
  <2>1. sseClient' = sseClient /\ routine' = routine BY <1>11 DEF PostFails
  <2>2. /\ mcp'[d].closing = mcp[d].closing /\ mcp'[d].stopChan = mcp[d].stopChan
        /\ \A c \in Clients \ {d} : mcp'[c] = mcp[c]
    BY <1>11, Ends DEF Rest
  <2> HIDE DEF d
  <2> QED BY <1>0, <1>2, <2>1, <2>2
<1> QED BY <1>3, <1>4, <1>5, <1>6, <1>7, <1>8, <1>9, <1>10, <1>11, FailedStays
        DEF Next, Routine, Client, Network, Step

-----------------------------------------------------------------------------
(* Calls *)

\* How a step moves a call: whether it is early, where it is and what its channel holds
LEMMA CallMoves ==
    ASSUME TypeOK, CallInv, [Next]_vars, NEW k \in Calls
    PROVE  /\ call'[k].early = call[k].early \/ CallFunction(k)
           /\ call[k].pc = "returned" => call'[k].pc = "returned"
           /\ call'[k].pc \in {"unused", "loaded"} => call[k].pc \in {"unused", "loaded"}
           /\ call'[k].pc \in {"unused", "loaded", "registered"}
                 => call[k].pc \in {"unused", "loaded", "registered"}
           /\ \/ call'[k].respChan = call[k].respChan
              \/ /\ call'[k].pc = call[k].pc
                 /\ \E c \in Clients :
                       /\ HandleMessage(c) \/ \E by \in Closers : CloseChannels(c, by)
                       /\ \E n \in Ids : mcp[c].responseChannels[n] = k
<1> USE FieldTypes
<1>0. call[k] \in Call OBVIOUS
<1> DEFINE Goal == /\ call'[k].early = call[k].early \/ CallFunction(k)
                   /\ call[k].pc = "returned" => call'[k].pc = "returned"
                   /\ call'[k].pc \in {"unused", "loaded"} => call[k].pc \in {"unused", "loaded"}
                   /\ call'[k].pc \in {"unused", "loaded", "registered"}
                         => call[k].pc \in {"unused", "loaded", "registered"}
           Heard == \E c \in Clients :
                       /\ HandleMessage(c) \/ \E by \in Closers : CloseChannels(c, by)
                       /\ \E n \in Ids : mcp[c].responseChannels[n] = k
<1>1. ASSUME call'[k] = call[k] PROVE Goal /\ call'[k].respChan = call[k].respChan
  BY <1>1
<1>2. ASSUME NEW x, call'[k] = [call[k] EXCEPT !.respChan = x]
      PROVE  Goal /\ call'[k].pc = call[k].pc
  BY <1>0, <1>2 DEF Call
<1> HIDE DEF Goal, Heard
<1>3. ASSUME NEW c \in Clients, NEW by \in Closers, CloseChannels(c, by)
      PROVE  Goal /\ (call'[k].respChan = call[k].respChan \/ (call'[k].pc = call[k].pc /\ Heard))
  <2> DEFINE waiting == {mcp[c].responseChannels[n] : n \in Ids} \ {None}
  <2>1. call'[k] = IF k \in waiting THEN [call[k] EXCEPT !.respChan = "closed"] ELSE call[k]
    BY <1>3 DEF CloseChannels
  <2>2. CASE k \in waiting
    <3>1. call'[k] = [call[k] EXCEPT !.respChan = "closed"]
      <4> HIDE DEF waiting
      <4> QED BY <2>1, <2>2
    <3>2. Heard BY <1>3, <2>2 DEF Heard
    <3> QED BY <1>2, <3>1, <3>2
  <2>3. CASE k \notin waiting
    <3> HIDE DEF waiting
    <3> QED BY <1>1, <2>1, <2>3
  <2> QED BY <2>2, <2>3
<1>4. ASSUME NEW c \in Clients, HandleMessage(c)
      PROVE  Goal /\ (call'[k].respChan = call[k].respChan \/ (call'[k].pc = call[k].pc /\ Heard))
  <2>1. PICK r \in server :
          IF mcp[c].responseChannels[r.id] = None THEN call' = call
          ELSE call' = [call EXCEPT ![mcp[c].responseChannels[r.id]].respChan = r.what]
    BY <1>4 DEF HandleMessage
  <2>2. r.id \in Ids BY DEF TypeOK
  <2>3. CASE mcp[c].responseChannels[r.id] = k
    <3>1. call'[k] = [call[k] EXCEPT !.respChan = r.what] BY <2>1, <2>3, NoCalls
    <3>2. Heard BY <1>4, <2>2, <2>3 DEF Heard
    <3> QED BY <1>2, <3>1, <3>2
  <2>4. CASE mcp[c].responseChannels[r.id] # k
    <3>1. call'[k] = call[k] BY <2>1, <2>4
    <3> QED BY <1>1, <3>1
  <2> QED BY <2>3, <2>4
<1>5. ASSUME NEW i \in Calls, i # k, CallTool(i) \/ Step(i) PROVE call'[k] = call[k]
  BY <1>5 DEF CallTool, Step, CallFunction, Post, Posted, PostFails, Answer, Timeout, Return
<1>6. ASSUME CallTool(k) \/ Step(k) PROVE Goal /\ call'[k].respChan = call[k].respChan
  <2>1. CASE CallTool(k) BY <1>0, <2>1 DEF CallTool, Call, Goal
  <2>2. CASE CallFunction(k)
    <3>1. PICK n, b : call' = [call EXCEPT ![k].pc = "registered", ![k].id = n, ![k].early = b]
      BY <2>2 DEF CallFunction
    <3>2. call[k].pc = "loaded" BY <2>2 DEF CallFunction
    <3> QED BY <1>0, <2>2, <3>1, <3>2 DEF Call, Goal
  <2>3. CASE Post(k) BY <1>0, <2>3 DEF Post, Call, Goal
  <2>4. CASE Posted(k) BY <1>0, <2>4 DEF Posted, Call, Goal
  <2>5. CASE PostFails(k) \/ Answer(k) \/ Timeout(k)
    <3>1. call' = call \/ \E x : call' = [call EXCEPT ![k].pc = "returned", ![k].result = x]
      BY <2>5 DEF PostFails, Answer, Timeout, Return
    <3>2. CASE call' = call BY <1>1, <3>2
    <3>3. ASSUME NEW x, call' = [call EXCEPT ![k].pc = "returned", ![k].result = x]
          PROVE  Goal /\ call'[k].respChan = call[k].respChan
      BY <1>0, <3>3 DEF Call, Goal
    <3> QED BY <3>1, <3>2, <3>3
  <2> QED BY <1>6, <2>1, <2>2, <2>3, <2>4, <2>5 DEF Step
<1>7. ASSUME NEW d \in Clients,
             StopEvents(d) \/ Endpoint(d) \/ AskInitialize(d) \/ AskTools(d)
      PROVE  call' = call
  BY <1>7 DEF StopEvents, Endpoint, AskInitialize, AskTools
<1>8. ASSUME Quiet PROVE call' = call BY <1>8 DEF Quiet
<1>9. Goal /\ (call'[k].respChan = call[k].respChan \/ (call'[k].pc = call[k].pc /\ Heard))
  BY <1>1, <1>3, <1>4, <1>5, <1>6, <1>7, <1>8, QuietSteps DEF Next, Client, Network, Close
<1> QED BY <1>9 DEF Goal, Heard

\* A call takes a number once
LEMMA IdMoves ==
    ASSUME TypeOK, CallInv, [Next]_vars, NEW k \in Calls, ~CallFunction(k)
    PROVE  call'[k].id = call[k].id /\ (call[k].id > 0 => call'[k].at = call[k].at)
<1>1. CASE ~Counting BY <1>1, NoCounting DEF CallsKept
<1>2. CASE \E c \in Clients : Endpoint(c) \/ AskInitialize(c) \/ AskTools(c)
  BY <1>2, CountMoves DEF CallsKept
<1>3. ASSUME NEW j \in Calls, CallFunction(j) PROVE call'[k] = call[k]
  <2>1. j # k BY <1>3
  <2> QED BY <1>3, <2>1, TakesNumber
<1> QED BY <1>1, <1>2, <1>3 DEF Counting

\* A client that used a number never counts from zero again, and its streams only add up
LEMMA CountersGrow ==
    ASSUME TypeOK, CallInv, [Next]_vars, NEW c \in Clients
    PROVE  /\ mcp'[c].endpointURL \in Nat /\ mcp'[c].endpointURL >= mcp[c].endpointURL
           /\ mcp[c].messageID > 0 => mcp'[c].messageID > 0
<1> USE FieldTypes
<1>1. CASE ~Counting BY <1>1, NoCounting DEF CountersKept
<1>2. ASSUME NEW d \in Clients, Endpoint(d) \/ AskInitialize(d) \/ AskTools(d)
      PROVE  /\ mcp'[c].endpointURL \in Nat /\ mcp'[c].endpointURL >= mcp[c].endpointURL
             /\ mcp[c].messageID > 0 => mcp'[c].messageID > 0
  <2>1. CASE c # d
    <3>1. CountersKept(c) BY <1>2, <2>1, CountMoves
    <3> QED BY <3>1 DEF CountersKept
  <2>2. CASE c = d BY <1>2, <2>2, CountMoves
  <2> QED BY <2>1, <2>2
<1>3. ASSUME NEW k \in Calls, CallFunction(k)
      PROVE  /\ mcp'[c].endpointURL \in Nat /\ mcp'[c].endpointURL >= mcp[c].endpointURL
             /\ mcp[c].messageID > 0 => mcp'[c].messageID > 0
  <2>1. CASE c # call[k].at
    <3>1. mcp'[c] = mcp[c] BY <1>3, <2>1, TakesNumber
    <3> QED BY <3>1
  <2>2. CASE c = call[k].at
    <3>1. /\ mcp'[c].endpointURL = mcp[c].endpointURL
          /\ mcp'[c].messageID = NextId(mcp[c].messageID)
      BY <1>3, <2>2, TakesNumber
    <3> QED BY <3>1, NextIdFacts
  <2> QED BY <2>1, <2>2
<1> QED BY <1>1, <1>2, <1>3 DEF Counting

\* Every step keeps what is known of early calls
LEMMA EarlyStep ==
    ASSUME TypeOK, CallInv, EarlyInv, [Next]_vars
    PROVE  EarlyInv'
<1> USE FieldTypes
<1>1. ASSUME NEW c \in Clients, mcp'[c].initChan PROVE mcp'[c].messageID > 0
  <2>1. CASE mcp[c].initChan BY <2>1, CountersGrow DEF EarlyInv
  <2>2. CASE AskTools(c)
    <3>1. mcp'[c].messageID = mcp[c].messageID + 1
      <4> DEFINE n == mcp[c].messageID + 1
      <4>1. \/ mcp' = [mcp EXCEPT ![c].listing = @ - 1, ![c].messageID = n, ![c].initChan = TRUE]
            \/ mcp' = [mcp EXCEPT ![c].listing = @ - 1, ![c].messageID = n]
        BY <2>2 DEF AskTools
      <4>2. mcp[c] \in MCPSSEClient OBVIOUS
      <4> HIDE DEF n
      <4>3. mcp'[c].messageID = n BY <4>1, <4>2 DEF MCPSSEClient
      <4> QED BY <4>3 DEF n
    <3> QED BY <3>1
  <2> QED BY <1>1, <2>1, <2>2, FlagMoves
<1>2. ASSUME NEW k \in Calls PROVE EarlyOK(k)'
  <2>0. EarlyOK(k) /\ call[k].id \in Nat BY DEF EarlyInv
  <2>1. CASE ~CallFunction(k)
    <3>1. call'[k].early = call[k].early BY <2>1, CallMoves
    <3>2. call'[k].id = call[k].id /\ (call[k].id > 0 => call'[k].at = call[k].at)
      BY <2>1, IdMoves
    <3>3. call[k].id > 0 => call[k].at \in Clients
      BY DEF CallInv, CallOK
    <3>4. \A c \in Clients : mcp[c].initChan => mcp'[c].initChan BY FlagMoves
    <3> QED BY <2>0, <3>1, <3>2, <3>3, <3>4 DEF EarlyOK
  <2>2. CASE CallFunction(k)
    <3> DEFINE c == call[k].at
               n == NextId(mcp[c].messageID)
    <3>1. /\ c \in Clients /\ call'[k].id = n /\ call'[k].at = c
      BY <2>2, TakesNumber
    <3>2. call'[k].early = ~mcp[c].initChan
      <4>1. call' = [call EXCEPT ![k].pc = "registered", ![k].id = n, ![k].early = ~mcp[c].initChan]
        BY <2>2 DEF CallFunction
      <4>2. call[k] \in Call OBVIOUS
      <4> HIDE DEF n, c
      <4> QED BY <4>1, <4>2 DEF Call
    <3>3. n > 0 /\ (mcp[c].messageID > 0 => n > 1)
      BY <3>1, NextIdFacts, IdAssumption DEF NextId
    <3>4. mcp[c].initChan => mcp[c].messageID > 0 /\ mcp'[c].initChan
      BY <3>1, FlagMoves DEF EarlyInv
    <3> HIDE DEF n, c
    <3> QED BY <3>1, <3>2, <3>3, <3>4 DEF EarlyOK
  <2> QED BY <2>1, <2>2
<1> QED BY <1>1, <1>2 DEF EarlyInv

\* An early call stays one
LEMMA EarlyStays ==
    ASSUME TypeOK, CallInv, EarlyInv, [Next]_vars, NEW k \in Calls, NEW c, Early(k, c)
    PROVE  Early(k, c)'
<1>1. call[k].id > 0 BY DEF EarlyInv, EarlyOK, Early
<1>2. ~CallFunction(k) BY <1>1 DEF CallFunction, CallInv, CallOK
<1> QED BY <1>1, <1>2, CallMoves, IdMoves DEF Early

\* A call that was not early has an endpoint to post to
LEMMA LateCalls ==
    ASSUME TypeOK, CallInv, EarlyInv, EndpointInv, NEW k \in Calls,
           call[k].pc \in {"registered", "posting", "waiting"}, ~call[k].early
    PROVE  mcp[call[k].at].endpointURL > 0
<1>1. CallOK(k) /\ EarlyOK(k) BY DEF CallInv, EarlyInv
<1>2. call[k].at \in Clients /\ mcp[call[k].at].initChan
  <2>1. call[k].at \in Clients /\ call[k].id # 0 BY <1>1 DEF CallOK
  <2>2. call[k].id > 0 BY <2>1, FieldTypes
  <2> QED BY <1>1, <2>1, <2>2 DEF EarlyOK
<1> QED BY <1>2 DEF EndpointInv, EndpointOK, Told

\* ReconnectChan is closed by a loss or by an early call
LEMMA LossStep ==
    ASSUME TypeOK, CallInv, SetupInv, EndpointInv, EarlyInv, LossInv, [Next]_vars
    PROVE  LossInv'
<1> USE FieldTypes
<1> SUFFICES ASSUME NEW c \in Clients PROVE LossOK(c)' BY DEF LossInv
<1>0. LossOK(c) BY DEF LossInv
<1>1. ASSUME mcp'[c].ReconnectChan = mcp[c].ReconnectChan, mcp'[c].losses = mcp[c].losses
      PROVE  LossOK(c)'
  <2>1. ASSUME NEW k \in Calls, Early(k, c), call[k].pc = "returned"
        PROVE  Early(k, c)' /\ call'[k].pc = "returned"
    BY <2>1, EarlyStays, CallMoves
  <2> QED BY <1>0, <1>1, <2>1 DEF LossOK
<1>2. CASE Bystanders BY <1>1, <1>2, BystandersKeep DEF Kept
<1>3. ASSUME NEW d \in Clients, NEW by \in Closers, Begins(d, by) \/ Close(d, by)
      PROVE  LossOK(c)'
  <2>1. CASE c # d
    <3>1. \A e \in Clients \ {d} : mcp'[e] = mcp[e]
      <4>1. CASE Begins(d, by) BY <4>1, BeginsMoves
      <4>2. CASE Close(d, by) BY <4>2, CloseMoves
      <4> QED BY <1>3, <4>1, <4>2
    <3> QED BY <1>1, <2>1, <3>1
  <2>2. CASE c = d
    <3>1. CASE Begins(d, by) BY <1>1, <2>2, <3>1, BeginsMoves
    <3>2. CASE Close(d, by) BY <1>1, <2>2, <3>2, CloseMoves
    <3> QED BY <1>3, <3>1, <3>2
  <2> QED BY <2>1, <2>2
<1>4. ASSUME NEW d \in Clients, HandleMessage(d) PROVE LossOK(c)'
  <2>1. CASE c # d
    <3>1. mcp'[c] = mcp[c] BY <1>4, <2>1, Handles
    <3> QED BY <1>1, <3>1
  <2>2. CASE c = d
    <3>1. mcp'[c].losses = mcp[c].losses /\ mcp'[c].ReconnectChan = mcp[c].ReconnectChan
      <4>1. PICK x : \/ mcp' = [mcp EXCEPT ![c].tools = x]
                     \/ mcp' = [mcp EXCEPT ![c].tools = x, ![c].doubled = TRUE]
        BY ZenonT(60), <1>4, <2>2 DEF HandleMessage
      <4>2. mcp[c] \in MCPSSEClient OBVIOUS
      <4> QED BY <4>1, <4>2 DEF MCPSSEClient
    <3> QED BY <1>1, <3>1
  <2> QED BY <2>1, <2>2
<1>5. ASSUME NEW d \in Clients, Disconnect(d) PROVE LossOK(c)'
  <2>1. CASE c # d
    <3>1. mcp'[c] = mcp[c] BY <1>5, <2>1, DisconnectMoves
    <3> QED BY <1>1, <3>1
  <2>2. CASE c = d
    <3>1. mcp'[c].losses = mcp[c].losses + 1 /\ mcp[c].losses \in Nat
      BY <1>5, <2>2, DisconnectMoves
    <3> QED BY <3>1 DEF LossOK
  <2> QED BY <2>1, <2>2
<1>6. ASSUME NEW k \in Calls, PostFails(k) PROVE LossOK(c)'
  <2>1. CASE c # call[k].at
    <3>1. \A d \in Clients \ {call[k].at} : mcp'[d] = mcp[d] BY <1>6, PostFailsMoves
    <3>2. mcp'[c] = mcp[c] BY <2>1, <3>1
    <3> QED BY <1>1, <3>2
  <2>2. CASE c = call[k].at
    <3>1. CASE mcp' = mcp BY <1>1, <3>1
    <3>2. CASE call[k].pc = "posting" /\ mcp' # mcp
      <4>1. mcp'[c].losses = mcp[c].losses + 1 /\ mcp[c].losses \in Nat
        BY <1>6, <2>2, <3>2, PostFailsMoves
      <4> QED BY <4>1 DEF LossOK
    <3>3. CASE call[k].pc = "registered" /\ mcp[c].endpointURL = 0 /\ mcp' # mcp
      <4>1. mcp'[c].losses = mcp[c].losses BY <1>6, <2>2, <3>3, PostFailsMoves
      <4>2. CASE mcp'[c].ReconnectChan = mcp[c].ReconnectChan BY <1>1, <4>1, <4>2
      <4>3. CASE call' = [call EXCEPT ![k].pc = "returned", ![k].result = "failed"]
        <5>1. call[k].early BY <2>2, <3>3, LateCalls
        <5>2. /\ call'[k].early = call[k].early /\ call'[k].at = call[k].at
              /\ call'[k].pc = "returned"
          <6>1. call[k] \in Call OBVIOUS
          <6> QED BY <4>3, <6>1 DEF Call
        <5> QED BY <2>2, <5>1, <5>2 DEF LossOK, Early
      <4> QED BY <1>6, <2>2, <3>3, <4>2, <4>3, PostFailsMoves
    <3> QED BY <1>6, <2>2, <3>1, <3>2, <3>3, PostFailsMoves
  <2> QED BY <2>1, <2>2
<1> QED BY <1>2, <1>3, <1>4, <1>5, <1>6, Kinds

-----------------------------------------------------------------------------
(* Requests and answers *)

\* A request is new by one of three steps
LEMMA ServerMoves ==
    ASSUME TypeOK, [Next]_vars, NEW r \in server', r \notin server
    PROVE  \/ \E c \in Clients : /\ AskInitialize(c) /\ r.to = c /\ r.what = "initialize"
                                 /\ r.id = mcp[c].messageID
           \/ \E c \in Clients : /\ AskTools(c) /\ r.to = c /\ r.what = "tools"
                                 /\ r.id = mcp[c].messageID + 1
           \/ \E k \in Calls : Post(k) /\ r.to = call[k].at /\ r.what = k /\ r.id = call[k].id
<1>1. ASSUME NEW c, NEW n, NEW what, Ask(c, n, what)
      PROVE  r.to = c /\ r.id = n /\ r.what = what
  BY <1>1 DEF Ask
<1>2. ASSUME NEW c \in Clients, AskInitialize(c)
      PROVE  r.to = c /\ r.what = "initialize" /\ r.id = mcp[c].messageID
  BY <1>1, <1>2 DEF AskInitialize
<1>3. ASSUME NEW c \in Clients, AskTools(c)
      PROVE  r.to = c /\ r.what = "tools" /\ r.id = mcp[c].messageID + 1
  BY <1>1, <1>3 DEF AskTools
<1>4. ASSUME NEW k \in Calls, Post(k)
      PROVE  r.to = call[k].at /\ r.what = k /\ r.id = call[k].id
  BY <1>1, <1>4 DEF Post
<1>5. ASSUME NEW c \in Clients,
             \/ \E by \in Closers : CloseChannels(c, by)
             \/ StopEvents(c) \/ Endpoint(c) \/ HandleMessage(c)
      PROVE  FALSE
  BY <1>5 DEF CloseChannels, StopEvents, Endpoint, HandleMessage
<1>6. ASSUME NEW k \in Calls, CallTool(k) \/ CallFunction(k) \/ Posted(k) \/ PostFails(k)
                              \/ Answer(k) \/ Timeout(k)
      PROVE  FALSE
  BY <1>6 DEF CallTool, CallFunction, Posted, PostFails, Answer, Timeout
<1>7. CASE Quiet BY <1>7 DEF Quiet
<1> QED BY <1>2, <1>3, <1>4, <1>5, <1>6, <1>7, QuietSteps
        DEF Next, Client, Network, Close, Step

\* A call has no channel and no request before it takes its number, and no request until
\* its post
LEMMA FreshStep ==
    ASSUME TypeOK, CallInv, ChannelInv, FreshInv, [Next]_vars
    PROVE  FreshInv'
<1> USE FieldTypes
<1>1. ASSUME NEW k \in Calls, call'[k].pc \in {"unused", "loaded"}
      PROVE  call'[k].respChan = "open"
  <2>1. call[k].pc \in {"unused", "loaded"} /\ call[k].respChan = "open"
    BY <1>1, CallMoves DEF FreshInv
  <2>2. ASSUME NEW c \in Clients, NEW n \in Ids, mcp[c].responseChannels[n] = k PROVE FALSE
    BY <2>1, <2>2, NoCalls DEF ChannelInv, Busy
  <2>3. call'[k].respChan = call[k].respChan BY <2>2, CallMoves
  <2> QED BY <2>1, <2>3
<1>2. ASSUME NEW r \in server', r.what \in Calls
      PROVE  call'[r.what].pc \notin {"unused", "loaded", "registered"}
  <2>1. CASE r \in server BY <1>2, <2>1, CallMoves DEF FreshInv
  <2>2. CASE r \notin server
    <3>1. PICK k \in Calls : Post(k) /\ r.what = k BY <1>2, <2>2, ServerMoves, NoCalls
    <3>2. call'[k].pc = "posting" BY <3>1 DEF Post, Call
    <3> QED BY <3>1, <3>2
  <2> QED BY <2>1, <2>2
<1> QED BY <1>1, <1>2 DEF FreshInv

\* A client that is being closed stays so, and an answer given twice is not forgotten
LEMMA Lasting ==
    ASSUME TypeOK, CallInv, SetupInv, [Next]_vars, NEW c \in Clients
    PROVE  /\ mcp[c].stopChan => mcp'[c].stopChan
           /\ mcp[c].doubled => mcp'[c].doubled
<1> USE FieldTypes
<1> DEFINE Goal == /\ mcp[c].stopChan => mcp'[c].stopChan
                   /\ mcp[c].doubled => mcp'[c].doubled
<1>1. ASSUME mcp'[c] = mcp[c] PROVE Goal BY <1>1
<1>2. CASE Bystanders BY <1>2, BystandersKeep DEF Kept
<1>3. ASSUME NEW d \in Clients, NEW by \in Closers, Begins(d, by) PROVE Goal
  <2>1. CASE c # d BY <1>1, <1>3, <2>1, BeginsMoves
  <2>2. CASE c = d BY <1>3, <2>2, BeginsMoves
  <2> QED BY <2>1, <2>2
<1>4. ASSUME NEW d \in Clients, NEW by \in Closers, Close(d, by) PROVE Goal
  <2>1. CASE c # d BY <1>1, <1>4, <2>1, CloseMoves
  <2>2. CASE c = d BY <1>4, <2>2, CloseMoves
  <2> QED BY <2>1, <2>2
<1>5. ASSUME NEW d \in Clients, Disconnect(d) PROVE Goal
  <2>1. CASE c # d BY <1>1, <1>5, <2>1, DisconnectMoves
  <2>2. CASE c = d BY <1>5, <2>2, DisconnectMoves
  <2> QED BY <2>1, <2>2
<1>6. ASSUME NEW d \in Clients, HandleMessage(d) PROVE Goal
  <2>1. CASE c # d BY <1>1, <1>6, <2>1, Handles
  <2>2. CASE c = d
    <3>1. PICK x : \/ mcp' = [mcp EXCEPT ![c].tools = x]
                   \/ mcp' = [mcp EXCEPT ![c].tools = x, ![c].doubled = TRUE]
      BY ZenonT(60), <1>6, <2>2 DEF HandleMessage
    <3>2. mcp[c] \in MCPSSEClient OBVIOUS
    <3> QED BY <3>1, <3>2 DEF MCPSSEClient
  <2> QED BY <2>1, <2>2
<1>7. ASSUME NEW k \in Calls, PostFails(k) PROVE Goal
  <2>1. \A d \in Clients \ {call[k].at} : mcp'[d] = mcp[d] BY <1>7, Ends
  <2>2. CASE c # call[k].at BY <1>1, <2>1, <2>2
  <2>3. CASE c = call[k].at BY <1>7, <2>3, Ends DEF Rest
  <2> QED BY <2>2, <2>3
<1> QED BY <1>2, <1>3, <1>4, <1>5, <1>6, <1>7, Kinds

\* What went wrong with a client stays wrong
LEMMA PromptBefore ==
    ASSUME TypeOK, CallInv, EarlyInv, [Next]_vars, NEW c \in Clients, Prompt(c)'
    PROVE  Prompt(c)
<1>1. mcp[c].endpointURL <= 1
  <2>1. /\ mcp'[c].endpointURL \in Nat /\ mcp'[c].endpointURL >= mcp[c].endpointURL
        /\ mcp[c].endpointURL \in Nat
    BY CountersGrow, FieldTypes
  <2>2. mcp'[c].endpointURL <= 1 BY DEF Prompt
  <2> QED BY <2>1, <2>2
<1>2. ASSUME NEW k \in Calls, Early(k, c) PROVE FALSE
  <2>1. Early(k, c)' BY <1>2, EarlyStays
  <2> QED BY <2>1 DEF Prompt
<1> QED BY <1>1, <1>2 DEF Prompt

\* ... as do numbers that are used up
LEMMA NumbersUsedStay ==
    ASSUME TypeOK, CallInv, [Next]_vars, NEW c \in Clients, NumbersUsed(c)
    PROVE  NumbersUsed(c)'
<1> DEFINE N == {j \in Calls : call[j].at = c /\ call[j].id > 0}
           M == {j \in Calls : call'[j].at = c /\ call'[j].id > 0}
<1>1. N \subseteq M
  <2>1. ASSUME NEW j \in N PROVE j \in M
    <3>1. call'[j].id = call[j].id /\ call'[j].at = call[j].at BY NumbersStay
    <3> QED BY <3>1
  <2> QED BY <2>1
<1>2. IsFiniteSet(M) /\ Cardinality(M) \in Nat /\ Cardinality(N) \in Nat BY CallCounts
<1>3. Cardinality(N) <= Cardinality(M) BY <1>1, <1>2, FS_Subset
<1>4. /\ mcp'[c].endpointURL \in Nat /\ mcp'[c].endpointURL >= mcp[c].endpointURL
      /\ mcp[c].endpointURL \in Nat
  BY CountersGrow, FieldTypes
<1>5. Cardinality(N) + mcp[c].endpointURL >= WrapId BY DEF NumbersUsed
<1>6. Cardinality(M) + mcp'[c].endpointURL >= WrapId
  <2> HIDE DEF N, M
  <2> QED BY <1>2, <1>3, <1>4, <1>5, IdAssumption
<1> QED BY <1>6 DEF NumbersUsed

\* ... so that a client with which nothing is wrong was such a client before
LEMMA CleanBefore ==
    ASSUME TypeOK, CallInv, SetupInv, EarlyInv, [Next]_vars, NEW c \in Clients, Clean(c)'
    PROVE  Clean(c)
<1>1. /\ ~mcp'[c].stopChan /\ ~mcp'[c].doubled
      /\ ~(NumbersUsed(c)') /\ Prompt(c)'
  BY DEF Clean
<1> QED BY <1>1, Lasting, NumbersUsedStay, PromptBefore DEF Clean

\* Until a client is initialised, a prompt one has used no number
LEMMA FirstIdsStep ==
    ASSUME TypeOK, CallInv, CountInv, EndpointInv, EarlyInv, FirstIdsInv, [Next]_vars, TypeOK'
    PROVE  FirstIdsInv'
<1> USE FieldTypes
<1> SUFFICES ASSUME NEW r \in server', r.what \notin Calls, Prompt(r.to)' PROVE r.id <= 1
  BY DEF FirstIdsInv
<1> DEFINE c == r.to
<1>1. c \in Clients BY DEF TypeOK
<1>2. Prompt(c) BY <1>1, PromptBefore
<1>3. CASE r \in server BY <1>2, <1>3 DEF FirstIdsInv
<1>4. CASE r \notin server
  <2>1. \/ AskInitialize(c) /\ r.id = mcp[c].messageID
        \/ AskTools(c) /\ r.id = mcp[c].messageID + 1
    BY <1>4, ServerMoves
  <2> HIDE DEF c
  <2>2. mcp[c].asking > 0 \/ mcp[c].listing > 0 BY <2>1 DEF AskInitialize, AskTools
  <2>3. mcp[c].endpointURL <= 1 /\ ~mcp[c].initChan
    BY <1>1, <1>2, <2>2 DEF Prompt, EndpointInv, EndpointOK
  <2>4. Numbered(c) = {}
    BY <1>2, <2>3 DEF Numbered, Prompt, Early, EarlyInv, EarlyOK
  <2>5. Cardinality(Numbered(c)) = 0 BY <2>4, FS_EmptySet
  <2>6. mcp[c].messageID <= 0
    BY <1>1, <2>2, <2>3, <2>5 DEF CountInv, CountOK, Used, Borrowed
  <2> QED BY <1>1, <2>1, <2>6
<1> QED BY <1>3, <1>4

\* An answer for a clean client goes to the call it answers
LEMMA Mine ==
    ASSUME TypeOK, CountInv, IdInv, CallInv, ServerInv, ChannelInv, EarlyInv, FirstIdsInv,
           NEW r \in server, NEW c \in Clients, c = r.to, Clean(c),
           NEW k \in Calls, k = mcp[c].responseChannels[r.id]
    PROVE  r.what = k /\ call[k].at = c /\ call[k].id = r.id
<1> USE FieldTypes
<1>1. Busy(k) /\ call[k].pc # "loaded" /\ call[k].at = c /\ call[k].id = r.id
  <2>1. r.id \in Ids BY DEF TypeOK
  <2> QED BY <2>1, NoCalls DEF ChannelInv
<1>2. call[k].id > 0
  <2>1. call[k].id # 0 BY <1>1 DEF CallInv, CallOK, Busy
  <2> QED BY <2>1
<1>3. CASE r.what \notin Calls
  <2>1. r.id <= 1 BY <1>3 DEF FirstIdsInv, Clean
  <2>2. ~call[k].early BY <1>1 DEF Clean, Prompt, Early
  <2>3. call[k].id > 1 BY <1>2, <2>2 DEF EarlyInv, EarlyOK
  <2> QED BY <1>1, <2>1, <2>3
<1>4. CASE r.what \in Calls
  <2>1. call[r.what].at = c /\ call[r.what].id = r.id /\ r.id > 0 BY <1>4 DEF ServerInv
  <2>2. k \in Numbered(c) /\ r.what \in Numbered(c) BY <1>1, <1>2, <1>4, <2>1 DEF Numbered
  <2>3. Cardinality(Numbered(c)) + mcp[c].endpointURL < WrapId
    <3>1. Cardinality(Numbered(c)) \in Nat BY CallCounts DEF Numbered
    <3>2. ~(Cardinality(Numbered(c)) + mcp[c].endpointURL >= WrapId)
      BY DEF Clean, NumbersUsed, Numbered
    <3> QED BY <3>1, <3>2, IdAssumption
  <2>4. Used(c) < WrapId
    <3>1. Cardinality(Numbered(c)) \in Nat BY CallCounts DEF Numbered
    <3> QED BY <2>3, <3>1, IdAssumption DEF Used, Borrowed
  <2>5. IdOK(c) BY DEF IdInv
  <2> QED BY <1>1, <2>1, <2>2, <2>4, <2>5 DEF IdOK
<1> QED BY <1>1, <1>3, <1>4

\* As long as nothing is wrong with its client, a call is answered once
LEMMA AnswerStep ==
    ASSUME TypeOK, CountInv, IdInv, CallInv, ServerInv, ChannelInv, SetupInv, ClosedInv,
           EarlyInv, FreshInv, FirstIdsInv, AnswerInv, [Next]_vars, TypeOK', CallInv', FreshInv'
    PROVE  AnswerInv'
<1> USE FieldTypes
<1> SUFFICES ASSUME NEW k \in Calls, call'[k].pc # "unused", Clean(call[k].at)',
                    call'[k].respChan # "open"
             PROVE  call'[k].pc # "registered" /\ \A r \in server' : r.what # k
  BY DEF AnswerInv, AnswerOK
<1>0. PICK c : c = call[k].at OBVIOUS
<1>1. call'[k].pc \notin {"unused", "loaded"} /\ call'[k].id # 0
  BY DEF FreshInv, CallInv, CallOK
<1>2. ~CallFunction(k)
  <2>1. SUFFICES ASSUME CallFunction(k) PROVE call'[k].respChan = "open" OBVIOUS
  <2>2. PICK n, b : call' = [call EXCEPT ![k].pc = "registered", ![k].id = n, ![k].early = b]
    BY <2>1 DEF CallFunction
  <2>3. call'[k].respChan = call[k].respChan BY <2>2 DEF Call
  <2> QED BY <2>1, <2>3 DEF CallFunction, FreshInv
<1>3. /\ call'[k].at = c /\ call[k].pc \notin {"unused", "loaded"} /\ call[k].id > 0
      /\ c \in Clients
  <2>1. call[k].id # 0 BY <1>1, <1>2, IdMoves
  <2>2. call[k].id > 0 BY <2>1
  <2> QED BY <1>0, <1>2, <2>2, IdMoves DEF CallInv, CallOK
<1>4. Clean(c)
  <2>1. Clean(c)' BY <1>3 DEF Clean, NumbersUsed, Prompt, Early
  <2> QED BY <1>3, <2>1, CleanBefore
<1>5. ASSUME NEW r \in server', r.what = k, r \notin server PROVE call[k].pc = "registered"
  BY <1>5, ServerMoves, NoCalls DEF Post
<1>6. CASE call[k].respChan # "open"
  <2>1. call[k].pc # "registered" /\ \A r \in server : r.what # k
    BY <1>0, <1>3, <1>4, <1>6 DEF AnswerInv, AnswerOK
  <2>2. call'[k].pc # "registered" BY <1>3, <2>1, CallMoves
  <2> QED BY <1>5, <2>1, <2>2
<1>7. CASE call[k].respChan = "open"
  <2>1. PICK d \in Clients, n \in Ids :
          /\ HandleMessage(d) \/ \E by \in Closers : CloseChannels(d, by)
          /\ mcp[d].responseChannels[n] = k
    BY <1>7, CallMoves
  <2>2. d = c BY <1>0, <2>1, NoCalls DEF ChannelInv
  <2>3. call'[k].pc = call[k].pc BY <1>7, CallMoves
  <2>4. ~mcp[c].stopChan /\ ~mcp'[c].stopChan /\ ~mcp'[c].doubled
    <3>1. ~mcp'[c].stopChan /\ ~mcp'[c].doubled
      <4>1. Clean(c)' BY <1>3 DEF Clean, NumbersUsed, Prompt, Early
      <4> QED BY <4>1 DEF Clean
    <3> QED BY <1>4, <3>1 DEF Clean
  <2>5. ASSUME NEW by \in Closers, CloseChannels(d, by) PROVE FALSE
    BY <1>3, <2>2, <2>4, <2>5 DEF CloseChannels, ClosedInv, ClosedOK
  <2>6. HandleMessage(c) BY <2>1, <2>2, <2>5
  <2> DEFINE i(r) == mcp[c].responseChannels[r.id]
  <2>7. PICK r \in server :
          /\ r.to = c
          /\ \/ server' = server \ {r}
             \/ mcp' = [mcp EXCEPT ![c].tools = @ \/ (r.id = 1 /\ r.what = "tools"),
                                   ![c].doubled = TRUE]
          /\ IF i(r) = None THEN call' = call ELSE call' = [call EXCEPT ![i(r)].respChan = r.what]
    BY <2>6 DEF HandleMessage
  <2>8. ~(mcp' = [mcp EXCEPT ![c].tools = @ \/ (r.id = 1 /\ r.what = "tools"),
                             ![c].doubled = TRUE])
    <3>1. mcp[c] \in MCPSSEClient BY <1>3
    <3> QED BY <1>3, <2>4, <3>1 DEF MCPSSEClient
  <2>9. i(r) = k BY <1>7, <2>7
  <2>10. r.what = k /\ call[k].id = r.id BY <1>0, <1>3, <1>4, <2>7, <2>9, Mine
  <2>11. server' = server \ {r} BY <2>7, <2>8
  <2>12. call[k].pc # "registered" BY <2>10 DEF FreshInv
  <2>13. ASSUME NEW q \in server, q.what = k PROVE q = r
    <3>1. q.to = c /\ q.id = call[k].id BY <1>0, <2>13 DEF ServerInv
    <3>2. q \in [to : Clients, id : Ids, what : Asked] /\ r \in [to : Clients, id : Ids, what : Asked]
      BY DEF TypeOK
    <3> QED BY <2>7, <2>10, <2>13, <3>1, <3>2
  <2> QED BY <2>3, <2>11, <2>12, <2>13
<1> QED BY <1>6, <1>7

-----------------------------------------------------------------------------
(* Panics *)

\* A client is closed twice
LEMMA StopChanCause ==
    ASSUME OrderInv, TypeOK, [Next]_vars, NEW c \in Clients, NEW by \in Closers,
           CloseStop(c, by), panic' # None
    PROVE  panic' = "stopChan" /\ initFailed'
<1>1. mcp[c].stopChan /\ mcp[c].closing[by] = "begin" /\ panic' = "stopChan"
  BY DEF CloseStop
<1>2. initFailed BY <1>1 DEF OrderInv, OrderOK, Closers
<1> QED BY <1>1, <1>2, FailedStays

\* A client is closed while initializeEndpoint uses it
LEMMA ClientCause ==
    ASSUME OrderInv, ClosedInv, EndpointInv, TypeOK, CallInv, [Next]_vars, NEW c \in Clients,
           ~mcp[c].client, mcp[c].asking > 0 \/ mcp[c].listing > 0
    PROVE  initFailed' \/ Reopened(c)'
<1> USE FieldTypes
<1>1. mcp[c].stopChan BY DEF ClosedInv, ClosedOK
<1>2. CASE initFailed BY <1>2, FailedStays
<1>3. CASE ~initFailed
  <2>1. OrderOK(c) BY <1>3 DEF OrderInv
  <2>2. c \in Int /\ sseClient \in Int BY DEF Clients
  <2>3. mcp[c].initChan BY <1>1, <2>1, <2>2 DEF OrderOK
  <2>4. mcp[c].endpointURL > 1 BY <2>3 DEF EndpointInv, EndpointOK
  <2>5. /\ mcp'[c].endpointURL \in Nat /\ mcp'[c].endpointURL >= mcp[c].endpointURL
    BY CountersGrow
  <2> QED BY <2>4, <2>5 DEF Reopened
<1> QED BY <1>2, <1>3

\* The stream of a client breaks
LEMMA DisconnectCause ==
    ASSUME TypeOK, CallInv, EarlyInv, LossInv, [Next]_vars, NEW c \in Clients,
           Disconnect(c), panic' # None
    PROVE  /\ panic' = "ReconnectChan"
           /\ \/ mcp'[c].losses > 1
              \/ \E k \in Calls : Early(k, c)' /\ mcp'[c].losses > 0
<1>1. mcp[c].ReconnectChan /\ panic' = "ReconnectChan" BY DEF Disconnect
<1>2. mcp'[c].losses = mcp[c].losses + 1 /\ mcp[c].losses \in Nat BY DisconnectMoves
<1>3. mcp[c].losses > 0 \/ \E k \in Calls : Early(k, c) BY <1>1 DEF LossInv, LossOK
<1>4. ASSUME NEW k \in Calls, Early(k, c) PROVE Early(k, c)' BY <1>4, EarlyStays
<1> QED BY <1>1, <1>2, <1>3, <1>4

\* The post of a call fails
LEMMA PostFailsCause ==
    ASSUME TypeOK, CallInv, ClosedInv, EndpointInv, EarlyInv, LossInv, [Next]_vars,
           NEW k \in Calls, PostFails(k), panic' # None, panic = None, NEW c, c = call[k].at
    PROVE  \/ panic' = "client" /\ Overtaken(k)'
           \/ /\ panic' = "ReconnectChan"
              /\ \/ mcp'[c].losses > 1
                 \/ \E i \in Calls : Early(i, c)' /\ (\/ mcp'[c].losses > 0
                                                       \/ \E j \in Calls \ {i} : Early(j, c)')
<1>0. c \in Clients /\ mcp[c].losses \in Nat BY PostFailsMoves
<1>1. CASE /\ call[k].pc = "registered" /\ ~mcp[c].client /\ panic' = "client"
           /\ mcp' = mcp /\ call' = call
  <2>1. mcp[c].stopChan BY <1>0, <1>1 DEF ClosedInv, ClosedOK
  <2> QED BY <1>1, <2>1 DEF Overtaken, Busy
<1>2. CASE mcp[c].ReconnectChan /\ panic' = "ReconnectChan"
  <2>0. ASSUME NEW j \in Calls, Early(j, c) PROVE Early(j, c)' BY <2>0, EarlyStays
  <2>1. \/ mcp[c].losses > 0
        \/ \E j \in Calls : Early(j, c) /\ call[j].pc = "returned"
    BY <1>0, <1>2 DEF LossInv, LossOK
  <2>2. CASE call[k].pc = "posting"
    <3>1. mcp'[c].losses = mcp[c].losses + 1 BY <1>2, <2>2, PostFailsMoves
    <3> QED BY <1>0, <1>2, <2>0, <2>1, <3>1
  <2>3. CASE call[k].pc = "registered" /\ mcp[c].endpointURL = 0
    <3>1. mcp'[c].losses = mcp[c].losses BY <2>3, PostFailsMoves
    <3>2. Early(k, c) BY <1>0, <2>3, LateCalls, FieldTypes DEF Early
    <3> QED BY <1>2, <2>0, <2>1, <2>3, <3>1, <3>2
  <2> QED BY <2>2, <2>3, PostFailsMoves
<1> QED BY <1>1, <1>2, PostFailsMoves

\* The channel of a call is closed again, by Close
LEMMA CloseChannelsCause ==
    ASSUME TypeOK, CallInv, ChannelInv, ClosedInv, SetupInv, [Next]_vars, NEW c \in Clients,
           NEW by \in Closers, CloseChannels(c, by), panic' # None
    PROVE  panic' = "respChan" /\ \E k \in Calls : Overtaken(k)'
<1> USE FieldTypes
<1> DEFINE waiting == {mcp[c].responseChannels[n] : n \in Ids} \ {None}
<1>1. panic' = "respChan" /\ \E k \in waiting : call[k].respChan # "open"
  BY DEF CloseChannels
<1>2. PICK k \in waiting : call[k].respChan # "open" BY <1>1
<1>3. k \in Calls /\ Busy(k) /\ call[k].at = c BY <1>2, NoCalls DEF ChannelInv
<1>4. call'[k] = [call[k] EXCEPT !.respChan = "closed"]
  <2>1. call'[k] = IF k \in waiting THEN [call[k] EXCEPT !.respChan = "closed"] ELSE call[k]
    BY <1>3 DEF CloseChannels
  <2> HIDE DEF waiting
  <2> QED BY <2>1
<1>5. call'[k].pc = call[k].pc /\ call'[k].at = call[k].at BY <1>3, <1>4 DEF Call
<1>6. mcp'[c].stopChan
  <2>1. mcp[c].stopChan BY DEF CloseChannels, ClosedInv, ClosedOK
  <2> QED BY <2>1, Lasting
<1> QED BY <1>1, <1>3, <1>5, <1>6 DEF Overtaken, Busy

\* ... or by a message
LEMMA HandleMessageCause ==
    ASSUME TypeOK, CountInv, IdInv, CallInv, ServerInv, ChannelInv, SetupInv, EarlyInv,
           FirstIdsInv, AnswerInv, [Next]_vars, NEW c \in Clients, HandleMessage(c),
           panic' # None, panic = None
    PROVE  /\ panic' = "respChan"
           /\ \E k \in Calls : /\ Busy(k)' /\ call'[k].at = c
                               /\ \/ mcp'[c].stopChan \/ mcp'[c].doubled \/ Reopened(c)'
                                  \/ NumbersUsed(c)' \/ \E j \in Calls : Early(j, c)'
<1> USE FieldTypes
<1> DEFINE i(r) == mcp[c].responseChannels[r.id]
<1>1. PICK r \in server :
        /\ r.to = c /\ i(r) # None
        /\ call[i(r)].respChan # "open" /\ panic' = "respChan"
        /\ call' = [call EXCEPT ![i(r)].respChan = r.what]
  BY DEF HandleMessage
<1>2. PICK k \in Calls : k = i(r)
  <2>1. r.id \in Ids BY DEF TypeOK
  <2> QED BY <1>1, <2>1
<1>3. Busy(k) /\ call[k].at = c
  <2>1. r.id \in Ids BY DEF TypeOK
  <2> QED BY <1>2, <2>1, NoCalls DEF ChannelInv
<1>4. call'[k].pc = call[k].pc /\ call'[k].at = call[k].at
  <2>1. call'[k] = [call[k] EXCEPT !.respChan = r.what] BY <1>1, <1>2
  <2> QED BY <2>1 DEF Call
<1>5. ~Clean(c)
  <2>1. SUFFICES ASSUME Clean(c) PROVE FALSE OBVIOUS
  <2>2. r.what = k BY <1>1, <1>2, <2>1, Mine
  <2>3. AnswerOK(k) BY DEF AnswerInv
  <2> QED BY <1>1, <1>2, <1>3, <2>1, <2>2, <2>3 DEF AnswerOK, Busy
<1>6. mcp[c].endpointURL > 1 => Reopened(c)'
  <2>1. mcp'[c].endpointURL \in Nat /\ mcp'[c].endpointURL >= mcp[c].endpointURL
    BY CountersGrow
  <2> QED BY <2>1 DEF Reopened
<1>7. ASSUME NEW j \in Calls, Early(j, c) PROVE Early(j, c)' BY <1>7, EarlyStays
<1>8. mcp[c].endpointURL > 1 \/ mcp[c].endpointURL <= 1 OBVIOUS
<1>9. \/ mcp'[c].stopChan \/ mcp'[c].doubled \/ Reopened(c)'
      \/ NumbersUsed(c)' \/ \E j \in Calls : Early(j, c)'
  BY <1>5, <1>6, <1>7, <1>8, Lasting, NumbersUsedStay DEF Clean, Prompt
<1> QED BY <1>1, <1>3, <1>4, <1>9 DEF Busy

\* Every step that panics has one of the causes
LEMMA PanicStep ==
    ASSUME IInv, PInv, [Next]_vars
    PROVE  PanicsHaveCauses'
<1> USE FieldTypes DEF IInv, PInv
<1> DEFINE Some == panic' # None /\ panic = None
<1>1. ASSUME panic' = None PROVE PanicsHaveCauses'
  BY <1>1, NamesAssumption DEF PanicsHaveCauses
<1>2. ASSUME NEW c \in Clients, NEW by \in Closers, Close(c, by), Some PROVE PanicsHaveCauses'
  <2>1. CASE CloseStop(c, by) BY <1>2, <2>1, StopChanCause DEF PanicsHaveCauses
  <2>2. CASE CloseClient(c, by) BY <1>2, <2>2 DEF CloseClient
  <2>3. CASE CloseChannels(c, by)
    <3>1. panic' = "respChan" /\ \E k \in Calls : Overtaken(k)'
      BY <1>2, <2>3, CloseChannelsCause
    <3> QED BY <3>1 DEF PanicsHaveCauses, Overtaken
  <2> QED BY <1>2, <2>1, <2>2, <2>3 DEF Close
<1>3. ASSUME NEW c \in Clients, Disconnect(c), Some PROVE PanicsHaveCauses'
  <2>1. /\ panic' = "ReconnectChan"
        /\ \/ mcp'[c].losses > 1
           \/ \E k \in Calls : Early(k, c)' /\ mcp'[c].losses > 0
    BY <1>3, DisconnectCause
  <2> QED BY <2>1 DEF PanicsHaveCauses
<1>4. ASSUME NEW c \in Clients, HandleMessage(c), Some PROVE PanicsHaveCauses'
  <2>1. PICK k \in Calls : /\ Busy(k)' /\ call'[k].at = c /\ panic' = "respChan"
                           /\ \/ mcp'[c].stopChan \/ mcp'[c].doubled \/ Reopened(c)'
                              \/ NumbersUsed(c)' \/ \E j \in Calls : Early(j, c)'
    BY <1>4, HandleMessageCause
  <2>2. \/ Overtaken(k)' \/ mcp'[call'[k].at].doubled \/ Reopened(call[k].at)'
        \/ NumbersUsed(call[k].at)' \/ \E j \in Calls : Early(j, call[k].at)'
    BY <2>1 DEF Overtaken, Reopened, NumbersUsed, Early
  <2> QED BY <2>1, <2>2 DEF PanicsHaveCauses
<1>5. ASSUME NEW c \in Clients, AskInitialize(c) \/ AskTools(c), Some PROVE PanicsHaveCauses'
  <2>1. mcp[c].asking > 0 \/ mcp[c].listing > 0 BY <1>5 DEF AskInitialize, AskTools
  <2>2. \/ panic' = "client" /\ ~mcp[c].client
        \/ panic' = "initChan" /\ mcp[c].initChan /\ mcp[c].listing > 0
    BY <1>5 DEF AskInitialize, AskTools
  <2>3. CASE panic' = "client" /\ ~mcp[c].client
    <3>1. initFailed' \/ Reopened(c)' BY <2>1, <2>3, ClientCause
    <3> QED BY <2>3, <3>1 DEF PanicsHaveCauses
  <2>4. CASE panic' = "initChan" /\ mcp[c].initChan /\ mcp[c].listing > 0
    <3>1. mcp[c].endpointURL > 1 BY <2>4 DEF EndpointInv, EndpointOK
    <3>2. mcp'[c].endpointURL \in Nat /\ mcp'[c].endpointURL >= mcp[c].endpointURL
      BY CountersGrow
    <3>3. Reopened(c)' BY <3>1, <3>2 DEF Reopened
    <3> QED BY <2>4, <3>3 DEF PanicsHaveCauses
  <2> QED BY <2>2, <2>3, <2>4
<1>6. ASSUME NEW k \in Calls, Post(k), Some PROVE PanicsHaveCauses'
  <2>1. /\ panic' = "client" /\ ~mcp[call[k].at].client /\ call[k].pc = "registered"
        /\ mcp' = mcp /\ call' = [call EXCEPT ![k].pc = "posting"]
    BY <1>6 DEF Post
  <2>2. call[k].at \in Clients BY <2>1 DEF CallInv, CallOK
  <2>3. mcp[call[k].at].stopChan BY <2>1, <2>2 DEF ClosedInv, ClosedOK
  <2>4. call'[k].pc = "posting" /\ call'[k].at = call[k].at BY <2>1 DEF Call
  <2>5. Overtaken(k)' BY <2>1, <2>3, <2>4 DEF Overtaken, Busy
  <2> QED BY <2>1, <2>5 DEF PanicsHaveCauses
<1>7. ASSUME NEW k \in Calls, PostFails(k), Some PROVE PanicsHaveCauses'
  <2>1. PICK c : c = call[k].at OBVIOUS
  <2>2. \/ panic' = "client" /\ Overtaken(k)'
        \/ /\ panic' = "ReconnectChan"
           /\ \/ mcp'[c].losses > 1
              \/ \E i \in Calls : Early(i, c)' /\ (\/ mcp'[c].losses > 0
                                                    \/ \E j \in Calls \ {i} : Early(j, c)')
    BY <1>7, <2>1, PostFailsCause
  <2>3. c \in Clients BY <1>7, <2>1, PostFailsMoves
  <2>4. CASE panic' = "client" /\ Overtaken(k)' BY <2>4 DEF PanicsHaveCauses
  <2>5. CASE panic' = "ReconnectChan" BY <2>2, <2>3, <2>5 DEF PanicsHaveCauses
  <2> QED BY <2>2, <2>4, <2>5
<1>8. ASSUME UpdateTools, Some PROVE PanicsHaveCauses'
  <2>1. panic' = "sseClient" /\ sseClient = 0 /\ setup.pc = "returned" /\ ctx' = ctx
    BY <1>8 DEF UpdateTools
  <2>2. ~ctx' BY <1>8, <2>1 DEF SetupInv
  <2> QED BY <2>1, <2>2 DEF PanicsHaveCauses
<1>9. CASE UNCHANGED vars
  BY <1>9 DEF vars, PanicsHaveCauses, Reopened, NumbersUsed, Early, Overtaken, Busy
<1>10. ASSUME NEW c \in Clients,
              Connect(c) \/ ConnectFails(c) \/ Endpoint(c) \/ StopEvents(c)
       PROVE  panic' = panic
  BY <1>10 DEF Connect, ConnectFails, Endpoint, StopEvents
<1>11. ASSUME NEW k \in Calls,
              CallTool(k) \/ CallFunction(k) \/ Posted(k) \/ Answer(k) \/ Timeout(k)
       PROVE  panic' = panic
  BY <1>11 DEF CallTool, CallFunction, Posted, Answer, Timeout
<1>12. ASSUME Routine \/ InitTimeout \/ Cancel \/ SetupCancelled \/ GotTools
       PROVE  panic' = panic
  BY <1>12 DEF Routine, Start, OldClosed, Initialized, Reconnect, Stop, InitTimeout, Cancel,
               SetupCancelled, GotTools
<1> HIDE DEF IInv, PInv
<1>13. CASE Next
  <2>1. panic = None BY <1>13 DEF Next
  <2> SUFFICES ASSUME Some PROVE PanicsHaveCauses' BY <1>1, <2>1
  <2> QED BY <1>2, <1>3, <1>4, <1>5, <1>6, <1>7, <1>8, <1>10, <1>11, <1>12, <1>13
          DEF Next, Setup, Client, Network, Step
<1> QED BY <1>9, <1>13

\* The invariant holds at the start
LEMMA InitPInv ==
    ASSUME Init
    PROVE  PInv
<1>1. /\ mcp = [c \in Clients |-> NewSSEClient] /\ sseClient = 0 /\ routine = "start"
      /\ server = {} /\ panic = None
      /\ \A k \in Calls : /\ call[k].pc = "unused" /\ call[k].id = 0
                          /\ ~call[k].early /\ call[k].respChan = "open"
  BY DEF Init
<1>2. \A c \in Clients : mcp[c] = NewSSEClient BY <1>1
<1>3. \A c \in Clients : /\ mcp[c].client /\ ~mcp[c].stopChan /\ ~mcp[c].ReconnectChan
                         /\ ~mcp[c].initChan /\ c \in Int /\ c > 0
                         /\ \A by \in Closers : mcp[c].closing[by] = "no"
  BY <1>2 DEF NewSSEClient, Clients
<1>4. ClosedInv BY <1>3 DEF ClosedInv, ClosedOK
<1>5. OrderInv BY <1>1, <1>3 DEF OrderInv, OrderOK, Closers
<1>6. EarlyInv /\ LossInv BY <1>1, <1>3 DEF EarlyInv, EarlyOK, LossInv, LossOK
<1>7. FreshInv /\ FirstIdsInv /\ AnswerInv
  BY <1>1 DEF FreshInv, FirstIdsInv, AnswerInv, AnswerOK
<1>8. PanicsHaveCauses BY <1>1, NamesAssumption DEF PanicsHaveCauses
<1> QED BY <1>4, <1>5, <1>6, <1>7, <1>8 DEF PInv

\* Whatever the network, the server and the callers do, and whenever the context ends, each
\* panic of the client has the cause that PanicsHaveCauses names: without an initialisation
\* that failed no client is closed twice, without a stream opened again initChan is closed
\* once, and no channel of a call is closed twice but where a call in progress meets a
\* replaced client, an answer given twice or a number that two requests share
THEOREM PanicsExplained == Spec => []PanicsHaveCauses
<1>1. Init => PInv BY InitPInv
<1>2. IInv /\ IInv' /\ PInv /\ [Next]_vars => PInv'
  BY ClosedStep, OrderStep, EarlyStep, LossStep, FreshStep, FirstIdsStep, AnswerStep, PanicStep
  DEF IInv, PInv
<1>3. PInv => PanicsHaveCauses BY DEF PInv
<1> QED BY <1>1, <1>2, <1>3, Invariance, PTL DEF Spec
=============================================================================
