-------------------------- MODULE MCPClient_proofs --------------------------
(***************************************************************************)
(* Proofs about MCPClient, for any number of calls and clients, any number *)
(* of faults and any range of request numbers.                             *)
(***************************************************************************)
EXTENDS MCPClient, FiniteSetTheorems, TLAPS

USE DEF fatal, Panic

-----------------------------------------------------------------------------
(* The inductive invariant *)

\* The calls that took a number of client c, and how many numbers c took for itself at most
Numbered(c) == {j \in Calls : call[j].at = c /\ call[j].id > 0}
Borrowed(c) == mcp[c].endpointURL - mcp[c].asking - mcp[c].listing
Used(c) == Cardinality(Numbered(c)) + Borrowed(c)

\* A stream that is opened again costs a fault, and each asks for the tools at most once
CountOK(c) ==
    /\ mcp[c].asking + mcp[c].listing <= mcp[c].endpointURL
    /\ mcp[c].endpointURL <= faults + 1
    /\ mcp[c].messageID <= Used(c)
CountInv == \A c \in Clients : CountOK(c)

\* As long as the numbers are not used up, no two calls have the same
IdOK(c) ==
    Used(c) < WrapId =>
        /\ \A j \in Numbered(c) : call[j].id <= mcp[c].messageID
        /\ \A j, k \in Numbered(c) : call[j].id = call[k].id => j = k
IdInv == \A c \in Clients : IdOK(c)

\* A call that has no number yet has not been answered, and what answers a call has its
\* number on its client
Same(j, k) == call[j].at = call[k].at /\ call[j].id = call[k].id
CallOK(k) ==
    /\ call[k].pc # "unused" =>
          setup.pc = "ready" /\ call[k].at \in Clients /\ call[k].at <= sseClient
    /\ call[k].pc = "unused" => call[k].at = None
    /\ call[k].pc \in {"unused", "loaded"} <=> call[k].id = 0
    /\ call[k].respChan \in Calls => Same(call[k].respChan, k) /\ call[k].id > 0
    /\ call[k].result \in Calls => Same(call[k].result, k) /\ call[k].id > 0
CallInv == \A k \in Calls : CallOK(k)

\* A request of a call carries its number to its client
ServerInv ==
    \A r \in server : r.what \in Calls =>
        call[r.what].at = r.to /\ call[r.what].id = r.id /\ r.id > 0

\* NoDeadChannel, and that no channel is registered before its call took the number
ChannelInv ==
    \A c \in Clients : \A n \in Ids :
        LET k == mcp[c].responseChannels[n] IN
        k # None => Busy(k) /\ call[k].pc # "loaded" /\ call[k].at = c /\ call[k].id = n

\* What is known of the tools came of an endpoint; an endpoint that came once asks once
Told(c) == mcp[c].tools \/ mcp[c].initChan \/ \E r \in server : r.to = c /\ r.what = "tools"
EndpointOK(c) ==
    /\ Told(c) => mcp[c].endpointURL > 0
    /\ mcp[c].endpointURL <= 1 /\ mcp[c].initChan => mcp[c].asking = 0 /\ mcp[c].listing = 0
EndpointInv == \A c \in Clients : EndpointOK(c)

\* RunRoutine is past its start with a client, which NewSSEFuncCall polls
SetupInv ==
    /\ routine # "start" => sseClient > 0
    /\ ~fatal =>
        /\ ctx /\ setup.pc # "waits" => sseClient > 0
        /\ setup.pc \in {"polls", "ready", "none"} =>
              setup.at \in Clients /\ setup.at <= sseClient
        /\ setup.pc = "ready" => mcp[setup.at].tools

IInv ==
    /\ TypeOK /\ CountInv /\ IdInv /\ CallInv /\ ServerInv /\ ChannelInv
    /\ EndpointInv /\ SetupInv

-----------------------------------------------------------------------------
(* Counting *)

\* Calls that took a number of a client are finitely many
LEMMA CallCounts ==
    ASSUME NEW S, S \subseteq Calls
    PROVE  /\ IsFiniteSet(S) /\ Cardinality(S) \in Nat
           /\ Cardinality(S) <= Cardinality(Calls)
           /\ Cardinality(Calls) \in Nat
BY CallsAssumption, FS_Subset, FS_CardinalityType

\* Every number that a client has or can come to have is one of Ids
LEMMA IdBound ==
    ASSUME NEW n \in Nat, NEW c \in Clients, TypeOK, CountInv,
           n <= Cardinality(Calls) + mcp[c].endpointURL
    PROVE  n \in Ids
<1>1. Cardinality(Calls) \in Nat BY CallCounts
<1>2. mcp[c].endpointURL \in Nat /\ faults \in 0..MaxFaults
  BY DEF TypeOK, MCPSSEClient
<1>3. mcp[c].endpointURL <= faults + 1 BY DEF CountInv, CountOK
<1> QED BY <1>1, <1>2, <1>3, IdAssumption, BoundAssumption DEF Ids

\* NextId is a number, and its next one or one that is smaller
LEMMA NextIdFacts ==
    ASSUME NEW n \in Nat
    PROVE  /\ NextId(n) \in Nat /\ NextId(n) > 0 /\ NextId(n) <= n + 1
           /\ n + 1 # WrapId => NextId(n) = n + 1
BY IdAssumption DEF NextId

-----------------------------------------------------------------------------
(* Types *)

\* A client stays one when a field is given a value of its type
LEMMA ClientUpdates ==
    ASSUME NEW m \in MCPSSEClient
    PROVE  /\ \A x \in {"none", "connecting", "up", "failed"} :
                 [m EXCEPT !.conn = x] \in MCPSSEClient
           /\ \A b \in BOOLEAN : /\ [m EXCEPT !.events = b] \in MCPSSEClient
                                 /\ [m EXCEPT !.client = b] \in MCPSSEClient
                                 /\ [m EXCEPT !.stopChan = b] \in MCPSSEClient
                                 /\ [m EXCEPT !.ReconnectChan = b] \in MCPSSEClient
                                 /\ [m EXCEPT !.initChan = b] \in MCPSSEClient
                                 /\ [m EXCEPT !.tools = b] \in MCPSSEClient
                                 /\ [m EXCEPT !.doubled = b] \in MCPSSEClient
           /\ \A n \in Nat : /\ [m EXCEPT !.asking = n] \in MCPSSEClient
                             /\ [m EXCEPT !.listing = n] \in MCPSSEClient
                             /\ [m EXCEPT !.endpointURL = n] \in MCPSSEClient
                             /\ [m EXCEPT !.losses = n] \in MCPSSEClient
           /\ \A n \in Ids : [m EXCEPT !.messageID = n] \in MCPSSEClient
           /\ \A r \in [Ids -> Calls \cup {None}] :
                 [m EXCEPT !.responseChannels = r] \in MCPSSEClient
           /\ \A n \in Ids, k \in Calls \cup {None} :
                 [m EXCEPT !.responseChannels[n] = k] \in MCPSSEClient
           /\ \A by \in Closers, x \in {"no", "begin", "unsubscribe", "channels", "end"} :
                 [m EXCEPT !.closing[by] = x] \in MCPSSEClient
BY DEF MCPSSEClient

\* A call stays one when a field is given a value of its type
LEMMA CallUpdates ==
    ASSUME NEW k \in Call
    PROVE  /\ \A x \in {"unused", "loaded", "registered", "posting", "waiting", "returned"} :
                 [k EXCEPT !.pc = x] \in Call
           /\ \A c \in Clients \cup {None} : [k EXCEPT !.at = c] \in Call
           /\ \A n \in Ids : [k EXCEPT !.id = n] \in Call
           /\ \A b \in BOOLEAN : [k EXCEPT !.early = b] \in Call
           /\ \A x \in Asked \cup {"open", "closed"} : [k EXCEPT !.respChan = x] \in Call
           /\ \A x \in Asked \cup {None, "failed", "timeout", "closed"} :
                 [k EXCEPT !.result = x] \in Call
BY DEF Call

\* The steps of RunRoutine, Init, NewSSEFuncCall and Close keep the types
LEMMA RoutineTypes ==
    ASSUME TypeOK, \/ Routine \/ InitTimeout \/ Cancel \/ Setup
                   \/ \E c \in Clients, by \in Closers : Close(c, by)
    PROVE  TypeOK'
<1>0. "routine" \in Closers /\ 1 \in Clients BY BoundAssumption DEF Closers, Clients
<1>11. Fault => faults' \in 0..MaxFaults BY BoundAssumption DEF Fault, TypeOK
<1>1. CASE Start
  <2>1. CASE sseClient = 0
    <3>1. mcp' = [mcp EXCEPT ![1].conn = "connecting"] BY <1>1, <2>1 DEF Start
    <3>2. mcp' \in [Clients -> MCPSSEClient] BY <1>0, <3>1, ClientUpdates DEF TypeOK
    <3> QED BY <1>1, <2>1, <3>2, BoundAssumption DEF Start, TypeOK
  <2>2. CASE sseClient # 0
    <3>1. mcp' = [mcp EXCEPT ![sseClient].closing["routine"] = "begin"]
      BY <1>1, <2>2 DEF Start
    <3>2. mcp' \in [Clients -> MCPSSEClient] BY <1>0, <3>1, ClientUpdates DEF TypeOK
    <3> QED BY <1>1, <2>2, <3>2, BoundAssumption DEF Start, TypeOK
  <2> QED BY <2>1, <2>2
<1>2. CASE OldClosed
  <2>1. mcp' \in [Clients -> MCPSSEClient] BY <1>2, ClientUpdates DEF OldClosed, TypeOK
  <2> QED BY <1>2, <2>1 DEF OldClosed, TypeOK
<1>3. CASE Initialized BY <1>3 DEF Initialized, TypeOK
<1>4. CASE InitTimeout \/ Stop
  <2>1. mcp' = [mcp EXCEPT ![sseClient].closing["routine"] = "begin"]
    BY <1>4 DEF InitTimeout, Stop
  <2>2. mcp' \in [Clients -> MCPSSEClient] BY <1>0, <2>1, ClientUpdates DEF TypeOK
  <2>3. CASE InitTimeout
    <3>1. faults' \in 0..MaxFaults BY <2>3, <1>11 DEF InitTimeout
    <3> QED BY <2>2, <2>3, <3>1 DEF InitTimeout, TypeOK
  <2>4. CASE Stop BY <2>2, <2>4 DEF Stop, TypeOK
  <2> QED BY <1>4, <2>3, <2>4
<1>5. CASE Reconnect BY <1>5 DEF Reconnect, TypeOK
<1>6. CASE Cancel
  <2>1. faults' \in 0..MaxFaults BY <1>6, <1>11 DEF Cancel
  <2> QED BY <1>6, <2>1 DEF Cancel, TypeOK
<1>7. CASE Setup
  <2>1. setup' \in [pc : {"waits", "returned", "polls", "ready", "none"}, at : Clients \cup {None}]
    <3>1. CASE SetupCancelled BY <3>1 DEF SetupCancelled, TypeOK
    <3>2. CASE UpdateTools BY <3>2 DEF UpdateTools, TypeOK, Clients
    <3>3. CASE GotTools BY <3>3 DEF GotTools, TypeOK
    <3> QED BY <1>7, <3>1, <3>2, <3>3 DEF Setup
  <2>2. panic' \in Panics \cup {None}
    BY <1>7 DEF Setup, SetupCancelled, UpdateTools, GotTools, TypeOK, Panics
  <2> QED BY <1>7, <2>1, <2>2 DEF Setup, SetupCancelled, UpdateTools, GotTools, TypeOK
<1>8. ASSUME NEW c \in Clients, NEW by \in Closers, CloseStop(c, by) PROVE TypeOK'
  <2> DEFINE m == [mcp[c] EXCEPT !.closing[by] = "unsubscribe"]
  <2>1. m \in MCPSSEClient BY ClientUpdates DEF TypeOK
  <2>2. [m EXCEPT !.stopChan = TRUE] \in MCPSSEClient BY <2>1, ClientUpdates
  <2>3. mcp' = [mcp EXCEPT ![c] = [m EXCEPT !.stopChan = TRUE]]
    BY <1>8 DEF CloseStop, TypeOK
  <2>4. mcp' \in [Clients -> MCPSSEClient] BY <2>2, <2>3 DEF TypeOK
  <2>5. panic' \in Panics \cup {None} BY <1>8 DEF CloseStop, Panics
  <2> QED BY <1>8, <2>4, <2>5 DEF CloseStop, TypeOK
<1>9. ASSUME NEW c \in Clients, NEW by \in Closers, CloseClient(c, by) PROVE TypeOK'
  <2> DEFINE m == [mcp[c] EXCEPT !.closing[by] = "channels"]
  <2>1. m \in MCPSSEClient BY ClientUpdates DEF TypeOK
  <2>2. [m EXCEPT !.client = FALSE] \in MCPSSEClient BY <2>1, ClientUpdates
  <2>3. mcp' = [mcp EXCEPT ![c] = [m EXCEPT !.client = FALSE]]
    BY <1>9 DEF CloseClient, TypeOK
  <2>4. mcp' \in [Clients -> MCPSSEClient] BY <2>2, <2>3 DEF TypeOK
  <2> QED BY <1>9, <2>4 DEF CloseClient, TypeOK
<1>10. ASSUME NEW c \in Clients, NEW by \in Closers, CloseChannels(c, by) PROVE TypeOK'
  <2> DEFINE m == [mcp[c] EXCEPT !.closing[by] = "end"]
             none == [n \in Ids |-> None]
             waiting == {mcp[c].responseChannels[n] : n \in Ids} \ {None}
  <2>1. m \in MCPSSEClient BY ClientUpdates DEF TypeOK
  <2>2. [m EXCEPT !.responseChannels = none] \in MCPSSEClient BY <2>1, ClientUpdates
  <2>3. mcp' = [mcp EXCEPT ![c] = [m EXCEPT !.responseChannels = none]]
    BY <1>10 DEF CloseChannels, TypeOK
  <2>4. mcp' \in [Clients -> MCPSSEClient] BY <2>2, <2>3 DEF TypeOK
  <2>5. /\ call' = [k \in Calls |-> IF k \in waiting THEN [call[k] EXCEPT !.respChan = "closed"]
                                     ELSE call[k]]
        /\ panic' \in {"respChan", None}
    BY <1>10 DEF CloseChannels
  <2>6. call' \in [Calls -> Call]
    <3> HIDE DEF waiting
    <3> QED BY <2>5, CallUpdates DEF TypeOK
  <2>7. panic' \in Panics \cup {None} BY <2>5 DEF Panics
  <2> QED BY <1>10, <2>4, <2>6, <2>7 DEF CloseChannels, TypeOK
<1> QED BY <1>1, <1>2, <1>3, <1>4, <1>5, <1>6, <1>7, <1>8, <1>9, <1>10 DEF Routine, Close

\* What a step asks keeps the type of the server's requests
LEMMA AskType ==
    ASSUME TypeOK, NEW c \in Clients, NEW n \in Ids, NEW what \in Asked, Ask(c, n, what)
    PROVE  server' \subseteq [to : Clients, id : Ids, what : Asked]
BY DEF Ask, TypeOK

\* The steps of the stream and of initializeEndpoint keep the types
LEMMA ClientTypes ==
    ASSUME TypeOK, CountInv, NEW c \in Clients,
           \/ Network(c) \/ StopEvents(c) \/ AskInitialize(c) \/ AskTools(c)
    PROVE  TypeOK'
<1>0. mcp[c] \in MCPSSEClient /\ "connect" \in Closers BY DEF TypeOK, Closers
<1>1. /\ mcp[c].asking \in Nat /\ mcp[c].listing \in Nat /\ mcp[c].endpointURL \in Nat
      /\ mcp[c].messageID \in Nat /\ mcp[c].messageID \in Ids
      /\ mcp[c].client \in BOOLEAN /\ mcp[c].initChan \in BOOLEAN
      /\ mcp[c].ReconnectChan \in BOOLEAN /\ mcp[c].tools \in BOOLEAN
      /\ faults \in 0..MaxFaults
  BY <1>0 DEF TypeOK, MCPSSEClient, Ids
<1>2. CASE Connect(c)
  <2> DEFINE m == [mcp[c] EXCEPT !.conn = "up"]
  <2>1. m \in MCPSSEClient BY <1>0, ClientUpdates
  <2>2. [m EXCEPT !.events = TRUE] \in MCPSSEClient BY <2>1, ClientUpdates
  <2>3. mcp' = [mcp EXCEPT ![c] = [m EXCEPT !.events = TRUE]] BY <1>2 DEF Connect, TypeOK
  <2>4. mcp' \in [Clients -> MCPSSEClient] BY <2>2, <2>3 DEF TypeOK
  <2> QED BY <1>2, <2>4 DEF Connect, TypeOK
<1>3. CASE ConnectFails(c)
  <2> DEFINE m == [mcp[c] EXCEPT !.conn = "failed"]
  <2>1. m \in MCPSSEClient BY <1>0, ClientUpdates
  <2>2. [m EXCEPT !.closing["connect"] = "begin"] \in MCPSSEClient
    BY <1>0, <2>1, ClientUpdates
  <2>3. mcp' = [mcp EXCEPT ![c] = [m EXCEPT !.closing["connect"] = "begin"]]
    BY <1>3 DEF ConnectFails, TypeOK
  <2>4. mcp' \in [Clients -> MCPSSEClient] BY <2>2, <2>3 DEF TypeOK
  <2> QED BY <1>3, <2>4, BoundAssumption DEF ConnectFails, Fault, TypeOK
<1>4. CASE Disconnect(c)
  <2> DEFINE m == [mcp[c] EXCEPT !.ReconnectChan = TRUE]
  <2>0. mcp[c].losses + 1 \in Nat BY <1>0 DEF MCPSSEClient
  <2>1. m \in MCPSSEClient BY <1>0, ClientUpdates
  <2>2. [m EXCEPT !.losses = mcp[c].losses + 1] \in MCPSSEClient
    <3> HIDE DEF m
    <3> QED BY <2>0, <2>1, ClientUpdates
  <2>3. mcp' = [mcp EXCEPT ![c] = [m EXCEPT !.losses = mcp[c].losses + 1]]
    BY <1>0, <1>4 DEF Disconnect, TypeOK, MCPSSEClient
  <2>4. mcp' \in [Clients -> MCPSSEClient]
    <3> HIDE DEF m
    <3> QED BY <2>2, <2>3 DEF TypeOK
  <2>5. panic' \in Panics \cup {None} BY <1>4 DEF Disconnect, Panics
  <2> QED BY <1>1, <1>4, <2>4, <2>5, BoundAssumption DEF Disconnect, Fault, TypeOK
<1>5. CASE StopEvents(c)
  <2>1. mcp' \in [Clients -> MCPSSEClient] BY <1>0, <1>5, ClientUpdates DEF StopEvents, TypeOK
  <2> QED BY <1>5, <2>1 DEF StopEvents, TypeOK
<1>6. CASE Endpoint(c)
  <2> DEFINE m == [mcp[c] EXCEPT !.endpointURL = mcp[c].endpointURL + 1]
  <2>0. mcp[c].endpointURL + 1 \in Nat /\ mcp[c].asking + 1 \in Nat BY <1>1
  <2>1. m \in MCPSSEClient BY <1>0, <2>0, ClientUpdates
  <2>2. [m EXCEPT !.asking = mcp[c].asking + 1] \in MCPSSEClient
    <3> HIDE DEF m
    <3> QED BY <2>0, <2>1, ClientUpdates
  <2>3. mcp' = [mcp EXCEPT ![c] = [m EXCEPT !.asking = mcp[c].asking + 1]]
    BY <1>0, <1>6 DEF Endpoint, TypeOK, MCPSSEClient
  <2>4. mcp' \in [Clients -> MCPSSEClient] BY <2>2, <2>3 DEF TypeOK
  <2> QED BY <1>1, <1>6, <2>4, BoundAssumption DEF Endpoint, Fault, TypeOK
<1>7. CASE HandleMessage(c)
  <2>1. PICK r \in server :
          LET k == mcp[c].responseChannels[r.id] IN
          /\ \/ /\ server' = server \ {r} /\ UNCHANGED faults
                /\ mcp' = [mcp EXCEPT ![c].tools = @ \/ (r.id = 1 /\ r.what = "tools")]
             \/ /\ UNCHANGED server /\ Fault
                /\ mcp' = [mcp EXCEPT ![c].tools = @ \/ (r.id = 1 /\ r.what = "tools"),
                                      ![c].doubled = TRUE]
          /\ IF k = None THEN UNCHANGED <<call, panic>>
             ELSE /\ Panic(call[k].respChan # "open", "respChan")
                  /\ call' = [call EXCEPT ![k].respChan = r.what]
    BY <1>7 DEF HandleMessage
  <2>2. r.what \in Asked BY DEF TypeOK
  <2>3. mcp' \in [Clients -> MCPSSEClient]
    <3> DEFINE b == mcp[c].tools \/ (r.id = 1 /\ r.what = "tools")
               m == [mcp[c] EXCEPT !.tools = b]
    <3>1. b \in BOOLEAN BY <1>1
    <3>2. m \in MCPSSEClient
      <4> HIDE DEF b
      <4> QED BY <1>0, <3>1, ClientUpdates
    <3>3. [m EXCEPT !.doubled = TRUE] \in MCPSSEClient
      <4> HIDE DEF m
      <4> QED BY <3>2, ClientUpdates
    <3>4. \/ mcp' = [mcp EXCEPT ![c] = m]
          \/ mcp' = [mcp EXCEPT ![c] = [m EXCEPT !.doubled = TRUE]]
      BY <1>0, <2>1 DEF TypeOK, MCPSSEClient
    <3> HIDE DEF m
    <3> QED BY <3>2, <3>3, <3>4 DEF TypeOK
  <2>4. call' \in [Calls -> Call]
    <3>1. call' = call \/ \E k \in Calls : call' = [call EXCEPT ![k].respChan = r.what]
      <4>1. r.id \in Ids BY DEF TypeOK
      <4>2. mcp[c].responseChannels[r.id] \in Calls \cup {None}
        BY <1>0, <4>1 DEF MCPSSEClient
      <4> QED BY <2>1, <4>2
    <3>2. ASSUME NEW k \in Calls, call' = [call EXCEPT ![k].respChan = r.what]
          PROVE  call' \in [Calls -> Call]
      <4>1. call[k] \in Call BY DEF TypeOK
      <4>2. [call[k] EXCEPT !.respChan = r.what] \in Call BY <2>2, <4>1, CallUpdates
      <4> QED BY <3>2, <4>2 DEF TypeOK
    <3> QED BY <3>1, <3>2 DEF TypeOK
  <2>5. panic' \in Panics \cup {None} BY <2>1 DEF TypeOK, Panics
  <2>6. server' \subseteq server /\ faults' \in 0..MaxFaults
    BY <1>1, <2>1, BoundAssumption DEF Fault
  <2> QED BY <1>7, <2>3, <2>4, <2>5, <2>6 DEF HandleMessage, TypeOK
<1>8. CASE AskInitialize(c)
  <2> DEFINE m == [mcp[c] EXCEPT !.asking = mcp[c].asking - 1]
  <2>1. mcp[c].asking - 1 \in Nat /\ mcp[c].listing + 1 \in Nat
    BY <1>1, <1>8 DEF AskInitialize
  <2>2. m \in MCPSSEClient BY <1>0, <2>1, ClientUpdates
  <2>3. [m EXCEPT !.listing = mcp[c].listing + 1] \in MCPSSEClient
    <3> HIDE DEF m
    <3> QED BY <2>1, <2>2, ClientUpdates
  <2>4. \/ mcp' = [mcp EXCEPT ![c] = [m EXCEPT !.listing = mcp[c].listing + 1]]
        \/ mcp' = [mcp EXCEPT ![c] = m]
    BY <1>0, <1>8 DEF AskInitialize, TypeOK, MCPSSEClient
  <2>5. mcp' \in [Clients -> MCPSSEClient] BY <2>2, <2>3, <2>4 DEF TypeOK
  <2>6. server' \subseteq [to : Clients, id : Ids, what : Asked]
    BY <1>1, <1>8, AskType DEF AskInitialize, Asked
  <2>7. faults' \in 0..MaxFaults BY <1>1, <1>8, BoundAssumption DEF AskInitialize, Fault
  <2>8. panic' \in Panics \cup {None} BY <1>8 DEF AskInitialize, Panics
  <2> QED BY <1>8, <2>5, <2>6, <2>7, <2>8 DEF AskInitialize, TypeOK
<1>9. CASE AskTools(c)
  <2> DEFINE n == mcp[c].messageID + 1
             m == [[mcp[c] EXCEPT !.listing = mcp[c].listing - 1] EXCEPT !.messageID = n]
  <2>1. mcp[c].listing - 1 \in Nat /\ mcp[c].listing > 0 BY <1>1, <1>9 DEF AskTools
  <2>2. n \in Ids
    <3>1. n <= Cardinality(Calls) + mcp[c].endpointURL
      <4>1. /\ Cardinality(Numbered(c)) <= Cardinality(Calls)
            /\ Cardinality(Numbered(c)) \in Nat /\ Cardinality(Calls) \in Nat
        BY CallCounts DEF Numbered
      <4>2. CountOK(c) BY DEF CountInv
      <4> QED BY <1>1, <2>1, <4>1, <4>2 DEF CountOK, Used, Borrowed
    <3>2. n \in Nat BY <1>1
    <3> QED BY <3>1, <3>2, IdBound
  <2>3. m \in MCPSSEClient
    <3> DEFINE l == [mcp[c] EXCEPT !.listing = mcp[c].listing - 1]
    <3>1. l \in MCPSSEClient BY <1>0, <2>1, ClientUpdates
    <3> HIDE DEF l, n
    <3>2. [l EXCEPT !.messageID = n] \in MCPSSEClient BY <2>2, <3>1, ClientUpdates
    <3> QED BY <3>2 DEF l
  <2>4. [m EXCEPT !.initChan = TRUE] \in MCPSSEClient
    <3> HIDE DEF m
    <3> QED BY <2>3, ClientUpdates
  <2>5. \/ mcp' = [mcp EXCEPT ![c] = [m EXCEPT !.initChan = TRUE]]
        \/ mcp' = [mcp EXCEPT ![c] = m]
    BY <1>0, <1>9 DEF AskTools, TypeOK, MCPSSEClient
  <2>6. mcp' \in [Clients -> MCPSSEClient]
    <3> HIDE DEF m
    <3> QED BY <2>3, <2>4, <2>5 DEF TypeOK
  <2>7. server' \subseteq [to : Clients, id : Ids, what : Asked]
    BY <1>9, <2>2, AskType DEF AskTools, Asked
  <2>8. faults' \in 0..MaxFaults BY <1>1, <1>9, BoundAssumption DEF AskTools, Fault
  <2>9. panic' \in Panics \cup {None} BY <1>9 DEF AskTools, Panics
  <2> QED BY <1>9, <2>6, <2>7, <2>8, <2>9 DEF AskTools, TypeOK
<1> QED BY <1>2, <1>3, <1>4, <1>5, <1>6, <1>7, <1>8, <1>9 DEF Network

\* The steps of a call keep the types
LEMMA CallTypes ==
    ASSUME TypeOK, CountInv, CallInv, SetupInv, ~fatal, NEW k \in Calls, CallTool(k) \/ Step(k)
    PROVE  TypeOK'
<1>0. call[k] \in Call /\ CallOK(k) BY DEF TypeOK, CallInv
<1>1. CASE CallTool(k)
  <2>1. sseClient \in Clients
    BY <1>1 DEF CallTool, SetupInv, TypeOK, Clients
  <2> DEFINE a == [call[k] EXCEPT !.pc = "loaded"]
  <2>2. a \in Call BY <1>0, CallUpdates
  <2>3. [a EXCEPT !.at = sseClient] \in Call
    <3> HIDE DEF a
    <3> QED BY <2>1, <2>2, CallUpdates
  <2>4. call' = [call EXCEPT ![k] = [a EXCEPT !.at = sseClient]]
    BY <1>0, <1>1 DEF CallTool, TypeOK, Call
  <2>5. call' \in [Calls -> Call]
    <3> HIDE DEF a
    <3> QED BY <2>3, <2>4 DEF TypeOK
  <2> QED BY <1>1, <2>5 DEF CallTool, TypeOK
<1>2. call[k].pc # "unused" => call[k].at \in Clients /\ mcp[call[k].at] \in MCPSSEClient
  BY <1>0 DEF CallOK, TypeOK
<1>3. CASE CallFunction(k)
  <2> DEFINE c == call[k].at
             n == NextId(mcp[c].messageID)
             a == [call[k] EXCEPT !.pc = "registered"]
             m == [mcp[c] EXCEPT !.messageID = n]
  <2>1. c \in Clients /\ mcp[c] \in MCPSSEClient /\ mcp[c].messageID \in Nat
    BY <1>2, <1>3 DEF CallFunction, MCPSSEClient, Ids
  <2>2. n \in Ids
    <3>1. n \in Nat /\ n <= mcp[c].messageID + 1 BY <2>1, NextIdFacts
    <3>2. Cardinality(Numbered(c)) + 1 <= Cardinality(Calls)
      <4>1. k \notin Numbered(c) BY <1>0, <1>3 DEF CallFunction, CallOK, Numbered
      <4>2. Numbered(c) \subseteq Calls BY DEF Numbered
      <4>3. Cardinality(Numbered(c) \cup {k}) = Cardinality(Numbered(c)) + 1
        BY <4>1, <4>2, CallCounts, FS_AddElement
      <4>4. Numbered(c) \cup {k} \subseteq Calls BY <4>2
      <4> HIDE DEF c
      <4> QED BY <4>3, <4>4, CallCounts
    <3>3. CountOK(c) BY <2>1 DEF CountInv
    <3>4. /\ mcp[c].asking \in Nat /\ mcp[c].listing \in Nat
          /\ mcp[c].endpointURL \in Nat
      BY <2>1 DEF MCPSSEClient
    <3>5. Cardinality(Numbered(c)) \in Nat /\ Cardinality(Calls) \in Nat
      BY CallCounts DEF Numbered
    <3>6. n <= Cardinality(Calls) + mcp[c].endpointURL
      <4> HIDE DEF n, c
      <4> QED BY <2>1, <3>1, <3>2, <3>3, <3>4, <3>5 DEF CountOK, Used, Borrowed
    <3> HIDE DEF n, c
    <3> QED BY <2>1, <3>1, <3>6, IdBound
  <2> DEFINE b == [a EXCEPT !.id = n]
  <2>3. [b EXCEPT !.early = ~mcp[c].initChan] \in Call
    <3>1. a \in Call BY <1>0, CallUpdates
    <3>2. b \in Call
      <4> HIDE DEF a, n
      <4> QED BY <2>2, <3>1, CallUpdates
    <3> HIDE DEF b
    <3> QED BY <3>2, CallUpdates
  <2>4. [m EXCEPT !.responseChannels[n] = k] \in MCPSSEClient
    <3>1. m \in MCPSSEClient
      <4> HIDE DEF n, c
      <4> QED BY <2>1, <2>2, ClientUpdates
    <3> HIDE DEF m, n
    <3> QED BY <2>2, <3>1, ClientUpdates
  <2>5. /\ call' = [call EXCEPT ![k] = [b EXCEPT !.early = ~mcp[c].initChan]]
        /\ mcp' = [mcp EXCEPT ![c] = [m EXCEPT !.responseChannels[n] = k]]
    BY <1>0, <1>3, <2>1 DEF CallFunction, TypeOK, Call, MCPSSEClient
  <2>6. call' \in [Calls -> Call] /\ mcp' \in [Clients -> MCPSSEClient]
    <3> HIDE DEF b, m, n
    <3> QED BY <2>3, <2>4, <2>5 DEF TypeOK
  <2> QED BY <1>3, <2>6 DEF CallFunction, TypeOK
<1>4. CASE Post(k)
  <2>1. call[k].at \in Clients /\ call[k].id \in Ids /\ mcp[call[k].at].client \in BOOLEAN
    BY <1>0, <1>2, <1>4 DEF Post, Call, MCPSSEClient
  <2>2. server' \subseteq [to : Clients, id : Ids, what : Asked]
    BY <1>4, <2>1, AskType DEF Post, Asked
  <2>3. [call[k] EXCEPT !.pc = "posting"] \in Call BY <1>0, CallUpdates
  <2>4. call' \in [Calls -> Call] BY <1>4, <2>3 DEF Post, TypeOK
  <2>5. panic' \in Panics \cup {None} BY <1>4 DEF Post, Panics
  <2> QED BY <1>4, <2>2, <2>4, <2>5 DEF Post, TypeOK
<1>5. ASSUME NEW what \in Asked \cup {"failed", "timeout", "closed"}, Return(k, what)
      PROVE  call' \in [Calls -> Call]
  <2> DEFINE a == [call[k] EXCEPT !.pc = "returned"]
  <2>1. a \in Call BY <1>0, CallUpdates
  <2>2. [a EXCEPT !.result = what] \in Call
    <3> HIDE DEF a
    <3> QED BY <2>1, CallUpdates
  <2>3. call' = [call EXCEPT ![k] = [a EXCEPT !.result = what]]
    BY <1>0, <1>5 DEF Return, TypeOK, Call
  <2> HIDE DEF a
  <2> QED BY <2>2, <2>3 DEF TypeOK
<1>6. CASE PostFails(k)
  <2> DEFINE n == IF call[k].pc = "posting" THEN mcp[call[k].at].losses + 1
                  ELSE mcp[call[k].at].losses
             m == [mcp[call[k].at] EXCEPT !.losses = n]
             l == [m EXCEPT !.ReconnectChan = TRUE]
  <2>1. faults' \in 0..MaxFaults
    BY <1>6, BoundAssumption DEF PostFails, NotPosted, Fault, TypeOK
  <2>2. call[k].at \in Clients /\ call[k].id \in Ids /\ mcp[call[k].at] \in MCPSSEClient
    BY <1>0, <1>2, <1>6 DEF PostFails, NotPosted, Call
  <2>3. n \in Nat BY <2>2 DEF MCPSSEClient
  <2>4. m \in MCPSSEClient
    <3> HIDE DEF n
    <3> QED BY <2>2, <2>3, ClientUpdates
  <2>5. l \in MCPSSEClient
    <3> HIDE DEF m
    <3> QED BY <2>4, ClientUpdates
  <2>6. [l EXCEPT !.responseChannels[call[k].id] = None] \in MCPSSEClient
    <3> HIDE DEF l
    <3> QED BY <2>2, <2>5, ClientUpdates
  <2>7. \/ UNCHANGED <<mcp, call>> /\ panic' \in Panics
        \/ mcp' = [mcp EXCEPT ![call[k].at] = m] /\ call' = call /\ panic' \in Panics
        \/ /\ mcp' = [mcp EXCEPT ![call[k].at] = [l EXCEPT !.responseChannels[call[k].id] = None]]
           /\ Return(k, "failed") /\ panic' = panic
    <3> DEFINE c == call[k].at
    <3>1. \/ UNCHANGED <<mcp, call>> /\ Panic(TRUE, "client")
          \/ /\ mcp' = [mcp EXCEPT ![c].losses = n] /\ call' = call
             /\ Panic(TRUE, "ReconnectChan")
          \/ /\ mcp' = [mcp EXCEPT ![c].ReconnectChan = TRUE, ![c].losses = n,
                                    ![c].responseChannels[call[k].id] = None]
             /\ Return(k, "failed") /\ panic' = panic
      BY <1>6 DEF PostFails
    <3> HIDE DEF n
    <3>2. [mcp EXCEPT ![c].losses = n] = [mcp EXCEPT ![c] = m]
      BY <2>2 DEF TypeOK, MCPSSEClient
    <3>3. [mcp EXCEPT ![c].ReconnectChan = TRUE, ![c].losses = n,
                      ![c].responseChannels[call[k].id] = None]
            = [mcp EXCEPT ![c] = [l EXCEPT !.responseChannels[call[k].id] = None]]
      BY <2>2 DEF TypeOK, MCPSSEClient
    <3> HIDE DEF l, m
    <3> QED BY <3>1, <3>2, <3>3 DEF Panics
  <2>8. mcp' \in [Clients -> MCPSSEClient]
    <3> HIDE DEF l, m
    <3> QED BY <2>4, <2>6, <2>7 DEF TypeOK
  <2>9. call' \in [Calls -> Call] BY <1>5, <2>7 DEF TypeOK
  <2>10. panic' \in Panics \cup {None} BY <2>7 DEF TypeOK
  <2> QED BY <1>6, <2>1, <2>8, <2>9, <2>10 DEF PostFails, TypeOK
<1>7. CASE Posted(k)
  <2>1. [call[k] EXCEPT !.pc = "waiting"] \in Call BY <1>0, CallUpdates
  <2>2. call' \in [Calls -> Call] BY <1>7, <2>1 DEF Posted, TypeOK
  <2> QED BY <1>7, <2>2 DEF Posted, TypeOK
<1>8. CASE Answer(k) \/ Timeout(k)
  <2>1. call[k].at \in Clients /\ call[k].id \in Ids /\ mcp[call[k].at] \in MCPSSEClient
    BY <1>0, <1>2, <1>8 DEF Answer, Timeout, Call
  <2>2. [mcp[call[k].at] EXCEPT !.responseChannels[call[k].id] = None] \in MCPSSEClient
    BY <2>1, ClientUpdates
  <2>3. mcp' \in [Clients -> MCPSSEClient]
    BY <1>8, <2>1, <2>2 DEF Answer, Timeout, Unregister, TypeOK
  <2>4. call[k].respChan # "open" => call[k].respChan \in Asked \cup {"closed"}
    BY <1>0 DEF Call
  <2>5. call' \in [Calls -> Call] BY <1>5, <1>8, <2>4 DEF Answer, Timeout
  <2> QED BY <1>8, <2>3, <2>5 DEF Answer, Timeout, TypeOK
<1> QED BY <1>1, <1>3, <1>4, <1>6, <1>7, <1>8 DEF Step

\* Every step keeps every type
LEMMA TypeStep ==
    ASSUME TypeOK, CountInv, CallInv, SetupInv, [Next]_vars
    PROVE  TypeOK'
<1>1. CASE Next
  BY <1>1, RoutineTypes, ClientTypes, CallTypes DEF Next, Client
<1>2. CASE UNCHANGED vars BY <1>2 DEF vars, TypeOK
<1> QED BY <1>1, <1>2

-----------------------------------------------------------------------------
(* Steps that leave numbers, answers and the table of channels alone *)

\* What such a step keeps of a client and of the rest
Still(c) ==
    /\ mcp'[c].endpointURL = mcp[c].endpointURL /\ mcp'[c].asking = mcp[c].asking
    /\ mcp'[c].listing = mcp[c].listing /\ mcp'[c].messageID = mcp[c].messageID
    /\ mcp'[c].initChan = mcp[c].initChan /\ mcp'[c].tools = mcp[c].tools
    /\ mcp'[c].responseChannels = mcp[c].responseChannels
Grows == faults <= faults' /\ sseClient <= sseClient' /\ (setup.pc = "ready" => setup' = setup)
Quiet == call' = call /\ server' = server /\ Grows /\ \A c \in Clients : Still(c)

\* RunRoutine, Init, NewSSEFuncCall, the opening and breaking of streams and most of Close
LEMMA QuietSteps ==
    ASSUME TypeOK, \/ Routine \/ InitTimeout \/ Cancel \/ Setup \/ UNCHANGED vars
                   \/ \E c \in Clients, by \in Closers : CloseStop(c, by) \/ CloseClient(c, by)
                   \/ \E c \in Clients : Connect(c) \/ ConnectFails(c) \/ Disconnect(c)
    PROVE  Quiet
<1>0. /\ faults \in Nat /\ sseClient \in Nat /\ faults <= faults /\ sseClient <= sseClient
      /\ faults <= faults + 1 /\ sseClient <= sseClient + 1
      /\ mcp \in [Clients -> MCPSSEClient]
  BY DEF TypeOK
<1>1. ASSUME mcp' = mcp PROVE \A c \in Clients : Still(c) BY <1>1 DEF Still
<1>2. ASSUME NEW d \in Clients, NEW x, NEW by,
             \/ mcp' = [mcp EXCEPT ![d].conn = x]
             \/ mcp' = [mcp EXCEPT ![d].ReconnectChan = TRUE, ![d].losses = @ + 1]
             \/ mcp' = [mcp EXCEPT ![d].closing[by] = x]
             \/ mcp' = [mcp EXCEPT ![d].conn = x, ![d].events = TRUE]
             \/ mcp' = [mcp EXCEPT ![d].conn = x, ![d].closing["connect"] = "begin"]
             \/ mcp' = [mcp EXCEPT ![d].closing[by] = x, ![d].stopChan = TRUE]
             \/ mcp' = [mcp EXCEPT ![d].closing[by] = x, ![d].client = FALSE]
      PROVE  \A c \in Clients : Still(c)
  <2> SUFFICES ASSUME NEW c \in Clients PROVE Still(c) OBVIOUS
  <2>1. mcp[c] \in MCPSSEClient /\ mcp[d] \in MCPSSEClient BY <1>0
  <2>2. CASE c # d BY <1>0, <1>2, <2>2 DEF Still
  <2>3. CASE c = d BY <1>0, <1>2, <2>1, <2>3 DEF Still, MCPSSEClient
  <2> QED BY <2>2, <2>3
<1>3. ASSUME NEW d, d \notin Clients, NEW x, NEW by,
             \/ mcp' = [mcp EXCEPT ![d].conn = x]
             \/ mcp' = [mcp EXCEPT ![d].closing[by] = x]
      PROVE  mcp' = mcp
  BY <1>0, <1>3
<1>4. CASE Routine \/ InitTimeout
  <2>1. \E d, x, by : \/ mcp' = mcp \/ mcp' = [mcp EXCEPT ![d].conn = x]
                      \/ mcp' = [mcp EXCEPT ![d].closing[by] = x]
    BY <1>4 DEF Routine, Start, OldClosed, Initialized, Reconnect, Stop, InitTimeout
  <2>2. \A c \in Clients : Still(c) BY <1>1, <1>2, <1>3, <2>1
  <2>3. Grows BY <1>0, <1>4 DEF Grows, Routine, Start, OldClosed, Initialized, Reconnect,
                               Stop, InitTimeout, Fault
  <2> QED BY <1>4, <2>2, <2>3 DEF Quiet, Routine, Start, OldClosed, Initialized, Reconnect,
                                  Stop, InitTimeout
<1>5. CASE Cancel \/ Setup \/ UNCHANGED vars
  <2>1. mcp' = mcp /\ call' = call /\ server' = server
    BY <1>5 DEF Cancel, Setup, SetupCancelled, UpdateTools, GotTools, vars
  <2>2. Grows BY <1>0, <1>5 DEF Grows, Cancel, Setup, SetupCancelled, UpdateTools, GotTools,
                               Fault, vars
  <2> QED BY <1>1, <2>1, <2>2 DEF Quiet
<1>6. ASSUME NEW c \in Clients, NEW by \in Closers, CloseStop(c, by) \/ CloseClient(c, by)
      PROVE  Quiet
  <2>1. \A d \in Clients : Still(d) BY <1>2, <1>6 DEF CloseStop, CloseClient
  <2> QED BY <1>0, <1>6, <2>1 DEF Quiet, Grows, CloseStop, CloseClient
<1>7. ASSUME NEW c \in Clients, Connect(c) \/ ConnectFails(c) \/ Disconnect(c) PROVE Quiet
  <2>1. \A d \in Clients : Still(d) BY <1>2, <1>7 DEF Connect, ConnectFails, Disconnect
  <2> QED BY <1>0, <1>7, <2>1 DEF Quiet, Grows, Connect, ConnectFails, Disconnect, Fault
<1> QED BY <1>4, <1>5, <1>6, <1>7

-----------------------------------------------------------------------------
(* Numbers *)

\* What a step keeps of the calls and of the counters of a client
CallsKept ==
    \A j \in Calls : /\ call'[j].id = call[j].id
                     /\ call[j].id > 0 => call'[j].at = call[j].at
CountersKept(c) ==
    /\ mcp'[c].endpointURL = mcp[c].endpointURL /\ mcp'[c].asking = mcp[c].asking
    /\ mcp'[c].listing = mcp[c].listing /\ mcp'[c].messageID = mcp[c].messageID

\* The steps that count: the stream, initializeEndpoint and CallFunction
Counting ==
    \/ \E c \in Clients : Endpoint(c) \/ AskInitialize(c) \/ AskTools(c)
    \/ \E k \in Calls : CallFunction(k)

\* A record for all that is needed of the types of a client and of a call
LEMMA FieldTypes ==
    ASSUME TypeOK
    PROVE  /\ mcp \in [Clients -> MCPSSEClient] /\ call \in [Calls -> Call]
           /\ faults \in Nat /\ faults <= MaxFaults /\ sseClient \in Nat
           /\ \A c \in Clients :
                 /\ mcp[c].endpointURL \in Nat /\ mcp[c].asking \in Nat
                 /\ mcp[c].listing \in Nat /\ mcp[c].messageID \in Nat
                 /\ mcp[c].responseChannels \in [Ids -> Calls \cup {None}]
           /\ \A k \in Calls : call[k].id \in Nat /\ call[k].id \in Ids
<1>1. \A c \in Clients : mcp[c] \in MCPSSEClient BY DEF TypeOK
<1>2. \A k \in Calls : call[k] \in Call BY DEF TypeOK
<1>3. faults \in Nat /\ faults <= MaxFaults /\ sseClient \in Nat
  BY BoundAssumption DEF TypeOK
<1>4. \A n \in Ids : n \in Nat BY DEF Ids
<1> QED BY <1>1, <1>2, <1>3, <1>4 DEF TypeOK, MCPSSEClient, Call

\* What leaves a client alone but its streams, its registered channels and what it was told
Rest(c) ==
    /\ mcp'[c].endpointURL = mcp[c].endpointURL /\ mcp'[c].asking = mcp[c].asking
    /\ mcp'[c].listing = mcp[c].listing /\ mcp'[c].messageID = mcp[c].messageID
    /\ mcp'[c].initChan = mcp[c].initChan /\ mcp'[c].closing = mcp[c].closing
    /\ mcp'[c].stopChan = mcp[c].stopChan /\ mcp'[c].client = mcp[c].client

\* The end of a call moves nothing of its client but ReconnectChan and its own channel
LEMMA Ends ==
    ASSUME TypeOK, CallInv, NEW k \in Calls, PostFails(k) \/ Answer(k) \/ Timeout(k),
           NEW c, c = call[k].at
    PROVE  /\ c \in Clients /\ \A d \in Clients \ {c} : mcp'[d] = mcp[d]
           /\ Rest(c) /\ mcp'[c].tools = mcp[c].tools /\ mcp'[c].doubled = mcp[c].doubled
           /\ mcp'[c].responseChannels \in
                 {mcp[c].responseChannels, [mcp[c].responseChannels EXCEPT ![call[k].id] = None]}
           /\ \/ call' = call
              \/ mcp'[c].responseChannels = [mcp[c].responseChannels EXCEPT ![call[k].id] = None]
<1> USE FieldTypes
<1>1. call[k].at \in Clients
  BY DEF PostFails, NotPosted, Answer, Timeout, CallInv, CallOK
<1>2. mcp[c] \in MCPSSEClient BY <1>1
<1>3. ASSUME NEW x,
             \/ mcp' = mcp /\ call' = call
             \/ mcp' = [mcp EXCEPT ![c].losses = x] /\ call' = call
             \/ mcp' = [mcp EXCEPT ![c].responseChannels[call[k].id] = None]
             \/ mcp' = [mcp EXCEPT ![c].ReconnectChan = TRUE, ![c].losses = x,
                                   ![c].responseChannels[call[k].id] = None]
      PROVE  /\ c \in Clients /\ \A d \in Clients \ {c} : mcp'[d] = mcp[d]
             /\ Rest(c) /\ mcp'[c].tools = mcp[c].tools /\ mcp'[c].doubled = mcp[c].doubled
             /\ mcp'[c].responseChannels \in
                   {mcp[c].responseChannels, [mcp[c].responseChannels EXCEPT ![call[k].id] = None]}
             /\ \/ call' = call
                \/ mcp'[c].responseChannels = [mcp[c].responseChannels EXCEPT ![call[k].id] = None]
  <2>1. CASE mcp' = mcp /\ call' = call BY <1>1, <2>1 DEF Rest
  <2>2. CASE mcp' = [mcp EXCEPT ![c].losses = x] /\ call' = call
    BY <1>1, <1>2, <2>2 DEF Rest, MCPSSEClient
  <2>3. CASE mcp' = [mcp EXCEPT ![c].responseChannels[call[k].id] = None]
    BY <1>1, <1>2, <2>3 DEF Rest, MCPSSEClient
  <2>4. CASE mcp' = [mcp EXCEPT ![c].ReconnectChan = TRUE, ![c].losses = x,
                                ![c].responseChannels[call[k].id] = None]
    BY <1>1, <1>2, <2>4 DEF Rest, MCPSSEClient
  <2> QED BY <1>3, <2>1, <2>2, <2>3, <2>4
<1>4. CASE PostFails(k)
  <2> DEFINE x == IF call[k].pc = "posting" THEN mcp[c].losses + 1 ELSE mcp[c].losses
  <2>1. \/ mcp' = mcp /\ call' = call
        \/ mcp' = [mcp EXCEPT ![c].losses = x] /\ call' = call
        \/ mcp' = [mcp EXCEPT ![c].ReconnectChan = TRUE, ![c].losses = x,
                              ![c].responseChannels[call[k].id] = None]
    BY <1>4 DEF PostFails
  <2> HIDE DEF x
  <2> QED BY <1>3, <2>1
<1>5. CASE Answer(k) \/ Timeout(k)
  <2>1. mcp' = [mcp EXCEPT ![c].responseChannels[call[k].id] = None]
    BY <1>5 DEF Answer, Timeout, Unregister
  <2> QED BY <1>3, <2>1
<1> QED BY <1>4, <1>5

\* A message moves nothing of its client but what it is told, and no other client
LEMMA Handles ==
    ASSUME TypeOK, NEW c \in Clients, HandleMessage(c)
    PROVE  /\ \A d \in Clients \ {c} : mcp'[d] = mcp[d]
           /\ Rest(c) /\ mcp'[c].responseChannels = mcp[c].responseChannels
           /\ mcp'[c].ReconnectChan = mcp[c].ReconnectChan
           /\ call' = call \/ \E i, x : call' = [call EXCEPT ![i].respChan = x]
<1>1. mcp \in [Clients -> MCPSSEClient] /\ mcp[c] \in MCPSSEClient BY DEF TypeOK
<1>2. \E b : \/ mcp' = [mcp EXCEPT ![c].tools = b]
             \/ mcp' = [mcp EXCEPT ![c].tools = b, ![c].doubled = TRUE]
  <2>1. PICK r : \/ mcp' = [mcp EXCEPT ![c].tools = @ \/ (r.id = 1 /\ r.what = "tools")]
                 \/ mcp' = [mcp EXCEPT ![c].tools = @ \/ (r.id = 1 /\ r.what = "tools"),
                                       ![c].doubled = TRUE]
    BY DEF HandleMessage
  <2> QED BY <1>1, <2>1
<1>3. PICK b : \/ mcp' = [mcp EXCEPT ![c].tools = b]
               \/ mcp' = [mcp EXCEPT ![c].tools = b, ![c].doubled = TRUE]
  BY <1>2
<1>4. call' = call \/ \E i, x : call' = [call EXCEPT ![i].respChan = x]
  <2>1. PICK r \in server :
          IF mcp[c].responseChannels[r.id] = None THEN call' = call
          ELSE call' = [call EXCEPT ![mcp[c].responseChannels[r.id]].respChan = r.what]
    BY DEF HandleMessage
  <2> QED BY <2>1
<1>5. /\ \A d \in Clients \ {c} : mcp'[d] = mcp[d]
      /\ Rest(c) /\ mcp'[c].responseChannels = mcp[c].responseChannels
      /\ mcp'[c].ReconnectChan = mcp[c].ReconnectChan
  BY <1>1, <1>3 DEF Rest, MCPSSEClient
<1> QED BY <1>4, <1>5

\* The other steps keep all of that
LEMMA NoCounting ==
    ASSUME TypeOK, CallInv, [Next]_vars, ~Counting
    PROVE  CallsKept /\ faults <= faults' /\ \A c \in Clients : CountersKept(c)
<1> USE FieldTypes
<1>0. \A k \in Calls : CallOK(k) BY DEF CallInv
<1>1. CASE Quiet BY <1>1 DEF Quiet, Grows, Still, CallsKept, CountersKept
<1>2. ASSUME NEW c \in Clients, NEW by \in Closers, CloseChannels(c, by)
      PROVE  CallsKept /\ faults <= faults' /\ \A d \in Clients : CountersKept(d)
  <2> DEFINE waiting == {mcp[c].responseChannels[n] : n \in Ids} \ {None}
  <2>1. call' = [k \in Calls |-> IF k \in waiting THEN [call[k] EXCEPT !.respChan = "closed"]
                                 ELSE call[k]]
    BY <1>2 DEF CloseChannels
  <2>2. CallsKept
    <3> HIDE DEF waiting
    <3> QED BY <2>1 DEF CallsKept, Call
  <2>3. ASSUME NEW d \in Clients PROVE CountersKept(d)
    <3>1. CASE c # d BY <1>2, <3>1 DEF CloseChannels, CountersKept
    <3>2. CASE c = d BY <1>2, <3>2 DEF CloseChannels, CountersKept, MCPSSEClient
    <3> QED BY <3>1, <3>2
  <2> QED BY <1>2, <2>2, <2>3 DEF CloseChannels
<1>3. ASSUME NEW c \in Clients, StopEvents(c) \/ HandleMessage(c)
      PROVE  CallsKept /\ faults <= faults' /\ \A d \in Clients : CountersKept(d)
  <2>2. \A d \in Clients : CountersKept(d)
    <3>1. StopEvents(c) => \A d \in Clients : CountersKept(d)
      <4>1. ASSUME StopEvents(c) PROVE mcp' = [mcp EXCEPT ![c].events = FALSE] BY <4>1 DEF StopEvents
      <4> QED BY SMTT(30), <4>1 DEF CountersKept, MCPSSEClient
    <3> QED BY <1>3, <3>1, Handles DEF CountersKept, Rest
  <2>6. faults' = faults \/ faults' = faults + 1 BY <1>3 DEF StopEvents, HandleMessage, Fault
  <2>3. faults <= faults' BY <2>6
  <2>4. call' = call \/ \E k, x : call' = [call EXCEPT ![k].respChan = x]
    BY <1>3, Handles DEF StopEvents
  <2>5. CallsKept BY <2>4 DEF CallsKept, Call
  <2> QED BY <2>2, <2>3, <2>5
<1>4. ASSUME NEW k \in Calls, CallTool(k) \/ Post(k) \/ Posted(k)
      PROVE  CallsKept /\ faults <= faults' /\ \A d \in Clients : CountersKept(d)
  <2>1. CASE CallTool(k)
    <3>1. call[k].id = 0 BY <1>0, <2>1 DEF CallTool, CallOK
    <3>2. call' = [call EXCEPT ![k].pc = "loaded", ![k].at = sseClient] /\ mcp' = mcp /\ faults' = faults
      BY <2>1 DEF CallTool
    <3>3. CallsKept BY <3>1, <3>2 DEF CallsKept, Call
    <3> QED BY <3>2, <3>3 DEF CountersKept
  <2>2. CASE Post(k) \/ Posted(k)
    <3>1. mcp' = mcp /\ faults' = faults /\ \E x : call' = [call EXCEPT ![k].pc = x]
      BY <2>2 DEF Post, Posted
    <3>2. CallsKept BY <3>1 DEF CallsKept, Call
    <3> QED BY <3>1, <3>2 DEF CountersKept
  <2> QED BY <1>4, <2>1, <2>2
<1>5. ASSUME NEW k \in Calls, PostFails(k) \/ Answer(k) \/ Timeout(k)
      PROVE  CallsKept /\ faults <= faults' /\ \A d \in Clients : CountersKept(d)
  <2>1. faults <= faults' BY <1>5 DEF PostFails, NotPosted, Fault, Answer, Timeout
  <2>2. call' = call \/ \E x : call' = [call EXCEPT ![k].pc = "returned", ![k].result = x]
    BY <1>5 DEF PostFails, Answer, Timeout, Return
  <2>3. CallsKept BY <2>2 DEF CallsKept, Call
  <2>4. \A d \in Clients : CountersKept(d)
    <3> DEFINE c == call[k].at
    <3>1. \A d \in Clients \ {c} : mcp'[d] = mcp[d] BY <1>5, Ends
    <3>2. Rest(c) BY <1>5, Ends
    <3> HIDE DEF c
    <3> QED BY <3>1, <3>2 DEF CountersKept, Rest
  <2> QED BY <2>1, <2>3, <2>4
<1> QED BY <1>1, <1>2, <1>3, <1>4, <1>5, QuietSteps DEF Next, Counting, Client, Network, Close, Step

\* Who has a number of a client does not change when the calls are kept
LEMMA NumberedKept ==
    ASSUME CallsKept, NEW c \in Clients, TypeOK
    PROVE  Numbered(c)' = Numbered(c)
BY FieldTypes DEF CallsKept, Numbered

\* Endpoints, and the requests of initializeEndpoint, move the counts of one client
LEMMA CountMoves ==
    ASSUME TypeOK, NEW c \in Clients, Endpoint(c) \/ AskInitialize(c) \/ AskTools(c)
    PROVE  /\ CallsKept /\ faults' >= faults
           /\ \A d \in Clients \ {c} : CountersKept(d)
           /\ mcp'[c].asking + mcp'[c].listing <= mcp'[c].endpointURL
                 \/ mcp[c].asking + mcp[c].listing > mcp[c].endpointURL
           /\ \/ mcp'[c].endpointURL = mcp[c].endpointURL
              \/ mcp[c].endpointURL = 0 /\ mcp'[c].endpointURL = 1
              \/ mcp'[c].endpointURL = mcp[c].endpointURL + 1 /\ faults' = faults + 1
           /\ \/ mcp'[c].messageID = mcp[c].messageID /\ Borrowed(c)' >= Borrowed(c)
              \/ mcp'[c].messageID = mcp[c].messageID + 1 /\ Borrowed(c)' = Borrowed(c) + 1
           /\ Borrowed(c) \in Int /\ Borrowed(c)' \in Int
<1> USE FieldTypes
<1>1. CASE Endpoint(c)
  <2>1. mcp' = [mcp EXCEPT ![c].endpointURL = @ + 1, ![c].asking = @ + 1] /\ call' = call
    BY <1>1 DEF Endpoint
  <2>2. /\ mcp'[c].endpointURL = mcp[c].endpointURL + 1 /\ mcp'[c].asking = mcp[c].asking + 1
        /\ mcp'[c].listing = mcp[c].listing /\ mcp'[c].messageID = mcp[c].messageID
    BY <2>1 DEF MCPSSEClient
  <2>3. \A d \in Clients \ {c} : CountersKept(d) BY <2>1 DEF CountersKept
  <2>4. \/ mcp[c].endpointURL = 0 /\ faults' = faults
        \/ faults' = faults + 1
    BY <1>1 DEF Endpoint, Fault
  <2>5. CallsKept BY <2>1 DEF CallsKept
  <2> QED BY <2>2, <2>3, <2>4, <2>5 DEF Borrowed
<1>2. CASE AskInitialize(c)
  <2>1. /\ \/ mcp' = [mcp EXCEPT ![c].asking = @ - 1, ![c].listing = @ + 1]
           \/ mcp' = [mcp EXCEPT ![c].asking = @ - 1]
        /\ call' = call
        /\ faults' = faults \/ faults' = faults + 1
        /\ mcp[c].asking > 0
    BY <1>2 DEF AskInitialize, Fault
  <2>2. /\ mcp'[c].endpointURL = mcp[c].endpointURL /\ mcp'[c].asking = mcp[c].asking - 1
        /\ mcp'[c].listing \in {mcp[c].listing, mcp[c].listing + 1}
        /\ mcp'[c].messageID = mcp[c].messageID
    BY <2>1 DEF MCPSSEClient
  <2>3. \A d \in Clients \ {c} : CountersKept(d) BY <2>1 DEF CountersKept
  <2>5. CallsKept BY <2>1 DEF CallsKept
  <2> QED BY <2>1, <2>2, <2>3, <2>5 DEF Borrowed
<1>3. CASE AskTools(c)
  <2>1. /\ \/ mcp' = [mcp EXCEPT ![c].listing = @ - 1, ![c].messageID = mcp[c].messageID + 1,
                                 ![c].initChan = TRUE]
           \/ mcp' = [mcp EXCEPT ![c].listing = @ - 1, ![c].messageID = mcp[c].messageID + 1]
        /\ call' = call
        /\ faults' = faults \/ faults' = faults + 1
        /\ mcp[c].listing > 0
    BY <1>3 DEF AskTools, Fault
  <2>2. /\ mcp'[c].endpointURL = mcp[c].endpointURL /\ mcp'[c].asking = mcp[c].asking
        /\ mcp'[c].listing = mcp[c].listing - 1
        /\ mcp'[c].messageID = mcp[c].messageID + 1
    BY <2>1 DEF MCPSSEClient
  <2>3. \A d \in Clients \ {c} : CountersKept(d) BY <2>1 DEF CountersKept
  <2>5. CallsKept BY <2>1 DEF CallsKept
  <2> QED BY <2>1, <2>2, <2>3, <2>5 DEF Borrowed
<1> QED BY <1>1, <1>2, <1>3

\* A call takes the next number of its client, which no call in progress has
LEMMA TakesNumber ==
    ASSUME TypeOK, CallInv, NEW k \in Calls, CallFunction(k), NEW c, c = call[k].at
    PROVE  /\ c \in Clients /\ k \notin Numbered(c)
           /\ call'[k].id = NextId(mcp[c].messageID) /\ call'[k].at = c
           /\ \A j \in Calls \ {k} : call'[j] = call[j]
           /\ mcp'[c].messageID = NextId(mcp[c].messageID)
           /\ mcp'[c].responseChannels =
                 [mcp[c].responseChannels EXCEPT ![NextId(mcp[c].messageID)] = k]
           /\ mcp'[c].endpointURL = mcp[c].endpointURL /\ mcp'[c].asking = mcp[c].asking
           /\ mcp'[c].listing = mcp[c].listing
           /\ \A d \in Clients \ {c} : mcp'[d] = mcp[d]
           /\ Numbered(c)' = Numbered(c) \cup {k}
           /\ \A d \in Clients \ {c} : Numbered(d)' = Numbered(d)
           /\ Cardinality(Numbered(c)') = Cardinality(Numbered(c)) + 1
<1> USE FieldTypes
<1> DEFINE n == NextId(mcp[c].messageID)
<1>1. CallOK(k) /\ call[k].pc = "loaded" BY DEF CallInv, CallFunction
<1>2. c \in Clients /\ call[k].id = 0 BY <1>1 DEF CallOK
<1>3. n \in Nat /\ n > 0 BY <1>2, NextIdFacts
<1>4. /\ call' = [call EXCEPT ![k].pc = "registered", ![k].id = n,
                              ![k].early = ~mcp[c].initChan]
      /\ mcp' = [mcp EXCEPT ![c].messageID = n, ![c].responseChannels[n] = k]
  BY DEF CallFunction
<1> HIDE DEF n
<1>5. /\ call'[k].id = n /\ call'[k].at = c
      /\ \A j \in Calls \ {k} : call'[j] = call[j]
  BY <1>4 DEF Call
<1>6. /\ mcp'[c].messageID = n
      /\ mcp'[c].responseChannels = [mcp[c].responseChannels EXCEPT ![n] = k]
      /\ mcp'[c].endpointURL = mcp[c].endpointURL /\ mcp'[c].asking = mcp[c].asking
      /\ mcp'[c].listing = mcp[c].listing
      /\ \A d \in Clients \ {c} : mcp'[d] = mcp[d]
  BY <1>2, <1>4 DEF MCPSSEClient
<1>7. k \notin Numbered(c) BY <1>2 DEF Numbered
<1>8. Numbered(c)' = Numbered(c) \cup {k} BY <1>3, <1>5 DEF Numbered
<1>9. ASSUME NEW d \in Clients \ {c} PROVE Numbered(d)' = Numbered(d)
  BY <1>2, <1>5, <1>9 DEF Numbered
<1>10. Cardinality(Numbered(c) \cup {k}) = Cardinality(Numbered(c)) + 1
  <2>1. Numbered(c) \subseteq Calls BY DEF Numbered
  <2> QED BY <1>7, <2>1, CallCounts, FS_AddElement
<1> QED BY <1>2, <1>5, <1>6, <1>7, <1>8, <1>9, <1>10 DEF n

\* The counts stay in step with the numbers
LEMMA CountStep ==
    ASSUME TypeOK, CallInv, CountInv, [Next]_vars
    PROVE  CountInv'
<1> USE FieldTypes
<1> SUFFICES ASSUME NEW c \in Clients PROVE CountOK(c)' BY DEF CountInv
<1>0. CountOK(c) BY DEF CountInv
<1>1. Cardinality(Numbered(c)) \in Nat BY CallCounts DEF Numbered
<1>2. ASSUME CallsKept, faults <= faults', CountersKept(c), faults' \in Int PROVE CountOK(c)'
  <2>1. Numbered(c)' = Numbered(c) BY <1>2, NumberedKept
  <2>2. Used(c)' = Used(c) BY <1>2, <2>1 DEF Used, Borrowed, CountersKept
  <2> QED BY <1>0, <1>2, <2>2 DEF CountOK, CountersKept
<1>3. faults' \in Int
  <2>1. faults' = faults \/ faults' = faults + 1
    BY DEF Next, Routine, Start, OldClosed, Initialized, InitTimeout, Reconnect, Cancel, Stop,
           Setup, SetupCancelled, UpdateTools, GotTools, Client, Network, Close, CloseStop,
           CloseClient, CloseChannels, Connect, ConnectFails, Disconnect, StopEvents, Endpoint,
           HandleMessage, AskInitialize, AskTools, CallTool, Step, CallFunction, Post, Posted,
           PostFails, NotPosted, Answer, Timeout, Fault, vars
  <2> QED BY SMTT(30), <2>1
<1>4. CASE ~Counting BY <1>2, <1>3, <1>4, NoCounting
<1>5. ASSUME NEW d \in Clients, Endpoint(d) \/ AskInitialize(d) \/ AskTools(d)
      PROVE  CountOK(c)'
  <2>1. CASE c # d BY <1>2, <1>3, <1>5, <2>1, CountMoves
  <2>2. CASE c = d
    <3>1. Numbered(c)' = Numbered(c) BY <1>5, CountMoves, NumberedKept
    <3>2. Used(c)' = Cardinality(Numbered(c)) + Borrowed(c)' BY <3>1 DEF Used
    <3>3. mcp'[c].endpointURL <= faults' + 1
      BY <1>0, <1>3, <1>5, <2>2, CountMoves DEF CountOK
    <3>4. mcp'[c].messageID <= Used(c)'
      BY <1>0, <1>1, <1>5, <2>2, <3>2, CountMoves DEF CountOK, Used
    <3>5. mcp'[c].asking + mcp'[c].listing <= mcp'[c].endpointURL
      BY <1>0, <1>5, <2>2, CountMoves DEF CountOK
    <3> QED BY <3>3, <3>4, <3>5 DEF CountOK
  <2> QED BY <2>1, <2>2
<1>6. ASSUME NEW k \in Calls, CallFunction(k) PROVE CountOK(c)'
  <2>1. faults' = faults BY <1>6 DEF CallFunction
  <2>2. CASE c = call[k].at
    <3>1. /\ Borrowed(c)' = Borrowed(c)
          /\ Cardinality(Numbered(c)') = Cardinality(Numbered(c)) + 1
          /\ mcp'[c].messageID = NextId(mcp[c].messageID)
          /\ mcp'[c].endpointURL = mcp[c].endpointURL /\ mcp'[c].asking = mcp[c].asking
          /\ mcp'[c].listing = mcp[c].listing
      BY <1>6, <2>2, TakesNumber DEF Borrowed
    <3>2. Used(c)' = Used(c) + 1 /\ Used(c) \in Int
      <4>1. Borrowed(c) \in Int BY DEF Borrowed
      <4>2. Used(c)' = Cardinality(Numbered(c)') + Borrowed(c)' BY DEF Used
      <4>3. Used(c) = Cardinality(Numbered(c)) + Borrowed(c) BY DEF Used
      <4> QED BY <1>1, <3>1, <4>1, <4>2, <4>3
    <3>3. mcp'[c].messageID \in Nat /\ mcp'[c].messageID <= mcp[c].messageID + 1
      BY <3>1, NextIdFacts
    <3> QED BY <1>0, <2>1, <3>1, <3>2, <3>3 DEF CountOK
  <2>3. CASE c # call[k].at
    <3>1. mcp'[c] = mcp[c] /\ Numbered(c)' = Numbered(c) BY <1>6, <2>3, TakesNumber
    <3> QED BY <1>0, <2>1, <3>1 DEF CountOK, Used, Borrowed
  <2> QED BY <2>2, <2>3
<1> QED BY <1>4, <1>5, <1>6 DEF Counting

\* Two calls of a client get the same number only when the numbers are used up
LEMMA IdStep ==
    ASSUME TypeOK, CallInv, CountInv, IdInv, [Next]_vars
    PROVE  IdInv'
<1> USE FieldTypes
<1> SUFFICES ASSUME NEW c \in Clients PROVE IdOK(c)' BY DEF IdInv
<1>0. IdOK(c) BY DEF IdInv
<1>1. Cardinality(Numbered(c)) \in Nat BY CallCounts DEF Numbered
<1>2. ASSUME CallsKept, mcp'[c].messageID >= mcp[c].messageID, mcp'[c].messageID \in Int,
             Borrowed(c)' >= Borrowed(c), Borrowed(c)' \in Int
      PROVE  IdOK(c)'
  <2>1. Numbered(c)' = Numbered(c) BY <1>2, NumberedKept
  <2>2. Used(c)' >= Used(c) /\ Used(c)' \in Int /\ Used(c) \in Int
    BY <1>1, <1>2, <2>1 DEF Used, Borrowed
  <2>3. \A j \in Numbered(c) : j \in Calls /\ call'[j].id = call[j].id
    BY <1>2 DEF CallsKept, Numbered
  <2>4. Used(c)' < WrapId => Used(c) < WrapId BY <2>2, IdAssumption
  <2> QED BY <1>0, <1>2, <2>1, <2>3, <2>4 DEF IdOK
<1>3. CASE ~Counting
  <2>1. CountersKept(c) /\ CallsKept BY <1>3, NoCounting
  <2> QED BY <1>2, <2>1 DEF CountersKept, Borrowed
<1>4. ASSUME NEW d \in Clients, Endpoint(d) \/ AskInitialize(d) \/ AskTools(d)
      PROVE  IdOK(c)'
  <2>1. CASE c # d
    <3>1. CountersKept(c) /\ CallsKept BY <1>4, <2>1, CountMoves
    <3> QED BY <1>2, <3>1 DEF CountersKept, Borrowed
  <2>2. CASE c = d BY <1>2, <1>4, <2>2, CountMoves
  <2> QED BY <2>1, <2>2
<1>5. ASSUME NEW k \in Calls, CallFunction(k) PROVE IdOK(c)'
  <2>1. CASE c # call[k].at
    <3>1. mcp'[c] = mcp[c] /\ Numbered(c)' = Numbered(c) BY <1>5, <2>1, TakesNumber
    <3>2. \A j \in Numbered(c) : call'[j] = call[j]
      BY <1>5, <2>1, TakesNumber DEF Numbered
    <3>3. Used(c)' = Used(c) BY <3>1 DEF Used, Borrowed
    <3> QED BY <1>0, <3>1, <3>2, <3>3 DEF IdOK
  <2>2. CASE c = call[k].at
    <3> DEFINE n == NextId(mcp[c].messageID)
    <3>1. /\ Borrowed(c)' = Borrowed(c) /\ Borrowed(c) \in Int
          /\ Cardinality(Numbered(c)') = Cardinality(Numbered(c)) + 1
          /\ Numbered(c)' = Numbered(c) \cup {k}
          /\ mcp'[c].messageID = n /\ call'[k].id = n
          /\ \A j \in Numbered(c) : call'[j] = call[j]
      <4>0. /\ mcp'[c].endpointURL = mcp[c].endpointURL
            /\ mcp'[c].asking = mcp[c].asking /\ mcp'[c].listing = mcp[c].listing
        BY <1>5, <2>2, TakesNumber
      <4>1. Borrowed(c)' = Borrowed(c) /\ Borrowed(c) \in Int BY <4>0 DEF Borrowed
      <4>2. /\ Numbered(c)' = Numbered(c) \cup {k} /\ k \notin Numbered(c)
            /\ Cardinality(Numbered(c)') = Cardinality(Numbered(c)) + 1
            /\ mcp'[c].messageID = n /\ call'[k].id = n
        BY <1>5, <2>2, TakesNumber
      <4>3. \A j \in Numbered(c) : j \in Calls BY DEF Numbered
      <4>4. \A j \in Calls \ {k} : call'[j] = call[j] BY <1>5, TakesNumber
      <4> QED BY <4>1, <4>2, <4>3, <4>4
    <3>2. Used(c)' = Used(c) + 1 /\ Used(c) \in Int
      <4>1. Used(c)' = Cardinality(Numbered(c)') + Borrowed(c)' BY DEF Used
      <4>2. Used(c) = Cardinality(Numbered(c)) + Borrowed(c) BY DEF Used
      <4> QED BY <1>1, <3>1, <4>1, <4>2
    <3>3. SUFFICES ASSUME Used(c) + 1 < WrapId PROVE IdOK(c)' BY <3>2 DEF IdOK
    <3>4. /\ \A j \in Numbered(c) : call[j].id <= mcp[c].messageID
          /\ \A j, i \in Numbered(c) : call[j].id = call[i].id => j = i
      BY <1>0, <3>2, <3>3, IdAssumption DEF IdOK
    <3>5. CountOK(c) BY DEF CountInv
    <3>6. mcp[c].messageID + 1 < WrapId BY <3>2, <3>3, <3>5, IdAssumption DEF CountOK
    <3>7. n = mcp[c].messageID + 1 BY <3>6, IdAssumption DEF NextId
    <3> HIDE DEF n
    <3>8. \A j \in Numbered(c) : call[j].id \in Nat BY DEF Numbered
    <3>9. \A j \in Numbered(c)' : call'[j].id <= mcp'[c].messageID
      BY <3>1, <3>4, <3>7, <3>8
    <3>10. ASSUME NEW j \in Numbered(c)', NEW i \in Numbered(c)', call'[j].id = call'[i].id
           PROVE  j = i
      <4>1. \A x \in Numbered(c) : call'[x].id # n BY <3>1, <3>4, <3>7, <3>8
      <4> QED BY <3>1, <3>4, <3>10, <4>1
    <3> QED BY <3>9, <3>10 DEF IdOK
  <2> QED BY <2>1, <2>2
<1> QED BY <1>3, <1>4, <1>5 DEF Counting

-----------------------------------------------------------------------------
(* Calls and their answers *)

\* Faults are counted up, clients are only added and NewSSEFuncCall stays where it is ready
LEMMA GrowsStep ==
    ASSUME TypeOK, CallInv, [Next]_vars
    PROVE  Grows
<1> USE FieldTypes
<1>1. CASE Quiet BY <1>1 DEF Quiet
<1>2. CASE /\ \/ \E c \in Clients : \/ \E by \in Closers : CloseChannels(c, by)
                                    \/ StopEvents(c) \/ HandleMessage(c) \/ Endpoint(c)
                                    \/ AskInitialize(c) \/ AskTools(c)
              \/ \E k \in Calls : CallTool(k) \/ Step(k)
  <2>1. sseClient' = sseClient /\ setup' = setup
    BY <1>2 DEF CloseChannels, StopEvents, HandleMessage, Endpoint, AskInitialize, AskTools,
                CallTool, Step, CallFunction, Post, Posted, PostFails, Answer, Timeout
  <2>2. faults' = faults \/ faults' = faults + 1
    BY <1>2 DEF CloseChannels, StopEvents, HandleMessage, Endpoint, AskInitialize, AskTools,
                CallTool, Step, CallFunction, Post, Posted, PostFails, NotPosted, Answer,
                Timeout, Fault
  <2>3. faults <= faults' BY <2>2
  <2> QED BY SMTT(30), <2>1, <2>3 DEF Grows
<1> QED BY <1>1, <1>2, QuietSteps DEF Next, Client, Network, Close

\* A call keeps the number that it took, and the client where it took it
LEMMA NumbersStay ==
    ASSUME TypeOK, CallInv, [Next]_vars, NEW j \in Calls, call[j].id > 0
    PROVE  call'[j].id = call[j].id /\ call'[j].at = call[j].at
<1> USE FieldTypes
<1>1. CASE ~Counting BY <1>1, NoCounting DEF CallsKept
<1>2. ASSUME NEW c \in Clients, Endpoint(c) \/ AskInitialize(c) \/ AskTools(c)
      PROVE  call'[j].id = call[j].id /\ call'[j].at = call[j].at
  BY <1>2, CountMoves DEF CallsKept
<1>3. ASSUME NEW k \in Calls, CallFunction(k)
      PROVE  call'[j].id = call[j].id /\ call'[j].at = call[j].at
  <2>1. call[k].pc = "loaded" /\ CallOK(k) BY <1>3 DEF CallFunction, CallInv
  <2>2. call[k].id = 0 BY <2>1 DEF CallOK
  <2>3. \A i \in Calls \ {k} : call'[i] = call[i] BY <1>3, TakesNumber
  <2> QED BY <2>2, <2>3
<1> QED BY <1>1, <1>2, <1>3 DEF Counting

\* Names of outcomes are no calls
LEMMA NoCalls ==
    /\ "open" \notin Calls /\ "closed" \notin Calls /\ "failed" \notin Calls
    /\ "timeout" \notin Calls /\ "tools" \notin Calls /\ "initialize" \notin Calls
    /\ None \notin Calls
BY NamesAssumption

\* What answers a call is what its own client was asked under its own number
LEMMA CallStep ==
    ASSUME TypeOK, CountInv, CallInv, ServerInv, ChannelInv, SetupInv, [Next]_vars
    PROVE  CallInv'
<1> USE FieldTypes
<1> SUFFICES ASSUME NEW k \in Calls PROVE CallOK(k)' BY DEF CallInv
<1>0. CallOK(k) /\ Grows /\ call[k] \in Call BY GrowsStep DEF CallInv
<1>1. sseClient <= sseClient' /\ (setup.pc = "ready" => setup' = setup) BY <1>0 DEF Grows
<1>2. sseClient' \in Nat BY TypeStep DEF TypeOK
<1>3. ASSUME NEW j \in Calls, Same(j, k), call[k].id > 0
      PROVE  /\ call'[j].at = call'[k].at /\ call'[j].id = call'[k].id
             /\ call'[k].id = call[k].id
  BY <1>3, NumbersStay DEF Same
<1>4. ASSUME call'[k].pc = call[k].pc \/ /\ call[k].pc \notin {"unused", "loaded"}
                                         /\ call'[k].pc \notin {"unused", "loaded"},
             call'[k].at = call[k].at, call'[k].id = call[k].id,
             call'[k].respChan \in Calls => Same(call'[k].respChan, k) /\ call[k].id > 0,
             call'[k].result \in Calls => Same(call'[k].result, k) /\ call[k].id > 0
      PROVE  CallOK(k)'
  <2>1. call'[k].pc # "unused" =>
           setup'.pc = "ready" /\ call'[k].at \in Clients /\ call'[k].at <= sseClient'
    BY <1>0, <1>1, <1>2, <1>4 DEF CallOK, Clients
  <2>2. call'[k].pc = "unused" => call'[k].at = None BY <1>0, <1>4 DEF CallOK
  <2>3. call'[k].pc \in {"unused", "loaded"} <=> call'[k].id = 0 BY <1>0, <1>4 DEF CallOK
  <2>4. call'[k].respChan \in Calls => Same(call[k].respChan, k)' /\ call'[k].id > 0
    BY <1>3, <1>4 DEF Same
  <2>5. call'[k].result \in Calls => Same(call[k].result, k)' /\ call'[k].id > 0
    BY <1>3, <1>4 DEF Same
  <2> QED BY <2>1, <2>2, <2>3, <2>4, <2>5 DEF CallOK
<1>5. CASE call'[k] = call[k] BY <1>0, <1>4, <1>5 DEF CallOK
<1>6. ASSUME NEW c \in Clients, NEW by \in Closers, CloseChannels(c, by) PROVE CallOK(k)'
  <2>1. call'[k] = call[k] \/ call'[k] = [call[k] EXCEPT !.respChan = "closed"]
    BY <1>6 DEF CloseChannels
  <2>2. CASE call'[k] = [call[k] EXCEPT !.respChan = "closed"]
    <3>1. /\ call'[k].pc = call[k].pc /\ call'[k].at = call[k].at /\ call'[k].id = call[k].id
          /\ call'[k].respChan = "closed" /\ call'[k].result = call[k].result
      BY <1>0, <2>2 DEF Call
    <3> QED BY <1>0, <1>4, <3>1, NoCalls DEF CallOK
  <2> QED BY <1>5, <2>1, <2>2
<1>7. ASSUME NEW c \in Clients, HandleMessage(c) PROVE CallOK(k)'
  <2>1. PICK r \in server :
          /\ r.to = c
          /\ LET i == mcp[c].responseChannels[r.id] IN
             IF i = None THEN call' = call
             ELSE call' = [call EXCEPT ![i].respChan = r.what]
    BY <1>7 DEF HandleMessage
  <2>2. r.id \in Ids BY DEF TypeOK
  <2>3. CASE mcp[c].responseChannels[r.id] = k
    <3>1. call'[k] = [call[k] EXCEPT !.respChan = r.what] BY <2>1, <2>3, NoCalls
    <3>2. /\ call'[k].pc = call[k].pc /\ call'[k].at = call[k].at /\ call'[k].id = call[k].id
          /\ call'[k].respChan = r.what /\ call'[k].result = call[k].result
      BY <1>0, <3>1 DEF Call
    <3>3. call[k].at = c /\ call[k].id = r.id BY <2>2, <2>3, NoCalls DEF ChannelInv
    <3>4. r.what \in Calls => call[r.what].at = c /\ call[r.what].id = r.id /\ r.id > 0
      BY <2>1 DEF ServerInv
    <3>5. r.what \in Calls => Same(r.what, k) /\ call[k].id > 0 BY <3>3, <3>4 DEF Same
    <3> QED BY <1>0, <1>4, <3>2, <3>5 DEF CallOK
  <2>4. CASE mcp[c].responseChannels[r.id] # k
    <3>1. call'[k] = call[k] BY <2>1, <2>4
    <3> QED BY <1>5, <3>1
  <2> QED BY <2>3, <2>4
<1>8. ASSUME NEW c \in Clients,
             StopEvents(c) \/ Endpoint(c) \/ AskInitialize(c) \/ AskTools(c)
      PROVE  CallOK(k)'
  <2>1. call' = call BY <1>8 DEF StopEvents, Endpoint, AskInitialize, AskTools
  <2> QED BY <1>5, <2>1
<1>9. ASSUME NEW i \in Calls, i # k, CallTool(i) \/ Step(i) PROVE CallOK(k)'
  <2>1. call'[k] = call[k]
    BY <1>9 DEF CallTool, Step, CallFunction, Post, Posted, PostFails, Answer, Timeout, Return
  <2> QED BY <1>5, <2>1
<1>10. ASSUME ~fatal, CallTool(k) PROVE CallOK(k)'
  <2>1. call' = [call EXCEPT ![k].pc = "loaded", ![k].at = sseClient] BY <1>10 DEF CallTool
  <2>2. /\ call'[k].pc = "loaded" /\ call'[k].at = sseClient /\ call'[k].id = call[k].id
        /\ call'[k].respChan = call[k].respChan /\ call'[k].result = call[k].result
    BY <1>0, <2>1 DEF Call
  <2>3. setup' = setup /\ setup.pc = "ready" /\ sseClient' = sseClient /\ call[k].pc = "unused"
    BY <1>10 DEF CallTool
  <2>4. call[k].id = 0 BY <1>0, <2>3 DEF CallOK
  <2>5. call[k].respChan \notin Calls /\ call[k].result \notin Calls
    BY <1>0, <2>4 DEF CallOK
  <2>6. sseClient \in Clients /\ sseClient <= sseClient
    BY <1>10, <2>3 DEF SetupInv, TypeOK, Clients
  <2> QED BY <2>2, <2>3, <2>4, <2>5, <2>6 DEF CallOK
<1>11. CASE CallFunction(k)
  <2>1. call[k].pc = "loaded" /\ setup' = setup /\ sseClient' = sseClient BY <1>11 DEF CallFunction
  <2>2. call[k].id = 0 /\ setup.pc = "ready" /\ call[k].at \in Clients /\ call[k].at <= sseClient
    BY <1>0, <2>1 DEF CallOK
  <2>3. call' = [call EXCEPT ![k].pc = "registered",
                             ![k].id = NextId(mcp[call[k].at].messageID),
                             ![k].early = ~mcp[call[k].at].initChan]
    BY <1>11 DEF CallFunction
  <2>4. /\ call'[k].pc = "registered" /\ call'[k].at = call[k].at
        /\ call'[k].id = NextId(mcp[call[k].at].messageID)
        /\ call'[k].respChan = call[k].respChan /\ call'[k].result = call[k].result
    BY <1>0, <2>3 DEF Call
  <2>5. call[k].respChan \notin Calls /\ call[k].result \notin Calls
    BY <1>0, <2>2 DEF CallOK
  <2>6. call'[k].id > 0 /\ call'[k].id \in Nat BY <2>2, <2>4, NextIdFacts
  <2> QED BY <2>1, <2>2, <2>4, <2>5, <2>6 DEF CallOK
<1>12. CASE Post(k) \/ Posted(k)
  <2>1. /\ call[k].pc \in {"registered", "posting"}
        /\ \E x \in {"posting", "waiting"} : call'[k] = [call[k] EXCEPT !.pc = x]
    BY <1>12 DEF Post, Posted
  <2>2. /\ call'[k].pc \in {"posting", "waiting"} /\ call'[k].at = call[k].at
        /\ call'[k].id = call[k].id
        /\ call'[k].respChan = call[k].respChan /\ call'[k].result = call[k].result
    BY <1>0, <2>1 DEF Call
  <2> QED BY <1>0, <1>4, <2>1, <2>2 DEF CallOK
<1>13. CASE PostFails(k) \/ Answer(k) \/ Timeout(k)
  <2>1. /\ call[k].pc \in {"registered", "posting", "waiting"}
        /\ \/ call' = call
           \/ \E x \in {"failed", "timeout", call[k].respChan} :
                 call' = [call EXCEPT ![k].pc = "returned", ![k].result = x]
    BY <1>13 DEF PostFails, NotPosted, Answer, Timeout, Return
  <2>2. ASSUME NEW x \in {"failed", "timeout", call[k].respChan},
               call' = [call EXCEPT ![k].pc = "returned", ![k].result = x]
        PROVE  CallOK(k)'
    <3>1. /\ call'[k].pc = "returned" /\ call'[k].at = call[k].at
          /\ call'[k].id = call[k].id
          /\ call'[k].respChan = call[k].respChan /\ call'[k].result = x
      BY <1>0, <2>2 DEF Call
    <3> QED BY <1>0, <1>4, <2>1, <3>1, NoCalls DEF CallOK
  <2> QED BY <1>5, <2>1, <2>2
<1>14. CASE Quiet BY <1>5, <1>14 DEF Quiet
<1> QED BY <1>6, <1>7, <1>8, <1>9, <1>10, <1>11, <1>12, <1>13, <1>14, QuietSteps
        DEF Next, Client, Network, Close, Step

\* A request carries the number that its call has, on the client that the call loaded
LEMMA ServerStep ==
    ASSUME TypeOK, CountInv, CallInv, ServerInv, [Next]_vars
    PROVE  ServerInv'
<1> USE FieldTypes
<1> SUFFICES ASSUME NEW r \in server', r.what \in Calls
             PROVE  call'[r.what].at = r.to /\ call'[r.what].id = r.id /\ r.id > 0
  BY DEF ServerInv
<1>1. CASE r \in server
  <2>1. call[r.what].at = r.to /\ call[r.what].id = r.id /\ r.id > 0
    BY <1>1 DEF ServerInv
  <2> QED BY <2>1, NumbersStay
<1>2. ASSUME NEW c, NEW n, NEW what, Ask(c, n, what), r \notin server
      PROVE  r.to = c /\ r.id = n /\ r.what = what
  BY <1>2 DEF Ask
<1>3. CASE server' \subseteq server BY <1>1, <1>3
<1>4. ASSUME NEW c \in Clients, AskInitialize(c) \/ AskTools(c), r \notin server PROVE FALSE
  <2>1. r.what \in {"initialize", "tools"} BY <1>2, <1>4 DEF AskInitialize, AskTools
  <2> QED BY <2>1, NoCalls
<1>5. ASSUME NEW k \in Calls, Post(k), r \notin server
      PROVE  call'[r.what].at = r.to /\ call'[r.what].id = r.id /\ r.id > 0
  <2>1. r.to = call[k].at /\ r.id = call[k].id /\ r.what = k BY <1>2, <1>5 DEF Post
  <2>2. call[k].pc = "registered" /\ CallOK(k) BY <1>5 DEF Post, CallInv
  <2>3. call[k].id > 0 BY <2>2 DEF CallOK
  <2> QED BY <2>1, <2>3, NumbersStay
<1>6. ASSUME NEW c \in Clients,
             \/ \E by \in Closers : CloseChannels(c, by)
             \/ StopEvents(c) \/ Endpoint(c) \/ HandleMessage(c)
      PROVE  server' \subseteq server
  BY <1>6 DEF CloseChannels, StopEvents, Endpoint, HandleMessage
<1>7. ASSUME NEW k \in Calls, CallTool(k) \/ CallFunction(k) \/ Posted(k) \/ PostFails(k)
                              \/ Answer(k) \/ Timeout(k)
      PROVE  server' = server
  BY <1>7 DEF CallTool, CallFunction, Posted, PostFails, Answer, Timeout
<1>8. CASE Quiet BY <1>3, <1>8 DEF Quiet
<1> QED BY <1>1, <1>3, <1>4, <1>5, <1>6, <1>7, <1>8, QuietSteps
        DEF Next, Client, Network, Close, Step

-----------------------------------------------------------------------------
(* Channels *)

\* A call that took its number and did not return
InCall(k) == call[k].pc \in {"registered", "posting", "waiting"}

\* Such a call goes on until it returns, and then its channel is gone
LEMMA CallsGoOn ==
    ASSUME TypeOK, CallInv, [Next]_vars, NEW k \in Calls, InCall(k)
    PROVE  \/ InCall(k)'
           \/ mcp'[call[k].at].responseChannels =
                 [mcp[call[k].at].responseChannels EXCEPT ![call[k].id] = None]
<1> USE FieldTypes
<1>0. call[k].at \in Clients /\ call[k] \in Call BY DEF CallInv, CallOK, InCall
<1>1. CASE call'[k].pc = call[k].pc BY <1>1 DEF InCall
<1>2. CASE call' = call BY <1>1, <1>2
<1>3. ASSUME NEW c \in Clients, \/ \E by \in Closers : CloseChannels(c, by)
                                \/ HandleMessage(c)
      PROVE  call'[k].pc = call[k].pc
  <2>1. \/ call'[k] = call[k]
        \/ \E x : call'[k] = [call[k] EXCEPT !.respChan = x]
    <3>1. CASE \E by \in Closers : CloseChannels(c, by) BY <3>1 DEF CloseChannels
    <3>2. CASE HandleMessage(c)
      <4>1. call' = call \/ \E i, x : call' = [call EXCEPT ![i].respChan = x]
        BY <3>2, Handles
      <4> QED BY <4>1
    <3> QED BY <1>3, <3>1, <3>2
  <2> QED BY <1>0, <2>1 DEF Call
<1>4. ASSUME NEW c \in Clients,
             StopEvents(c) \/ Endpoint(c) \/ AskInitialize(c) \/ AskTools(c)
      PROVE  call' = call
  BY <1>4 DEF StopEvents, Endpoint, AskInitialize, AskTools
<1>5. ASSUME NEW i \in Calls, i # k, CallTool(i) \/ Step(i) PROVE call'[k].pc = call[k].pc
  BY <1>5 DEF CallTool, Step, CallFunction, Post, Posted, PostFails, Answer, Timeout, Return
<1>6. CASE CallTool(k) \/ CallFunction(k) BY <1>6 DEF CallTool, CallFunction, InCall
<1>7. CASE Post(k) \/ Posted(k)
  <2>1. \E x \in {"posting", "waiting"} : call'[k] = [call[k] EXCEPT !.pc = x]
    BY <1>7 DEF Post, Posted
  <2> QED BY <1>0, <2>1 DEF InCall, Call
<1>8. CASE PostFails(k) \/ Answer(k) \/ Timeout(k)
  BY <1>2, <1>8, Ends
<1>9. CASE Quiet BY <1>2, <1>9 DEF Quiet
<1> QED BY <1>1, <1>2, <1>3, <1>4, <1>5, <1>6, <1>7, <1>8, <1>9, QuietSteps
        DEF Next, Client, Network, Close, Step

\* A step registers the channel of one call that takes its number, or leaves channels out
LEMMA ChannelMoves ==
    ASSUME TypeOK, CallInv, [Next]_vars, NEW c \in Clients, NEW n \in Ids
    PROVE  \/ mcp'[c].responseChannels[n] \in {mcp[c].responseChannels[n], None}
           \/ \E k \in Calls : /\ CallFunction(k) /\ call[k].at = c
                               /\ n = NextId(mcp[c].messageID)
                               /\ mcp'[c].responseChannels[n] = k
<1> USE FieldTypes
<1>0. mcp[c] \in MCPSSEClient OBVIOUS
<1>1. CASE mcp'[c].responseChannels = mcp[c].responseChannels BY <1>1
<1>2. ASSUME NEW d \in Clients, NEW by \in Closers, CloseChannels(d, by)
      PROVE  mcp'[c].responseChannels[n] \in {mcp[c].responseChannels[n], None}
  <2>1. CASE c # d BY <1>2, <2>1 DEF CloseChannels
  <2>2. CASE c = d
    <3>1. mcp'[c].responseChannels = [i \in Ids |-> None]
      BY <1>0, <1>2, <2>2 DEF CloseChannels, MCPSSEClient
    <3> QED BY <3>1
  <2> QED BY <2>1, <2>2
<1>3. ASSUME NEW d \in Clients,
             StopEvents(d) \/ Endpoint(d) \/ HandleMessage(d) \/ AskInitialize(d) \/ AskTools(d)
      PROVE  mcp'[c].responseChannels = mcp[c].responseChannels
  <2>1. CASE c # d
    BY <1>3, <2>1 DEF StopEvents, Endpoint, HandleMessage, AskInitialize, AskTools
  <2>2. CASE c = d
    <3>1. CASE StopEvents(c) \/ Endpoint(c) BY <1>0, <3>1 DEF StopEvents, Endpoint, MCPSSEClient
    <3>2. CASE HandleMessage(c) BY <3>2, Handles
    <3>3. CASE AskInitialize(c) BY <1>0, <3>3 DEF AskInitialize, MCPSSEClient
    <3>4. CASE AskTools(c) BY <1>0, <3>4 DEF AskTools, MCPSSEClient
    <3> QED BY <1>3, <2>2, <3>1, <3>2, <3>3, <3>4
  <2> QED BY <2>1, <2>2
<1>4. ASSUME NEW k \in Calls, CallTool(k) \/ Post(k) \/ Posted(k) PROVE mcp' = mcp
  BY <1>4 DEF CallTool, Post, Posted
<1>5. ASSUME NEW k \in Calls, PostFails(k) \/ Answer(k) \/ Timeout(k)
      PROVE  mcp'[c].responseChannels[n] \in {mcp[c].responseChannels[n], None}
  <2> DEFINE d == call[k].at
  <2>1. /\ \A e \in Clients \ {d} : mcp'[e] = mcp[e]
        /\ mcp'[d].responseChannels \in
              {mcp[d].responseChannels, [mcp[d].responseChannels EXCEPT ![call[k].id] = None]}
    BY <1>5, Ends
  <2> HIDE DEF d
  <2>2. CASE d # c BY <2>1, <2>2
  <2>3. CASE d = c BY <1>0, <2>1, <2>3 DEF MCPSSEClient
  <2> QED BY <2>2, <2>3
<1>6. ASSUME NEW k \in Calls, CallFunction(k)
      PROVE  \/ mcp'[c].responseChannels[n] \in {mcp[c].responseChannels[n], None}
             \/ /\ call[k].at = c /\ n = NextId(mcp[c].messageID)
                /\ mcp'[c].responseChannels[n] = k
  <2>1. CASE call[k].at # c
    <3>1. \A d \in Clients \ {call[k].at} : mcp'[d] = mcp[d] BY <1>6, TakesNumber
    <3> QED BY <2>1, <3>1
  <2>2. CASE call[k].at = c
    <3>1. mcp'[c].responseChannels =
             [mcp[c].responseChannels EXCEPT ![NextId(mcp[c].messageID)] = k]
      BY <1>6, <2>2, TakesNumber
    <3> QED BY <2>2, <3>1
  <2> QED BY <2>1, <2>2
<1>7. CASE Quiet BY <1>1, <1>7 DEF Quiet, Still
<1> QED BY <1>1, <1>2, <1>3, <1>4, <1>5, <1>6, <1>7, QuietSteps
        DEF Next, Client, Network, Close, Step

\* Only calls in progress have channels, each its own, under its number
LEMMA ChannelStep ==
    ASSUME TypeOK, CallInv, ChannelInv, [Next]_vars
    PROVE  ChannelInv'
<1> USE FieldTypes
<1> SUFFICES ASSUME NEW c \in Clients, NEW n \in Ids, NEW k, k = mcp'[c].responseChannels[n],
                    k # None
             PROVE  Busy(k)' /\ call'[k].pc # "loaded" /\ call'[k].at = c /\ call'[k].id = n
  BY DEF ChannelInv
<1>1. CASE k = mcp[c].responseChannels[n]
  <2>1. k \in Calls BY <1>1
  <2>2. /\ InCall(k) /\ call[k].at = c /\ call[k].id = n
    <3>1. Busy(k) /\ call[k].pc # "loaded" /\ call[k].at = c /\ call[k].id = n
      BY <1>1 DEF ChannelInv
    <3>2. call[k] \in Call BY <2>1
    <3> QED BY <3>1, <3>2 DEF InCall, Busy, Call
  <2>3. call[k].id > 0 BY <2>1, <2>2 DEF CallInv, CallOK, InCall
  <2>4. call'[k].at = c /\ call'[k].id = n BY <2>1, <2>2, <2>3, NumbersStay
  <2>5. CASE InCall(k)' BY <2>4, <2>5 DEF InCall, Busy
  <2>6. CASE mcp'[c].responseChannels = [mcp[c].responseChannels EXCEPT ![n] = None]
    <3>1. mcp'[c].responseChannels[n] = None BY <2>6
    <3> QED BY <3>1
  <2> QED BY <2>1, <2>2, <2>5, <2>6, CallsGoOn
<1>2. ASSUME NEW i \in Calls, CallFunction(i), call[i].at = c, n = NextId(mcp[c].messageID), k = i
      PROVE  Busy(k)' /\ call'[k].pc # "loaded" /\ call'[k].at = c /\ call'[k].id = n
  <2>1. call'[k].at = c /\ call'[k].id = n
    <3>1. call'[i].at = call[i].at /\ call'[i].id = NextId(mcp[call[i].at].messageID)
      BY <1>2, TakesNumber
    <3> QED BY <1>2, <3>1
  <2>2. call' = [call EXCEPT ![k].pc = "registered", ![k].id = NextId(mcp[c].messageID),
                             ![k].early = ~mcp[c].initChan]
    BY <1>2 DEF CallFunction
  <2>3. call'[k].pc = "registered" BY ZenonT(60), <1>2, <2>2 DEF Call
  <2> QED BY <2>1, <2>3 DEF Busy
<1> QED BY <1>1, <1>2, ChannelMoves

-----------------------------------------------------------------------------
(* Endpoints, tools and NewSSEFuncCall *)

\* What a client was told stays, and only its request for the tools makes it known anew
LEMMA FlagMoves ==
    ASSUME TypeOK, CallInv, [Next]_vars, NEW c \in Clients
    PROVE  /\ mcp[c].tools => mcp'[c].tools
           /\ mcp[c].initChan => mcp'[c].initChan
           /\ Told(c)' => Told(c) \/ AskTools(c)
           /\ mcp'[c].initChan => mcp[c].initChan \/ AskTools(c)
<1> USE FieldTypes
<1>0. mcp[c] \in MCPSSEClient OBVIOUS
<1> DEFINE Kept == /\ mcp'[c].tools = mcp[c].tools /\ mcp'[c].initChan = mcp[c].initChan
                   /\ \A r \in server' : r \notin server => r.what # "tools"
<1>1. ASSUME Kept PROVE /\ mcp[c].tools => mcp'[c].tools
                        /\ mcp[c].initChan => mcp'[c].initChan
                        /\ Told(c)' => Told(c)
                        /\ mcp'[c].initChan => mcp[c].initChan
  BY <1>1 DEF Told
<1>2. ASSUME Quiet PROVE Kept BY <1>2 DEF Quiet, Still
<1>3. ASSUME NEW d \in Clients,
             StopEvents(d) \/ Endpoint(d) \/ \E by \in Closers : CloseChannels(d, by)
      PROVE  Kept
  <2>1. server' \subseteq server BY <1>3 DEF StopEvents, Endpoint, CloseChannels
  <2>2. CASE c # d BY <1>3, <2>1, <2>2 DEF StopEvents, Endpoint, CloseChannels
  <2>3. CASE c = d
    <3>1. CASE StopEvents(c) \/ Endpoint(c)
      BY <1>0, <2>1, <3>1 DEF StopEvents, Endpoint, MCPSSEClient
    <3>2. CASE \E by \in Closers : CloseChannels(c, by)
      BY <1>0, <2>1, <3>2 DEF CloseChannels, MCPSSEClient
    <3> QED BY <1>3, <2>3, <3>1, <3>2
  <2> QED BY <2>2, <2>3
<1>4. ASSUME NEW d \in Clients, AskInitialize(d) PROVE Kept
  <2>1. \A r \in server' : r \notin server => r.what # "tools" BY <1>4 DEF AskInitialize, Ask
  <2>2. CASE c # d BY <1>4, <2>1, <2>2 DEF AskInitialize
  <2>3. CASE c = d BY <1>0, <1>4, <2>1, <2>3 DEF AskInitialize, MCPSSEClient
  <2> QED BY <2>2, <2>3
<1>5. ASSUME NEW d \in Clients, AskTools(d), d # c
      PROVE  /\ mcp'[c] = mcp[c]
             /\ \A r \in server' : r \notin server => r.to # c
  BY <1>5 DEF AskTools, Ask
<1>6. ASSUME NEW d \in Clients, AskTools(d), d # c
      PROVE  Told(c)' => Told(c)
  BY <1>5, <1>6 DEF Told
<1>7. CASE AskTools(c)
  <2>1. mcp'[c].tools = mcp[c].tools BY <1>0, <1>7 DEF AskTools, MCPSSEClient
  <2>2. mcp'[c].initChan = TRUE \/ mcp'[c].initChan = mcp[c].initChan
    BY <1>0, <1>7 DEF AskTools, MCPSSEClient
  <2> QED BY <1>7, <2>1, <2>2
<1>8. ASSUME NEW d \in Clients, HandleMessage(d)
      PROVE  /\ mcp[c].tools => mcp'[c].tools
             /\ mcp'[c].initChan = mcp[c].initChan
             /\ Told(c)' => Told(c)
  <2>1. PICK r \in server :
          /\ r.to = d /\ server' \subseteq server
          /\ \/ mcp' = [mcp EXCEPT ![d].tools = @ \/ (r.id = 1 /\ r.what = "tools")]
             \/ mcp' = [mcp EXCEPT ![d].tools = @ \/ (r.id = 1 /\ r.what = "tools"),
                                   ![d].doubled = TRUE]
    BY <1>8 DEF HandleMessage
  <2>2. CASE c # d BY <2>1, <2>2 DEF Told
  <2>3. CASE c = d
    <3>1. /\ mcp'[c].tools = (mcp[c].tools \/ (r.id = 1 /\ r.what = "tools"))
          /\ mcp'[c].initChan = mcp[c].initChan
      BY <1>0, <2>1, <2>3 DEF MCPSSEClient
    <3>2. mcp'[c].tools => Told(c) BY <2>1, <2>3, <3>1 DEF Told
    <3> QED BY <2>1, <3>1, <3>2 DEF Told
  <2> QED BY <2>2, <2>3
<1>9. ASSUME NEW k \in Calls, CallTool(k) \/ CallFunction(k) \/ Posted(k) \/ PostFails(k)
                              \/ Answer(k) \/ Timeout(k) \/ Post(k)
      PROVE  Kept
  <2>1. \A r \in server' : r \notin server => r.what # "tools"
    <3>1. CASE Post(k) BY <3>1, NoCalls DEF Post, Ask
    <3>2. CASE ~Post(k)
      BY <1>9, <3>2 DEF CallTool, CallFunction, Posted, PostFails, Answer, Timeout
    <3> QED BY <3>1, <3>2
  <2>2. CASE CallTool(k) \/ Post(k) \/ Posted(k)
    <3>1. mcp' = mcp BY <2>2 DEF CallTool, Post, Posted
    <3> QED BY <2>1, <3>1
  <2>3. CASE CallFunction(k)
    <3> DEFINE d == call[k].at
    <3>1. d \in Clients /\ \A e \in Clients \ {d} : mcp'[e] = mcp[e] BY <2>3, TakesNumber
    <3>2. PICK n, i : mcp' = [mcp EXCEPT ![d].messageID = n, ![d].responseChannels[n] = i]
      BY <2>3 DEF CallFunction
    <3>3. mcp'[d].tools = mcp[d].tools /\ mcp'[d].initChan = mcp[d].initChan
      BY <3>1, <3>2 DEF MCPSSEClient
    <3> HIDE DEF d
    <3> QED BY <2>1, <3>1, <3>3
  <2>4. CASE PostFails(k) \/ Answer(k) \/ Timeout(k)
    <3> DEFINE d == call[k].at
    <3>1. /\ \A e \in Clients \ {d} : mcp'[e] = mcp[e]
          /\ mcp'[d].tools = mcp[d].tools /\ mcp'[d].initChan = mcp[d].initChan
      BY <2>4, Ends DEF Rest
    <3> HIDE DEF d
    <3> QED BY <2>1, <3>1
  <2> HIDE DEF Kept
  <2> QED BY <1>9, <2>2, <2>3, <2>4
<1> HIDE DEF Kept
<1> QED BY <1>1, <1>2, <1>3, <1>4, <1>5, <1>6, <1>7, <1>8, <1>9, QuietSteps
        DEF Next, Client, Network, Close, Step

\* Two counts that are one at most together
LEMMA OneAtMost ==
    ASSUME NEW a \in Nat, NEW b \in Nat, NEW n \in Nat, a + b <= n, n <= 1, b > 0
    PROVE  a = 0 /\ b = 1
OBVIOUS

\* A client without an endpoint knows nothing; one endpoint starts one initializeEndpoint
LEMMA EndpointStep ==
    ASSUME TypeOK, CallInv, CountInv, EndpointInv, [Next]_vars
    PROVE  EndpointInv'
<1> USE FieldTypes
<1> SUFFICES ASSUME NEW c \in Clients PROVE EndpointOK(c)' BY DEF EndpointInv
<1>0. EndpointOK(c) /\ CountOK(c) BY DEF EndpointInv, CountInv
<1>1. ASSUME CountersKept(c), ~AskTools(c) PROVE EndpointOK(c)'
  BY <1>0, <1>1, FlagMoves DEF EndpointOK, CountersKept
<1>2. CASE Endpoint(c)
  <2>1. mcp' = [mcp EXCEPT ![c].endpointURL = @ + 1, ![c].asking = @ + 1] /\ server' = server
    BY <1>2 DEF Endpoint
  <2>2. /\ mcp'[c].endpointURL = mcp[c].endpointURL + 1
        /\ mcp'[c].initChan = mcp[c].initChan
    BY <2>1 DEF MCPSSEClient
  <2>3. mcp[c].initChan => mcp[c].endpointURL > 0 BY <1>0 DEF EndpointOK, Told
  <2> QED BY <2>2, <2>3 DEF EndpointOK
<1>3. CASE AskInitialize(c)
  <2>1. mcp[c].asking > 0 BY <1>3 DEF AskInitialize
  <2>2. mcp'[c].endpointURL = mcp[c].endpointURL /\ mcp'[c].initChan = mcp[c].initChan
    BY <1>3 DEF AskInitialize, MCPSSEClient
  <2>3. mcp[c].endpointURL > 0 BY <1>0, <2>1 DEF CountOK
  <2> QED BY <1>0, <2>1, <2>2, <2>3 DEF EndpointOK
<1>4. CASE AskTools(c)
  <2>1. mcp[c].listing > 0 BY <1>4 DEF AskTools
  <2>2. /\ mcp'[c].endpointURL = mcp[c].endpointURL /\ mcp'[c].asking = mcp[c].asking
        /\ mcp'[c].listing = mcp[c].listing - 1
    BY <1>4 DEF AskTools, MCPSSEClient
  <2>3. mcp[c].endpointURL > 0 BY <1>0, <2>1 DEF CountOK
  <2>4. mcp[c].endpointURL <= 1 => mcp[c].asking = 0 /\ mcp[c].listing = 1
    <3>1. mcp[c].asking \in Nat /\ mcp[c].listing \in Nat /\ mcp[c].endpointURL \in Nat
      OBVIOUS
    <3>2. mcp[c].asking + mcp[c].listing <= mcp[c].endpointURL BY <1>0 DEF CountOK
    <3> QED BY <2>1, <3>1, <3>2, OneAtMost
  <2> QED BY <2>2, <2>3, <2>4 DEF EndpointOK
<1>5. ASSUME NEW d \in Clients, d # c, Endpoint(d) \/ AskInitialize(d) \/ AskTools(d)
      PROVE  CountersKept(c)
  BY <1>5, CountMoves
<1>6. ASSUME NEW k \in Calls, CallFunction(k) PROVE EndpointOK(c)'
  <2>1. mcp'[c].endpointURL = mcp[c].endpointURL /\ mcp'[c].asking = mcp[c].asking
        /\ mcp'[c].listing = mcp[c].listing
    <3>1. CASE c = call[k].at BY <1>6, <3>1, TakesNumber
    <3>2. CASE c # call[k].at
      <4>1. \A d \in Clients \ {call[k].at} : mcp'[d] = mcp[d] BY <1>6, TakesNumber
      <4> QED BY <3>2, <4>1
    <3> QED BY <3>1, <3>2
  <2>2. mcp'[c].initChan = mcp[c].initChan /\ mcp'[c].tools = mcp[c].tools /\ server' = server
    <3>1. server' = server /\ \E n, i : mcp' = [mcp EXCEPT ![call[k].at].messageID = n,
                                        ![call[k].at].responseChannels[n] = i]
      BY <1>6 DEF CallFunction
    <3>2. CASE c = call[k].at BY <3>1, <3>2 DEF MCPSSEClient
    <3>3. CASE c # call[k].at BY <3>1, <3>3
    <3> QED BY <3>1, <3>2, <3>3
  <2> QED BY <1>0, <2>1, <2>2 DEF EndpointOK, Told
<1>7. CASE ~Counting
  <2>1. CountersKept(c) /\ ~AskTools(c) BY <1>7, NoCounting DEF Counting
  <2> QED BY <1>1, <2>1
<1>8. ASSUME NEW d \in Clients, d # c, Endpoint(d) \/ AskInitialize(d) \/ AskTools(d)
      PROVE  EndpointOK(c)'
  <2>1. CASE AskTools(c) BY <1>4, <2>1
  <2>2. CASE ~AskTools(c) BY <1>1, <1>5, <1>8, <2>2
  <2> QED BY <2>1, <2>2
<1> QED BY <1>2, <1>3, <1>4, <1>6, <1>7, <1>8 DEF Counting

\* The client that NewSSEFuncCall polls is one of RunRoutine's, and ready means it has tools
LEMMA SetupStep ==
    ASSUME TypeOK, CallInv, SetupInv, [Next]_vars
    PROVE  SetupInv'
<1> USE FieldTypes
<1>0. sseClient <= sseClient' BY GrowsStep DEF Grows
<1>1. ASSUME NEW c \in Clients, mcp[c].tools PROVE mcp'[c].tools BY <1>1, FlagMoves
<1>2. ASSUME setup' = setup, ctx' => ctx, sseClient' \in Int,
             routine' # "start" => routine # "start" \/ sseClient' > 0, ~fatal
      PROVE  SetupInv'
  BY <1>0, <1>1, <1>2 DEF SetupInv, Clients
<1>3. CASE UNCHANGED vars BY <1>3 DEF vars, SetupInv
<1>4. ASSUME ~fatal, Routine, ~Initialized PROVE SetupInv'
  <2>1. setup' = setup /\ ctx' = ctx /\ sseClient' \in {sseClient, sseClient + 1}
    BY <1>4 DEF Routine, Start, OldClosed, Reconnect, Stop
  <2>2. routine' # "start" => routine # "start" \/ sseClient' > 0
    BY <1>4 DEF Routine, Start, OldClosed, Reconnect, Stop
  <2> QED BY <1>2, <1>4, <2>1, <2>2
<1>5. ASSUME ~fatal, InitTimeout \/ Cancel PROVE SetupInv'
  <2>1. CASE InitTimeout
    <3>1. setup' = setup /\ ctx' = ctx /\ sseClient' = sseClient /\ routine = "init"
      BY <2>1 DEF InitTimeout
    <3> QED BY <1>2, <1>5, <3>1
  <2>2. CASE Cancel
    <3>1. setup' = setup /\ ctx' = FALSE /\ sseClient' = sseClient /\ routine' = routine
      BY <2>2 DEF Cancel
    <3> QED BY <1>2, <1>5, <3>1
  <2> QED BY <1>5, <2>1, <2>2
<1>6. ASSUME ~fatal, Initialized PROVE SetupInv'
  <2>1. /\ routine = "init" /\ mcp' = mcp /\ ctx' = ctx /\ sseClient' = sseClient
        /\ setup' = IF setup.pc = "waits" THEN [setup EXCEPT !.pc = "returned"] ELSE setup
    BY <1>6 DEF Initialized
  <2>2. sseClient > 0 BY <2>1 DEF SetupInv
  <2>3. CASE setup.pc = "waits"
    <3>1. setup'.pc = "returned" BY <2>1, <2>3 DEF TypeOK
    <3> QED BY <2>1, <2>2, <3>1 DEF SetupInv
  <2>4. CASE setup.pc # "waits"
    <3>1. setup' = setup BY <2>1, <2>4
    <3> QED BY <1>6, <2>1, <2>2, <3>1 DEF SetupInv
  <2> QED BY <2>3, <2>4
<1>7. ASSUME ~fatal, Setup PROVE SetupInv'
  <2>1. mcp' = mcp /\ ctx' = ctx /\ sseClient' = sseClient /\ routine' = routine
    BY <1>7 DEF Setup, SetupCancelled, UpdateTools, GotTools
  <2>2. CASE SetupCancelled
    <3>1. setup' = [setup EXCEPT !.pc = "returned"] /\ ~ctx BY <2>2 DEF SetupCancelled
    <3>2. setup'.pc = "returned" BY <3>1 DEF TypeOK
    <3> QED BY <2>1, <3>1, <3>2 DEF SetupInv
  <2>3. CASE UpdateTools
    <3>1. /\ Panic(sseClient = 0, "sseClient")
          /\ setup' = [pc |-> "polls", at |-> IF sseClient = 0 THEN None ELSE sseClient]
      BY <2>3 DEF UpdateTools
    <3>2. sseClient > 0 => setup'.at = sseClient /\ sseClient \in Clients
      BY <3>1 DEF TypeOK, Clients
    <3>3. setup'.pc = "polls" BY <3>1
    <3>4. CASE sseClient = 0
      <4>1. fatal' BY <3>1, <3>4, NamesAssumption
      <4> QED BY <2>1, <3>3, <4>1 DEF SetupInv
    <3>5. CASE sseClient > 0 BY <2>1, <3>2, <3>3, <3>5 DEF SetupInv
    <3> QED BY <3>4, <3>5
  <2>4. CASE GotTools
    <3>1. /\ setup.pc = "polls" /\ panic' = panic
          /\ setup' = [setup EXCEPT !.pc = IF mcp[setup.at].tools THEN "ready" ELSE "none"]
      BY <2>4 DEF GotTools
    <3>2. /\ setup'.at = setup.at
          /\ setup'.pc = IF mcp[setup.at].tools THEN "ready" ELSE "none"
      BY <3>1 DEF TypeOK
    <3> QED BY <1>7, <2>1, <3>1, <3>2 DEF SetupInv
  <2> QED BY <1>7, <2>2, <2>3, <2>4 DEF Setup
<1>8. ASSUME ~fatal, NEW c \in Clients, Client(c) \/ Network(c) PROVE SetupInv'
  <2>1. setup' = setup /\ ctx' = ctx /\ sseClient' = sseClient /\ routine' = routine
    BY <1>8 DEF Client, Network, Close, CloseStop, CloseClient, CloseChannels, StopEvents,
                AskInitialize, AskTools, Connect, ConnectFails, Disconnect, Endpoint,
                HandleMessage
  <2> QED BY SMTT(30), <1>2, <1>8, <2>1
<1>9. ASSUME ~fatal, NEW k \in Calls, CallTool(k) \/ Step(k) PROVE SetupInv'
  <2>1. setup' = setup /\ ctx' = ctx /\ sseClient' = sseClient /\ routine' = routine
    BY <1>9 DEF CallTool, Step, CallFunction, Post, Posted, PostFails, Answer, Timeout
  <2> QED BY <1>2, <1>9, <2>1
<1> QED BY <1>3, <1>4, <1>5, <1>6, <1>7, <1>8, <1>9 DEF Next

-----------------------------------------------------------------------------
(* What follows of every behaviour *)

\* The invariant holds at the start
LEMMA InitInv ==
    ASSUME Init
    PROVE  IInv
<1>1. NewSSEClient \in MCPSSEClient
  <2>1. 0 \in Ids
    <3>1. Cardinality(Calls) \in Nat BY CallCounts
    <3> QED BY <3>1, IdAssumption, BoundAssumption DEF Ids
  <2>2. [n \in Ids |-> None] \in [Ids -> Calls \cup {None}] OBVIOUS
  <2> QED BY <2>1, <2>2 DEF NewSSEClient, MCPSSEClient
<1>2. TypeOK
  <2>1. 0 \in Ids
    <3>1. Cardinality(Calls) \in Nat BY CallCounts
    <3> QED BY <3>1, IdAssumption, BoundAssumption DEF Ids
  <2>2. mcp \in [Clients -> MCPSSEClient] BY <1>1 DEF Init
  <2>3. call \in [Calls -> Call] BY <2>1 DEF Init, Call
  <2>4. setup \in [pc : {"waits", "returned", "polls", "ready", "none"}, at : Clients \cup {None}]
    BY DEF Init
  <2>5. sseClient \in 0..MaxClients /\ faults \in 0..MaxFaults BY BoundAssumption DEF Init
  <2> QED BY <2>2, <2>3, <2>4, <2>5 DEF Init, TypeOK
<1>3. /\ \A c \in Clients :
           /\ mcp[c].endpointURL = 0 /\ mcp[c].asking = 0 /\ mcp[c].listing = 0
           /\ mcp[c].messageID = 0 /\ ~mcp[c].tools /\ ~mcp[c].initChan
           /\ ~mcp[c].stopChan /\ ~mcp[c].ReconnectChan /\ mcp[c].client
           /\ \A by \in Closers : mcp[c].closing[by] = "no"
           /\ \A n \in Ids : mcp[c].responseChannels[n] = None
      /\ \A k \in Calls : /\ call[k].pc = "unused" /\ call[k].at = None /\ call[k].id = 0
                          /\ call[k].respChan = "open" /\ call[k].result = None
      /\ server = {} /\ setup.pc = "waits" /\ routine = "start" /\ sseClient = 0 /\ ctx
      /\ ~initFailed /\ faults = 0 /\ ~fatal
  BY DEF Init, NewSSEClient
<1>4. \A c \in Clients : Numbered(c) = {} /\ Used(c) = 0
  <2>1. \A c \in Clients : Numbered(c) = {} BY <1>3 DEF Numbered
  <2>2. Cardinality({}) = 0 BY FS_EmptySet
  <2>3. \A c \in Clients : Borrowed(c) = 0 BY <1>3 DEF Borrowed
  <2> QED BY <2>1, <2>2, <2>3 DEF Used
<1>5. CountInv /\ IdInv BY <1>3, <1>4 DEF CountInv, CountOK, IdInv, IdOK
<1>6. CallInv /\ ServerInv /\ ChannelInv
  BY <1>3, NoCalls DEF CallInv, CallOK, ServerInv, ChannelInv
<1>7. EndpointInv BY <1>3 DEF EndpointInv, EndpointOK, Told
<1>8. SetupInv BY <1>3 DEF SetupInv
<1> QED BY <1>2, <1>5, <1>6, <1>7, <1>8 DEF IInv

\* The invariant of the client, RunRoutine and the calls holds in every reachable state
THEOREM Invariance == Spec => []IInv
<1>1. ASSUME IInv, [Next]_vars PROVE IInv'
  BY <1>1, TypeStep, CountStep, IdStep, CallStep, ServerStep, ChannelStep, EndpointStep,
     SetupStep DEF IInv
<1> QED BY <1>1, InitInv, PTL DEF Spec

\* However long it runs, every variable keeps its type; the numbers stay within Ids, although
\* initializeEndpoint counts past WrapId
THEOREM TypeCorrectness == Spec => []TypeOK
<1>1. IInv => TypeOK BY DEF IInv
<1> QED BY <1>1, Invariance, PTL

\* Every registered channel belongs to a call in progress, on its client and under its number
THEOREM NoDeadChannels == Spec => []NoDeadChannel
<1>1. IInv => NoDeadChannel BY DEF IInv, ChannelInv, NoDeadChannel
<1> QED BY <1>1, Invariance, PTL

\* A call returns the answer to another one only once the numbers of its client are used up,
\* however answers are late, doubled or reordered and clients replaced
THEOREM AnswersKeepApart == Spec => []AnswersDoNotMix
<1>1. ASSUME IInv PROVE AnswersDoNotMix
  <2> SUFFICES ASSUME NEW k \in Calls, call[k].result \in Calls \ {k}
               PROVE  Cardinality(Numbered(call[k].at)) + mcp[call[k].at].endpointURL >= WrapId
    BY DEF AnswersDoNotMix, NumbersUsed, Numbered
  <2> DEFINE j == call[k].result
             c == call[k].at
  <2>1. TypeOK /\ CallOK(k) BY <1>1 DEF IInv, CallInv
  <2>2. j \in Calls /\ j # k /\ Same(j, k) /\ call[k].id > 0 BY <2>1 DEF CallOK
  <2>3. c \in Clients
    <3>1. call[k].id # 0 /\ call[k] \in Call BY <2>1, <2>2, FieldTypes
    <3> QED BY <2>1, <3>1 DEF CallOK
  <2>4. j \in Numbered(c) /\ k \in Numbered(c) /\ call[j].id = call[k].id
    BY <2>2 DEF Numbered, Same
  <2>5. ~(Used(c) < WrapId)
    <3>1. IdOK(c) BY <1>1, <2>3 DEF IInv, IdInv
    <3> HIDE DEF j, c
    <3> QED BY <2>2, <2>4, <3>1 DEF IdOK
  <2>6. /\ mcp[c].endpointURL \in Nat /\ mcp[c].asking \in Nat /\ mcp[c].listing \in Nat
        /\ Cardinality(Numbered(c)) \in Nat
    <3>1. Numbered(c) \subseteq Calls BY DEF Numbered
    <3> HIDE DEF c
    <3> QED BY <2>1, <2>3, <3>1, FieldTypes, CallCounts
  <2> HIDE DEF c
  <2>7. Cardinality(Numbered(c)) + mcp[c].endpointURL >= WrapId
    BY <2>5, <2>6, IdAssumption DEF Used, Borrowed
  <2> QED BY <2>7 DEF c
<1> QED BY <1>1, Invariance, PTL

=============================================================================
