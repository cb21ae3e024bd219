------------------------ MODULE ProgramSessions_proofs ------------------------
(***************************************************************************)
(* Proofs about ProgramSessions, for any number of dialogs, messages and   *)
(* programs, any events that a process may send and any amount of them.    *)
(***************************************************************************)
EXTENDS ProgramSessions, SequenceTheorems, TLAPS

-----------------------------------------------------------------------------
(* The inductive invariant *)

\* What the place of a handler says of its variables
HandlerOK(m) ==
    /\ pc[m] # "unsent" => req[m] \in Request
    /\ pc[m] \in {"send", "failed"} => sess[m] \in Msgs
    /\ pc[m] = "terminating" => req[m].event = 1002
    /\ cpc[<<"handler", m>>] # "idle" => pc[m] \in {"failed", "terminating", "done"}
HandlerInv == \A m \in Msgs : HandlerOK(m)

\* A process belongs to a turn that created a session, and a connection to a process
ProcessOK(s) ==
    /\ proc[s] # "none" => pc[s] \notin {"unsent", "start"}
    /\ reader[s] # "none" => proc[s] # "none" /\ home[s] \in Msgs
    /\ home[s] # None => proc[home[s]] # "none"
    /\ timer[s] => proc[s] # "none"
    /\ reader[s] \in {"none", "read"} => cpc[<<"reader", s>>] = "idle"
ProcessInv == \A s \in Msgs : ProcessOK(s)

\* The map and the socket path of a dialog lead to sessions of that dialog
EntryInv ==
    \A d \in Dialogs, s \in Msgs :
        sessions[d] = s \/ socket[d] = s => proc[s] # "none" /\ DialogOf(s) = d

\* What a CloseSession call found, and what it did to it so far
CallOK(k) ==
    /\ cpc[k] # "idle" => pc[k[2]] # "unsent"
    /\ cpc[k] \in {"idle", "lookup"} => target[k] = None
    /\ cpc[k] \in {"close", "delete"} => target[k] \in Msgs
    /\ target[k] # None => /\ DialogOf(target[k]) = DialogOf(k[2])
                           /\ proc[target[k]] # "none"
    /\ cpc[k] \in {"delete", "end"} /\ target[k] # None => proc[target[k]] = "dead"
    /\ k[1] = "waiter" /\ cpc[k] # "idle" => proc[k[2]] = "dead"
CallInv == \A k \in Callers : CallOK(k)

\* NoDeadEntry, whatever became of the process
WaiterInv ==
    \A s \in Msgs : cpc[<<"waiter", s>>] = "end" => sessions[DialogOf(s)] # s

\* A process connected to a session of its own dialog, and once its waiter is through that
\* session is not in the map
HomeInv ==
    \A p \in Msgs :
        home[p] # None =>
            /\ proc[p] # "none"
            /\ DialogOf(home[p]) = DialogOf(p)
            /\ cpc[<<"waiter", p>>] = "end" => sessions[DialogOf(p)] # home[p]

\* What a handler was given and what it wrote to are of its dialog, and were not gone when
\* its message came
GoneOK(m) ==
    /\ \A p \in gone[m] : cpc[<<"waiter", p>>] = "end"
    /\ sess[m] # None => /\ pc[m] \notin {"unsent", "start"}
                         /\ proc[sess[m]] # "none"
                         /\ DialogOf(sess[m]) = DialogOf(m)
                         /\ conn[sess[m]] \notin gone[m]
    /\ written[m] # None => /\ pc[m] \notin {"unsent", "start"}
                            /\ proc[written[m]] # "none"
                            /\ DialogOf(written[m]) = DialogOf(m)
                            /\ written[m] \notin gone[m]
GoneInv == \A m \in Msgs : GoneOK(m)

\* A turn whose handler returned was written to some process or led to an answer
TurnInv ==
    \A m \in Msgs :
        pc[m] = "done" /\ req[m].event = 1001 /\ req[m].intention # NoIntent =>
            \/ written[m] # None
            \/ \E t \in told : t.from = m /\ t.by = "handler" /\ t.event \in {2002, 2004}

IInv == /\ TypeOK /\ HandlerInv /\ ProcessInv /\ EntryInv /\ CallInv /\ WaiterInv
        /\ ConnectionIsRead /\ CloseIsFinal /\ HomeInv /\ GoneInv /\ TurnInv

-----------------------------------------------------------------------------
(* Types *)

\* What a request that was sent says
LEMMA SentFacts ==
    ASSUME HandlerInv, NEW m \in Msgs, pc[m] # "unsent"
    PROVE  req[m] \in Request /\ DialogOf(m) \in Dialogs
<1>1. HandlerOK(m) BY DEF HandlerInv
<1>2. req[m] \in Request BY <1>1 DEF HandlerOK
<1> QED BY <1>2 DEF Request, DialogOf

\* A turn that is to be given a session has no process of its own yet
LEMMA NoProcessYet ==
    ASSUME ProcessInv, NEW m \in Msgs, HasTurn(m)
    PROVE  pc[m] = "start" /\ proc[m] = "none"
<1>1. ProcessOK(m) BY DEF ProcessInv
<1> QED BY <1>1 DEF ProcessOK, HasTurn

\* Whose CloseSession calls are whose
LEMMA CallerFacts ==
    /\ \A m \in Msgs, w \in {"handler", "reader", "waiter", "timer"} : <<w, m>> \in Callers
    /\ \A k \in Callers : k[1] \in {"handler", "reader", "waiter", "timer"}
                          /\ k[2] \in Msgs /\ k = <<k[1], k[2]>>
BY DEF Callers

\* The variables keep their types
LEMMA TypeStep ==
    ASSUME TypeOK, HandlerInv, ProcessInv, CallInv, [Next]_vars
    PROVE  TypeOK'
<1> USE DEF TypeOK, handlers, processes, closing, GoTo, Call
<1>1. ASSUME NEW m \in Msgs, Run(m) PROVE TypeOK'
  BY <1>1 DEF Run
<1>2. ASSUME NEW m \in Msgs, IgnoreTurn(m) PROVE TypeOK'
  BY <1>2 DEF IgnoreTurn
<1>3. ASSUME NEW m \in Msgs, ReuseSession(m) PROVE TypeOK'
  <2>1. sessions[DialogOf(m)] \in Msgs
    BY <1>3, SentFacts DEF ReuseSession, HasTurn
  <2> QED BY <1>3, <2>1 DEF ReuseSession
<1>4. ASSUME NEW m \in Msgs, CreateSession(m) PROVE TypeOK'
  BY <1>4 DEF CreateSession
<1>5. ASSUME NEW m \in Msgs, NoSession(m) PROVE TypeOK'
  <2>1. [event |-> 2004, from |-> m, by |-> "handler"] \in Told BY DEF Told
  <2>2. told' \subseteq Told BY <1>5, <2>1 DEF NoSession, Tell
  <2>3. socket' \in [Dialogs -> Msgs \cup {None}]
    <3>1. socket' = [socket EXCEPT ![DialogOf(m)] = None] BY <1>5 DEF NoSession
    <3> QED BY <3>1
  <2>4. pc' \in [Msgs -> {"unsent", "start", "send", "failed", "terminating", "done"}]
    BY <1>5 DEF NoSession
  <2> QED BY <1>5, <2>2, <2>3, <2>4 DEF NoSession
<1>6. ASSUME NEW m \in Msgs, Send(m) PROVE TypeOK'
  <2>0. HandlerOK(m) BY DEF HandlerInv
  <2>1. sess[m] \in Msgs BY <1>6, <2>0 DEF Send, HandlerOK
  <2>2. conn[sess[m]] \in Msgs BY <1>6, <2>1 DEF Send
  <2> QED BY <1>6, <2>2 DEF Send
<1>7. ASSUME NEW m \in Msgs, SendFails(m) PROVE TypeOK'
  BY <1>7 DEF SendFails
<1>8. ASSUME NEW m \in Msgs, SendProgramEnd(m) PROVE TypeOK'
  <2>1. [event |-> 2002, from |-> m, by |-> "handler"] \in Told BY DEF Told
  <2> QED BY <1>8, <2>1 DEF SendProgramEnd, Tell
<1>9. ASSUME NEW m \in Msgs, ClientTerminate(m) PROVE TypeOK'
  BY <1>9 DEF ClientTerminate
<1>10. ASSUME NEW m \in Msgs, Terminated(m) PROVE TypeOK'
  BY <1>10 DEF Terminated
<1>11. ASSUME NEW s \in Msgs, Connect(s) PROVE TypeOK'
  <2>1. socket[DialogOf(s)] \in Msgs
    BY <1>11, SentFacts DEF Connect, ProcessInv, ProcessOK
  <2> QED BY <1>11, <2>1 DEF Connect
<1>12. ASSUME NEW s \in Msgs, Answer(s) PROVE TypeOK'
  <2>1. inbox' \in [Msgs -> Seq(Answers)]
    <3>1. PICK e \in Answers : inbox' = [inbox EXCEPT ![s] = Append(inbox[s], e)]
      BY <1>12 DEF Answer
    <3> QED BY <3>1, AppendProperties
  <2>2. answers' \in [Msgs -> 0..MaxAnswers]
    <3>1. answers[s] + 1 \in 0..MaxAnswers BY <1>12, BoundAssumption DEF Answer
    <3> QED BY <1>12, <3>1 DEF Answer
  <2> QED BY <1>12, <2>1, <2>2 DEF Answer
<1>13. ASSUME NEW s \in Msgs, Exit(s) PROVE TypeOK'
  BY <1>13 DEF Exit
<1>14. ASSUME NEW s \in Msgs, ReadMessage(s) PROVE TypeOK'
  <2>1. /\ Head(inbox[s]) \in Answers
        /\ Tail(inbox[s]) \in Seq(Answers)
    BY <1>14, HeadTailProperties DEF ReadMessage
  <2>2. inbox' \in [Msgs -> Seq(Answers)] BY <1>14, <2>1 DEF ReadMessage
  <2>3. told' \subseteq Told
    <3>1. [event |-> Head(inbox[s]), from |-> s, by |-> "reader"] \in Told
      BY <2>1 DEF Told
    <3> QED BY <1>14, <3>1 DEF ReadMessage, Tell
  <2>4. /\ cpc' = cpc \/ cpc' = [cpc EXCEPT ![<<"reader", s>>] = "lookup"]
        /\ reader' = reader \/ reader' = [reader EXCEPT ![s] = "closing"]
        /\ timer' = timer \/ timer' = [timer EXCEPT ![home[s]] = TRUE]
    BY <1>14 DEF ReadMessage
  <2>5. /\ cpc' \in [Callers -> {"idle", "lookup", "close", "delete", "end"}]
        /\ reader' \in [Msgs -> {"none", "read", "closing", "gone"}]
        /\ timer' \in [Msgs -> BOOLEAN]
    <3>1. cpc' \in [Callers -> {"idle", "lookup", "close", "delete", "end"}] BY <2>4
    <3>2. reader' \in [Msgs -> {"none", "read", "closing", "gone"}] BY <2>4
    <3>3. timer' \in [Msgs -> BOOLEAN] BY <2>4
    <3> QED BY <3>1, <3>2, <3>3
  <2> QED BY <1>14, <2>2, <2>3, <2>5 DEF ReadMessage
<1>15. ASSUME NEW s \in Msgs, ReaderReturns(s) PROVE TypeOK'
  <2>1. inbox' \in [Msgs -> Seq(Answers)] BY <1>15 DEF ReaderReturns
  <2>2. conn' \in [Msgs -> Msgs \cup {None}] BY <1>15 DEF ReaderReturns
  <2> QED BY <1>15, <2>1, <2>2 DEF ReaderReturns
<1>16. ASSUME NEW s \in Msgs, TimerFires(s) PROVE TypeOK'
  BY <1>16 DEF TimerFires
<1>17. ASSUME NEW k \in Callers, CloseLookup(k) PROVE TypeOK'
  <2>1. k[2] \in Msgs /\ k \in Callers BY CallerFacts
  <2>2. pc[k[2]] # "unsent"
    BY <1>17, <2>1 DEF CloseLookup, Called, CallInv, CallOK, ProcessInv, ProcessOK
  <2>3. sessions[DialogOf(k[2])] \in Msgs \cup {None}
    BY <2>1, <2>2, SentFacts
  <2> QED BY <1>17, <2>3 DEF CloseLookup
<1>18. ASSUME NEW k \in Callers, Close(k) PROVE TypeOK'
  BY <1>18 DEF Close
<1>19. ASSUME NEW k \in Callers, Delete(k) PROVE TypeOK'
  BY <1>19 DEF Delete
<1>20. CASE UNCHANGED vars
  BY <1>20 DEF vars
<1> QED
  BY <1>1, <1>2, <1>3, <1>4, <1>5, <1>6, <1>7, <1>8, <1>9, <1>10, <1>11, <1>12, <1>13,
     <1>14, <1>15, <1>16, <1>17, <1>18, <1>19, <1>20
  DEF Next, Handler, Process, Reader, CloseSession

-----------------------------------------------------------------------------
(* The parts of the inductive invariant, one lemma each *)

\* Every step keeps what the place of a handler says of its message and its session
LEMMA HandlerStep ==
    ASSUME TypeOK, HandlerInv, ProcessInv, CallInv, [Next]_vars
    PROVE  HandlerInv'
<1> SUFFICES ASSUME NEW n \in Msgs PROVE HandlerOK(n)'
  BY DEF HandlerInv
<1>0. HandlerOK(n) BY DEF HandlerInv
<1> USE <1>0 DEF TypeOK, HandlerOK, GoTo
<1>1. ASSUME NEW m \in Msgs, Run(m) PROVE HandlerOK(n)'
  BY <1>1 DEF Run, closing
<1>2. ASSUME NEW m \in Msgs, IgnoreTurn(m) PROVE HandlerOK(n)'
  BY <1>2 DEF IgnoreTurn, closing
<1>3. ASSUME NEW m \in Msgs, ReuseSession(m) PROVE HandlerOK(n)'
  <2>1. sessions[DialogOf(m)] \in Msgs
    BY <1>3, SentFacts DEF ReuseSession, HasTurn
  <2> QED BY <1>3, <2>1 DEF ReuseSession, HasTurn, closing
<1>4. ASSUME NEW m \in Msgs, CreateSession(m) PROVE HandlerOK(n)'
  BY <1>4 DEF CreateSession, HasTurn, closing
<1>5. ASSUME NEW m \in Msgs, NoSession(m) PROVE HandlerOK(n)'
  BY <1>5 DEF NoSession, HasTurn, closing
<1>6. ASSUME NEW m \in Msgs, Send(m) PROVE HandlerOK(n)'
  BY <1>6 DEF Send, closing
<1>7. ASSUME NEW m \in Msgs, SendFails(m) PROVE HandlerOK(n)'
  BY <1>7, CallerFacts DEF SendFails, Call
<1>8. ASSUME NEW m \in Msgs, SendProgramEnd(m) PROVE HandlerOK(n)'
  BY <1>8 DEF SendProgramEnd, closing
<1>9. ASSUME NEW m \in Msgs, ClientTerminate(m) PROVE HandlerOK(n)'
  BY <1>9, CallerFacts DEF ClientTerminate, Call
<1>10. ASSUME NEW m \in Msgs, Terminated(m) PROVE HandlerOK(n)'
  BY <1>10 DEF Terminated, closing
<1>11. ASSUME NEW s \in Msgs, Process(s) \/ ReaderReturns(s) PROVE HandlerOK(n)'
  BY <1>11 DEF Process, Connect, Answer, Exit, ReaderReturns, handlers, closing
<1>12. ASSUME NEW s \in Msgs, ReadMessage(s) \/ TimerFires(s) PROVE HandlerOK(n)'
  <2>1. UNCHANGED <<req, pc, sess>> BY <1>12 DEF ReadMessage, TimerFires, handlers
  <2>2. \/ cpc' = cpc
        \/ cpc' = [cpc EXCEPT ![<<"reader", s>>] = "lookup"]
        \/ cpc' = [cpc EXCEPT ![<<"timer", s>>] = "lookup"]
    BY <1>12 DEF ReadMessage, TimerFires, Call
  <2>3. cpc'[<<"handler", n>>] = cpc[<<"handler", n>>]
    <3>1. <<"handler", n>> \in Callers BY CallerFacts
    <3>2. <<"handler", n>> # <<"reader", s>> /\ <<"handler", n>> # <<"timer", s>>
      OBVIOUS
    <3> QED BY <2>2, <3>1, <3>2
  <2> QED BY <2>1, <2>3
<1>13. ASSUME NEW k \in Callers, CloseSession(k) PROVE HandlerOK(n)'
  <2>1. UNCHANGED <<req, pc, sess>>
    BY <1>13 DEF CloseSession, CloseLookup, Close, Delete, handlers
  <2>2. \/ cpc'[<<"handler", n>>] = cpc[<<"handler", n>>]
        \/ cpc[<<"handler", n>>] # "idle"
    <3>1. <<"handler", n>> \in Callers BY CallerFacts
    <3>2. CASE k = <<"handler", n>>
      BY <1>13, <3>2 DEF CloseSession, CloseLookup, Called, Close, Delete
    <3>3. CASE k # <<"handler", n>>
      BY <1>13, <3>1, <3>3 DEF CloseSession, CloseLookup, Close, Delete
    <3> QED BY <3>2, <3>3
  <2> QED BY <2>1, <2>2
<1>14. CASE UNCHANGED vars
  BY <1>14 DEF vars
<1> HIDE DEF TypeOK, HandlerOK
<1> QED
  BY <1>1, <1>2, <1>3, <1>4, <1>5, <1>6, <1>7, <1>8, <1>9, <1>10, <1>11, <1>12, <1>13,
     <1>14
  DEF Next, Handler, Reader

\* What was sent stays as it was said, what was started stays started, and what is dead
\* stays dead
Keeps(n) ==
    /\ pc[n] # "unsent" => pc'[n] # "unsent" /\ req'[n] = req[n]
    /\ pc[n] \notin {"unsent", "start"} => pc'[n] \notin {"unsent", "start"}
    /\ proc[n] # "none" => proc'[n] # "none"
    /\ proc[n] = "dead" => proc'[n] = "dead"

\* Messages are sent once, sessions are created once and the dead stay dead
LEMMA Monotone ==
    ASSUME TypeOK, ProcessInv, [Next]_vars, NEW n \in Msgs
    PROVE  Keeps(n)
<1> USE DEF Keeps
<1>1. ASSUME NEW m \in Msgs, Run(m) PROVE Keeps(n)
  BY <1>1 DEF Run, TypeOK, GoTo, processes
<1>2. ASSUME NEW m \in Msgs, CreateSession(m) PROVE Keeps(n)
  <2>1. pc[m] = "start" /\ proc[m] = "none"
    BY <1>2, NoProcessYet DEF CreateSession
  <2>2. /\ req' = req
        /\ pc' = [pc EXCEPT ![m] = "send"]
        /\ proc' = [proc EXCEPT ![m] = "running"]
    BY <1>2 DEF CreateSession, GoTo
  <2> QED BY <2>1, <2>2 DEF TypeOK
<1>3. ASSUME NEW m \in Msgs, Handler(m), ~CreateSession(m) PROVE Keeps(n)
  <2>1. UNCHANGED <<req, proc>> /\ \E where \in {"send", "failed", "terminating", "done"} :
                                    pc' = [pc EXCEPT ![m] = where]
    BY <1>3
    DEF Handler, IgnoreTurn, ReuseSession, NoSession, Send, SendFails, SendProgramEnd,
        ClientTerminate, Terminated, GoTo, processes
  <2> QED BY <2>1 DEF TypeOK
<1>4. ASSUME NEW s \in Msgs, Process(s) PROVE Keeps(n)
  BY <1>4 DEF Process, Connect, Answer, Exit, TypeOK, handlers
<1>5. ASSUME NEW s \in Msgs, Reader(s) \/ TimerFires(s) PROVE Keeps(n)
  BY <1>5 DEF Reader, ReadMessage, ReaderReturns, TimerFires, handlers, processes
<1>6. ASSUME NEW k \in Callers, CloseSession(k) PROVE Keeps(n)
  BY <1>6 DEF CloseSession, CloseLookup, Close, Delete, TypeOK, handlers, processes
<1>7. CASE UNCHANGED vars
  BY <1>7 DEF vars
<1> HIDE DEF Keeps
<1> QED
  BY <1>1, <1>2, <1>3, <1>4, <1>5, <1>6, <1>7 DEF Next

\* Every step keeps what is known of a process and of its reader
LEMMA ProcessStep ==
    ASSUME TypeOK, HandlerInv, ProcessInv, EntryInv, CallInv, [Next]_vars
    PROVE  ProcessInv'
<1> SUFFICES ASSUME NEW n \in Msgs PROVE ProcessOK(n)'
  BY DEF ProcessInv
<1>0. ProcessOK(n) BY DEF ProcessInv
<1>a. <<"reader", n>> \in Callers BY CallerFacts
<1>b. /\ pc[n] \notin {"unsent", "start"} => pc'[n] \notin {"unsent", "start"}
      /\ \A s \in Msgs : proc[s] # "none" => proc'[s] # "none"
  BY Monotone DEF Keeps
<1> USE <1>0 DEF TypeOK, ProcessOK
<1>1. ASSUME NEW m \in Msgs, Run(m) PROVE ProcessOK(n)'
  BY <1>1, <1>b DEF Run, GoTo, processes, closing
<1>2. ASSUME NEW m \in Msgs, ReuseSession(m) PROVE ProcessOK(n)'
  <2>1. proc[sessions[DialogOf(m)]] # "none"
    BY <1>2, SentFacts DEF ReuseSession, HasTurn, EntryInv
  <2> QED BY <1>2, <1>b, <2>1 DEF ReuseSession, processes, closing
<1>3. ASSUME NEW m \in Msgs, CreateSession(m) PROVE ProcessOK(n)'
  BY <1>3, <1>b DEF CreateSession, GoTo, closing
<1>4. ASSUME NEW m \in Msgs, Handler(m), ~ReuseSession(m), ~CreateSession(m)
      PROVE  ProcessOK(n)'
  <2>1. UNCHANGED <<proc, home, reader, timer>>
    BY <1>4 DEF Handler, IgnoreTurn, NoSession, Send, SendFails, SendProgramEnd,
                ClientTerminate, Terminated, processes
  <2>2. cpc' = cpc \/ cpc' = [cpc EXCEPT ![<<"handler", m>>] = "lookup"]
    BY <1>4 DEF Handler, IgnoreTurn, NoSession, Send, SendFails, SendProgramEnd,
                ClientTerminate, Terminated, closing, Call
  <2>3. cpc'[<<"reader", n>>] = cpc[<<"reader", n>>]
    <3>1. <<"reader", n>> # <<"handler", m>> OBVIOUS
    <3> QED BY <1>a, <2>2, <3>1
  <2> QED BY <1>b, <2>1, <2>3
<1>5. ASSUME NEW s \in Msgs, Connect(s) PROVE ProcessOK(n)'
  <2>1. /\ socket[DialogOf(s)] \in Msgs
        /\ proc[socket[DialogOf(s)]] # "none"
    BY <1>5, SentFacts DEF Connect, ProcessInv, EntryInv
  <2> QED BY <1>5, <1>b, <2>1 DEF Connect, handlers, closing
<1>6. ASSUME NEW s \in Msgs, Answer(s) \/ Exit(s) PROVE ProcessOK(n)'
  BY <1>6, <1>b DEF Answer, Exit, handlers, closing
<1>7. ASSUME NEW s \in Msgs, ReadMessage(s) PROVE ProcessOK(n)'
  <2>1. home[s] \in Msgs /\ proc[home[s]] # "none"
    BY <1>7, NamesAssumption DEF ReadMessage, ProcessInv
  <2>2. UNCHANGED <<pc, proc, home>> BY <1>7 DEF ReadMessage, handlers
  <2>3. timer' = timer \/ timer' = [timer EXCEPT ![home[s]] = TRUE]
    BY <1>7 DEF ReadMessage
  <2>4. timer'[n] => proc[n] # "none" BY <2>1, <2>3
  <2>5. \/ UNCHANGED <<cpc, reader>>
        \/ /\ cpc' = [cpc EXCEPT ![<<"reader", s>>] = "lookup"]
           /\ reader' = [reader EXCEPT ![s] = "closing"]
    BY <1>7 DEF ReadMessage, Call
  <2>6. CASE n = s
    BY <1>7, <1>a, <2>2, <2>4, <2>5, <2>6 DEF ReadMessage
  <2>7. CASE n # s
    <3>1. <<"reader", n>> # <<"reader", s>> BY <2>7
    <3> QED BY <1>a, <2>2, <2>4, <2>5, <2>7, <3>1
  <2> QED BY <2>6, <2>7
<1>8. ASSUME NEW s \in Msgs, ReaderReturns(s) PROVE ProcessOK(n)'
  BY <1>8, <1>b DEF ReaderReturns, handlers, closing
<1>9. ASSUME NEW s \in Msgs, TimerFires(s) PROVE ProcessOK(n)'
  <2>1. cpc'[<<"reader", n>>] = cpc[<<"reader", n>>]
    <3>1. <<"reader", n>> # <<"timer", s>> OBVIOUS
    <3> QED BY <1>9, <1>a, <3>1 DEF TimerFires, Call
  <2> QED BY <1>9, <2>1 DEF TimerFires, handlers, processes
<1>10. ASSUME NEW k \in Callers, CloseSession(k) PROVE ProcessOK(n)'
  <2>1. UNCHANGED <<pc, home, reader>>
    BY <1>10 DEF CloseSession, CloseLookup, Close, Delete, handlers, processes
  <2>2. timer'[n] => timer[n]
    BY <1>10 DEF CloseSession, CloseLookup, Close, Delete
  <2>3. proc'[n] # "none" => proc[n] # "none"
    <3>1. CASE Close(k)
      <4>1. target[k] \in Msgs => proc[target[k]] # "none"
        BY <3>1, NamesAssumption DEF CallInv, CallOK
      <4> QED BY <3>1, <4>1 DEF Close
    <3> QED BY <1>10, <3>1 DEF CloseSession, CloseLookup, Delete, processes
  <2>4. cpc'[<<"reader", n>>] = "idle" \/ cpc[<<"reader", n>>] # "idle"
    <3>1. CASE k = <<"reader", n>>
      BY <1>10, <3>1 DEF CloseSession, CloseLookup, Called, Close, Delete
    <3>2. CASE k # <<"reader", n>>
      BY <1>10, <1>a, <3>2 DEF CloseSession, CloseLookup, Close, Delete
    <3> QED BY <3>1, <3>2
  <2> QED BY <1>b, <2>1, <2>2, <2>3, <2>4
<1>11. CASE UNCHANGED vars
  BY <1>11 DEF vars
<1> HIDE DEF TypeOK, ProcessOK
<1> QED
  BY <1>1, <1>2, <1>3, <1>4, <1>5, <1>6, <1>7, <1>8, <1>9, <1>10, <1>11
  DEF Next, Process, Reader

\* The map and the socket path lead to sessions that were created, of their own dialog
LEMMA EntryStep ==
    ASSUME TypeOK, HandlerInv, ProcessInv, EntryInv, [Next]_vars
    PROVE  EntryInv'
<1> SUFFICES ASSUME NEW d \in Dialogs, NEW n \in Msgs,
                    sessions'[d] = n \/ socket'[d] = n
             PROVE  proc'[n] # "none" /\ DialogOf(n)' = d
  BY DEF EntryInv
<1>1. ASSUME NEW m \in Msgs, CreateSession(m), n = m
      PROVE  proc'[n] # "none" /\ DialogOf(n)' = d
  <2>1. proc[m] = "none" BY <1>1, NoProcessYet DEF CreateSession
  <2>2. d = DialogOf(m)
    BY <1>1, <2>1 DEF CreateSession, EntryInv, TypeOK
  <2> QED BY <1>1, <2>2 DEF CreateSession, TypeOK, DialogOf
<1>2. ASSUME sessions[d] = n \/ socket[d] = n
      PROVE  proc'[n] # "none" /\ DialogOf(n)' = d
  <2>1. proc[n] # "none" /\ DialogOf(n) = d BY <1>2 DEF EntryInv
  <2>2. pc[n] # "unsent" BY <2>1 DEF ProcessInv, ProcessOK
  <2> QED BY <2>1, <2>2, Monotone DEF Keeps, DialogOf
<1>3. ASSUME NEW m \in Msgs, Handler(m) PROVE proc'[n] # "none" /\ DialogOf(n)' = d
  <2>1. CASE CreateSession(m)
    <3>1. n = m \/ sessions[d] = n \/ socket[d] = n
      BY <2>1 DEF CreateSession, TypeOK
    <3> QED BY <2>1, <3>1, <1>1, <1>2
  <2>2. CASE ~CreateSession(m)
    <3>1. UNCHANGED sessions BY <1>3, <2>2
      DEF Handler, IgnoreTurn, ReuseSession, NoSession, Send, SendFails, SendProgramEnd,
          ClientTerminate, Terminated
    <3>2. UNCHANGED socket \/ socket' = [socket EXCEPT ![DialogOf(m)] = None]
      BY <1>3, <2>2
      DEF Handler, IgnoreTurn, ReuseSession, NoSession, Send, SendFails, SendProgramEnd,
          ClientTerminate, Terminated
    <3>3. sessions[d] = n \/ socket[d] = n
      BY <3>1, <3>2, NamesAssumption DEF TypeOK
    <3> QED BY <3>3, <1>2
  <2> QED BY <2>1, <2>2
<1>4. ASSUME NEW m \in Msgs, Run(m) \/ Process(m) \/ Reader(m) \/ TimerFires(m)
      PROVE  proc'[n] # "none" /\ DialogOf(n)' = d
  <2>1. UNCHANGED <<sessions, socket>>
    BY <1>4 DEF Run, Process, Connect, Answer, Exit, Reader, ReadMessage, ReaderReturns,
                TimerFires
  <2> QED BY <2>1, <1>2
<1>5. ASSUME NEW k \in Callers, CloseSession(k)
      PROVE  proc'[n] # "none" /\ DialogOf(n)' = d
  <2>1. /\ sessions' = sessions \/ \E e : sessions' = [sessions EXCEPT ![e] = None]
        /\ socket' = socket \/ \E e : socket' = [socket EXCEPT ![e] = None]
    BY <1>5 DEF CloseSession, CloseLookup, Close, Delete
  <2>2. sessions[d] = n \/ socket[d] = n
    BY <2>1, NamesAssumption DEF TypeOK
  <2> QED BY <2>2, <1>2
<1>6. CASE UNCHANGED vars
  BY <1>6, <1>2 DEF vars
<1> QED BY <1>3, <1>4, <1>5, <1>6 DEF Next

\* Every step keeps what is known of a call of CloseSession
LEMMA CallStep ==
    ASSUME TypeOK, HandlerInv, ProcessInv, EntryInv, CallInv, [Next]_vars
    PROVE  CallInv'
<1> SUFFICES ASSUME NEW j \in Callers PROVE CallOK(j)'
  BY DEF CallInv
<1>0. CallOK(j) BY DEF CallInv
<1>a. j[2] \in Msgs BY CallerFacts
<1>b. /\ Keeps(j[2])
      /\ target[j] # None => Keeps(target[j])
  BY <1>a, Monotone DEF TypeOK
\* A call that does not move is as it was
<1>1. ASSUME cpc'[j] = cpc[j], target'[j] = target[j] PROVE CallOK(j)'
  <2>1. target[j] # None => DialogOf(target[j])' = DialogOf(target[j])
    <3>1. target[j] # None => pc[target[j]] # "unsent"
      BY <1>0 DEF CallOK, ProcessInv, ProcessOK, TypeOK
    <3> QED BY <1>1, <3>1, <1>b DEF Keeps, DialogOf
  <2>2. target[j] # None => DialogOf(j[2])' = DialogOf(j[2])
    BY <1>0, <1>b DEF CallOK, Keeps, DialogOf, TypeOK
  <2> QED BY <1>0, <1>1, <1>b, <2>1, <2>2 DEF CallOK, Keeps
\* A call that starts found nothing yet
<1>2. ASSUME pc'[j[2]] # "unsent", cpc[j] = "idle", cpc'[j] = "lookup", target' = target,
             j[1] # "waiter"
      PROVE  CallOK(j)'
  BY <1>0, <1>2 DEF CallOK
<1>3. ASSUME NEW m \in Msgs, SendFails(m) \/ ClientTerminate(m) PROVE CallOK(j)'
  <2>1. CASE j = <<"handler", m>>
    <3>1. cpc[j] = "idle"
      BY <1>3, <2>1 DEF SendFails, ClientTerminate, HandlerInv, HandlerOK
    <3>2. pc'[m] # "unsent"
      BY <1>3 DEF SendFails, ClientTerminate, GoTo, TypeOK
    <3>3. cpc'[j] = "lookup" /\ target' = target
      BY <1>3, <2>1 DEF SendFails, ClientTerminate, Call, TypeOK
    <3> QED BY <2>1, <3>1, <3>2, <3>3, <1>2
  <2>2. CASE j # <<"handler", m>>
    <3>1. cpc'[j] = cpc[j] /\ target'[j] = target[j]
      BY <1>3, <2>2 DEF SendFails, ClientTerminate, Call, TypeOK
    <3> QED BY <3>1, <1>1
  <2> QED BY <2>1, <2>2
<1>4. ASSUME NEW s \in Msgs, ReadMessage(s) PROVE CallOK(j)'
  <2>1. CASE j = <<"reader", s>> /\ cpc'[j] # cpc[j]
    <3>1. cpc[j] = "idle"
      BY <1>4, <2>1 DEF ReadMessage, ProcessInv, ProcessOK
    <3>2. pc'[s] # "unsent"
      BY <1>4 DEF ReadMessage, ProcessInv, ProcessOK, handlers
    <3>3. cpc'[j] = "lookup" /\ target' = target
      BY <1>4, <2>1 DEF ReadMessage, Call, TypeOK
    <3> QED BY <2>1, <3>1, <3>2, <3>3, <1>2
  <2>2. CASE ~(j = <<"reader", s>> /\ cpc'[j] # cpc[j])
    <3>1. cpc' = cpc \/ cpc' = [cpc EXCEPT ![<<"reader", s>>] = "lookup"]
      BY <1>4 DEF ReadMessage, Call
    <3>2. cpc'[j] = cpc[j] /\ target'[j] = target[j]
      BY <1>4, <2>2, <3>1 DEF ReadMessage, TypeOK
    <3> QED BY <3>2, <1>1
  <2> QED BY <2>1, <2>2
<1>5. ASSUME NEW s \in Msgs, TimerFires(s) PROVE CallOK(j)'
  <2>1. CASE j = <<"timer", s>>
    <3>1. cpc[j] = "idle" BY <1>5, <2>1 DEF TimerFires
    <3>2. pc'[s] # "unsent"
      BY <1>5 DEF TimerFires, ProcessInv, ProcessOK, handlers
    <3>3. cpc'[j] = "lookup" /\ target' = target
      BY <1>5, <2>1 DEF TimerFires, Call, TypeOK
    <3> QED BY <2>1, <3>1, <3>2, <3>3, <1>2
  <2>2. CASE j # <<"timer", s>>
    <3>1. cpc'[j] = cpc[j] /\ target'[j] = target[j]
      BY <1>5, <2>2 DEF TimerFires, Call, TypeOK
    <3> QED BY <3>1, <1>1
  <2> QED BY <2>1, <2>2
<1>6. ASSUME NEW k \in Callers, CloseSession(k), j # k PROVE CallOK(j)'
  <2>1. cpc'[j] = cpc[j] /\ target'[j] = target[j]
    BY <1>6 DEF CloseSession, CloseLookup, Close, Delete, TypeOK
  <2> QED BY <2>1, <1>1
<1>7. CASE CloseLookup(j)
  <2> DEFINE s == sessions[DialogOf(j[2])]
  <2>1. /\ cpc'[j] = (IF s = None THEN "end" ELSE "close")
        /\ target'[j] = s
        /\ UNCHANGED <<req, pc, proc>>
    BY <1>7 DEF CloseLookup, TypeOK, handlers, processes
  <2>2. /\ pc[j[2]] # "unsent"
        /\ j[1] = "waiter" => proc[j[2]] = "dead"
    BY <1>7, <1>0, <1>a DEF CloseLookup, Called, CallOK, ProcessInv, ProcessOK
  <2>3. DialogOf(j[2]) \in Dialogs BY <1>a, <2>2, SentFacts
  <2>4. s # None => s \in Msgs /\ proc[s] # "none" /\ DialogOf(s) = DialogOf(j[2])
    BY <2>3 DEF EntryInv, TypeOK
  <2> HIDE DEF s
  <2> QED BY <2>1, <2>2, <2>4, <1>a DEF CallOK, DialogOf
<1>8. CASE Close(j)
  <2>1. /\ cpc[j] = "close" /\ cpc'[j] = "delete"
        /\ target' = target /\ target[j] \in Msgs
        /\ proc'[target[j]] = "dead"
        /\ UNCHANGED <<req, pc>>
    BY <1>8, <1>0 DEF Close, CallOK, TypeOK, handlers
  <2>2. /\ DialogOf(target[j])' = DialogOf(target[j])
        /\ DialogOf(j[2])' = DialogOf(j[2])
    BY <2>1 DEF DialogOf
  <2> QED BY <1>0, <1>b, <2>1, <2>2 DEF CallOK, Keeps
<1>9. CASE Delete(j)
  <2>1. /\ cpc[j] = "delete" /\ cpc'[j] = "end"
        /\ UNCHANGED <<target, proc, req, pc>>
    BY <1>9 DEF Delete, TypeOK, handlers, processes
  <2> QED BY <1>0, <2>1 DEF CallOK, DialogOf
<1>10. ASSUME UNCHANGED <<cpc, target>> PROVE CallOK(j)'
  BY <1>10, <1>1
<1> QED
  <2>1. ASSUME NEW m \in Msgs, Handler(m), ~SendFails(m), ~ClientTerminate(m)
        PROVE  UNCHANGED <<cpc, target>>
    BY <2>1 DEF Handler, IgnoreTurn, ReuseSession, CreateSession, NoSession, Send,
                SendProgramEnd, Terminated, closing
  <2>2. ASSUME NEW m \in Msgs, Run(m) \/ Process(m) \/ ReaderReturns(m)
        PROVE  UNCHANGED <<cpc, target>>
    BY <2>2 DEF Run, Process, Connect, Answer, Exit, ReaderReturns, closing
  <2>3. CASE UNCHANGED vars BY <2>3, <1>10 DEF vars
  <2> QED
    BY <2>1, <2>2, <2>3, <1>3, <1>4, <1>5, <1>6, <1>7, <1>8, <1>9, <1>10
    DEF Next, Reader, CloseSession

\* Once the waiter of a process is through the map does not get back a session that its
\* CloseSession call did not find there: sessions are created once
LEMMA WaiterKeepsAway ==
    ASSUME TypeOK, ProcessInv, CallInv, HandlerInv, [Next]_vars,
           NEW s \in Msgs, NEW t \in Msgs, ~CreateSession(t),
           cpc[<<"waiter", s>>] = "end" => sessions[DialogOf(s)] # t,
           cpc'[<<"waiter", s>>] = "end"
    PROVE  sessions'[DialogOf(s)'] # t
<1> DEFINE w == <<"waiter", s>>
<1>a. w \in Callers /\ w[1] = "waiter" /\ w[2] = s BY CallerFacts
<1> HIDE DEF w
<1>1. ASSUME sessions' = sessions \/ (\E d : sessions' = [sessions EXCEPT ![d] = None]),
             cpc[w] = "end"
      PROVE  sessions'[DialogOf(s)'] # t
  <2>1. pc[s] # "unsent" BY <1>1, <1>a DEF CallInv, CallOK
  <2>2. DialogOf(s)' = DialogOf(s) BY <2>1, Monotone DEF Keeps, DialogOf
  <2>3. sessions[DialogOf(s)] # t /\ DialogOf(s) \in Dialogs
    BY <1>1, <2>1, SentFacts DEF w
  <2> QED BY <1>1, <2>2, <2>3, NamesAssumption DEF TypeOK
<1>2. ASSUME NEW m \in Msgs, CreateSession(m) PROVE sessions'[DialogOf(s)'] # t
  <2>1. cpc[w] = "end" /\ UNCHANGED req BY <1>2 DEF CreateSession, closing, w
  <2>2. proc[s] = "dead" /\ pc[s] # "unsent" BY <2>1, <1>a DEF CallInv, CallOK
  <2>3. m # t BY <1>2
  <2>4. sessions[DialogOf(s)] # t /\ DialogOf(s) \in Dialogs
    BY <2>1, <2>2, SentFacts DEF w
  <2> QED BY <1>2, <2>1, <2>3, <2>4 DEF CreateSession, DialogOf, TypeOK
<1>3. ASSUME NEW m \in Msgs, Handler(m), ~CreateSession(m)
      PROVE  sessions' = sessions /\ (cpc'[w] = "end" => cpc[w] = "end")
  BY <1>3, <1>a
  DEF Handler, IgnoreTurn, ReuseSession, NoSession, Send, SendFails, SendProgramEnd,
      ClientTerminate, Terminated, closing, Call, TypeOK
<1>4. ASSUME NEW m \in Msgs, Run(m) \/ Process(m) \/ Reader(m) \/ TimerFires(m)
      PROVE  sessions' = sessions /\ (cpc'[w] = "end" => cpc[w] = "end")
  BY <1>4, <1>a
  DEF Run, Process, Connect, Answer, Exit, Reader, ReadMessage, ReaderReturns, TimerFires,
      closing, Call, TypeOK
<1>5. ASSUME NEW k \in Callers, CloseSession(k) PROVE sessions'[DialogOf(s)'] # t
  <2>1. CASE cpc[w] = "end"
    <3>1. sessions' = sessions \/ \E d : sessions' = [sessions EXCEPT ![d] = None]
      BY <1>5 DEF CloseSession, CloseLookup, Close, Delete
    <3> QED BY <2>1, <3>1, <1>1
  <2>2. CASE cpc[w] # "end"
    <3>1. k = w
      BY <1>5, <2>2, <1>a DEF CloseSession, CloseLookup, Close, Delete, TypeOK, w
    <3>2. UNCHANGED req BY <1>5 DEF CloseSession, CloseLookup, Close, Delete, handlers
    <3>3. pc[s] # "unsent"
      BY <1>5, <3>1, <1>a
      DEF CloseSession, CloseLookup, Called, Close, Delete, CallInv, CallOK, ProcessInv,
          ProcessOK
    <3>4. DialogOf(s) \in Dialogs BY <3>3, SentFacts
    <3>5. CASE CloseLookup(w)
      <4>1. sessions[DialogOf(s)] = None
        BY <3>5, <2>2, <1>a DEF CloseLookup, TypeOK, w
      <4> QED BY <3>2, <3>5, <4>1, NamesAssumption DEF CloseLookup, DialogOf
    <3>6. CASE Delete(w)
      BY <3>2, <3>4, <3>6, <1>a, NamesAssumption DEF Delete, DialogOf, TypeOK
    <3>7. ~Close(w)
      BY <1>a DEF Close, TypeOK, w
    <3> QED BY <1>5, <3>1, <3>5, <3>6, <3>7 DEF CloseSession
  <2> QED BY <2>1, <2>2
<1>6. CASE UNCHANGED vars
  BY <1>6, <1>1 DEF vars, w
<1>7. ASSUME sessions' = sessions, cpc'[w] = "end" => cpc[w] = "end"
      PROVE  sessions'[DialogOf(s)'] # t
  BY <1>7, <1>1 DEF w
<1> QED BY <1>2, <1>3, <1>4, <1>5, <1>6, <1>7 DEF Next

\* The session of a process whose waiter is through is not in the map
LEMMA WaiterStep ==
    ASSUME TypeOK, ProcessInv, CallInv, WaiterInv, HandlerInv, [Next]_vars
    PROVE  WaiterInv'
<1> SUFFICES ASSUME NEW s \in Msgs, cpc'[<<"waiter", s>>] = "end"
             PROVE  sessions'[DialogOf(s)'] # s
  BY DEF WaiterInv
<1>1. ASSUME CreateSession(s) PROVE FALSE
  <2>1. cpc[<<"waiter", s>>] = "end" BY <1>1 DEF CreateSession, closing
  <2>2. proc[s] = "dead" BY <2>1, CallerFacts DEF CallInv, CallOK
  <2> QED BY <1>1, <2>2, NoProcessYet DEF CreateSession
<1> QED BY <1>1, WaiterKeepsAway DEF WaiterInv

\* A process connects once, so no connection that is given up is taken for a newer one
LEMMA ConnectionStep ==
    ASSUME TypeOK, HandlerInv, ProcessInv, ConnectionIsRead, [Next]_vars
    PROVE  ConnectionIsRead'
<1> SUFFICES ASSUME NEW s \in Msgs, conn'[s] # None
             PROVE  home'[conn'[s]] = s /\ reader'[conn'[s]] \in {"read", "closing"}
  BY DEF ConnectionIsRead
<1>1. ASSUME conn'[s] = conn[s], home'[conn[s]] = home[conn[s]],
             reader'[conn[s]] = reader[conn[s]] \/ reader'[conn[s]] = "closing"
      PROVE  home'[conn'[s]] = s /\ reader'[conn'[s]] \in {"read", "closing"}
  BY <1>1 DEF ConnectionIsRead
<1>2. ASSUME NEW m \in Msgs, Connect(m)
      PROVE  home'[conn'[s]] = s /\ reader'[conn'[s]] \in {"read", "closing"}
  <2> DEFINE t == socket[DialogOf(m)]
  <2>1. /\ conn' = [conn EXCEPT ![t] = m]
        /\ home' = [home EXCEPT ![m] = t]
        /\ reader' = [reader EXCEPT ![m] = "read"]
        /\ reader[m] = "none"
    BY <1>2 DEF Connect
  <2> HIDE DEF t
  <2>2. CASE s = t
    BY <2>1, <2>2 DEF TypeOK
  <2>3. CASE s # t
    <3>1. conn'[s] = conn[s] BY <2>1, <2>3 DEF TypeOK
    <3>2. conn[s] # m BY <2>1, <3>1 DEF ConnectionIsRead
    <3> QED BY <2>1, <3>1, <3>2, <1>1 DEF TypeOK
  <2> QED BY <2>2, <2>3
<1>3. ASSUME NEW m \in Msgs, ReaderReturns(m)
      PROVE  home'[conn'[s]] = s /\ reader'[conn'[s]] \in {"read", "closing"}
  <2>1. conn'[s] = conn[s] /\ conn[s] # m
    <3>1. CASE s = home[m]
      BY <1>3, <3>1 DEF ReaderReturns, TypeOK
    <3>2. CASE s # home[m]
      BY <1>3, <3>2 DEF ReaderReturns, TypeOK, ConnectionIsRead
    <3> QED BY <3>1, <3>2
  <2>2. home'[conn[s]] = home[conn[s]] /\ reader'[conn[s]] = reader[conn[s]]
    BY <1>3, <2>1 DEF ReaderReturns, TypeOK
  <2> QED BY <2>1, <2>2, <1>1
<1>4. ASSUME NEW m \in Msgs, ReadMessage(m)
      PROVE  home'[conn'[s]] = s /\ reader'[conn'[s]] \in {"read", "closing"}
  <2>1. /\ UNCHANGED <<conn, home>>
        /\ reader' = reader \/ reader' = [reader EXCEPT ![m] = "closing"]
    BY <1>4 DEF ReadMessage
  <2> QED BY <2>1, <1>1 DEF TypeOK
<1>5. ASSUME NEW m \in Msgs,
             Run(m) \/ Handler(m) \/ Answer(m) \/ Exit(m) \/ TimerFires(m)
      PROVE  UNCHANGED <<conn, home, reader>>
  BY <1>5
  DEF Run, Handler, IgnoreTurn, ReuseSession, CreateSession, NoSession, Send, SendFails,
      SendProgramEnd, ClientTerminate, Terminated, Answer, Exit, TimerFires, processes
<1>6. ASSUME NEW k \in Callers, CloseSession(k) PROVE UNCHANGED <<conn, home, reader>>
  BY <1>6 DEF CloseSession, CloseLookup, Close, Delete, processes
<1>7. CASE UNCHANGED vars
  BY <1>7, <1>1 DEF vars
<1> QED BY <1>1, <1>2, <1>3, <1>4, <1>5, <1>6, <1>7 DEF Next, Process, Reader

\* What waitForProcess was through with stays so
LEMMA WaiterEnds ==
    ASSUME TypeOK, [Next]_vars, NEW p \in Msgs, cpc[<<"waiter", p>>] = "end"
    PROVE  cpc'[<<"waiter", p>>] = "end"
<1> DEFINE w == <<"waiter", p>>
<1>a. w \in Callers /\ w[1] = "waiter" /\ cpc[w] = "end" BY CallerFacts
<1> HIDE DEF w
<1>1. ASSUME NEW m \in Msgs, Run(m) \/ Handler(m) \/ Process(m) \/ Reader(m) \/ TimerFires(m)
      PROVE  cpc'[w] = "end"
  <2>1. \/ cpc' = cpc
        \/ cpc' = [cpc EXCEPT ![<<"handler", m>>] = "lookup"]
        \/ cpc' = [cpc EXCEPT ![<<"reader", m>>] = "lookup"]
        \/ cpc' = [cpc EXCEPT ![<<"timer", m>>] = "lookup"]
    BY <1>1
    DEF Run, Handler, IgnoreTurn, ReuseSession, CreateSession, NoSession, Send, SendFails,
        SendProgramEnd, ClientTerminate, Terminated, Process, Connect, Answer, Exit, Reader,
        ReadMessage, ReaderReturns, TimerFires, closing, Call
  <2>2. w # <<"handler", m>> /\ w # <<"reader", m>> /\ w # <<"timer", m>> BY <1>a
  <2> QED BY <1>a, <2>1, <2>2 DEF TypeOK
<1>2. ASSUME NEW k \in Callers, CloseSession(k) PROVE cpc'[w] = "end"
  <2>1. k # w BY <1>2, <1>a DEF CloseSession, CloseLookup, Called, Close, Delete
  <2> QED BY <1>2, <1>a, <2>1 DEF CloseSession, CloseLookup, Close, Delete, TypeOK
<1>3. ASSUME UNCHANGED vars PROVE cpc'[w] = "end" BY <1>3, <1>a DEF vars
<1>4. cpc'[w] = "end" BY <1>1, <1>2, <1>3 DEF Next
<1> QED BY <1>4 DEF w

\* A process connects while it runs, to the session that listens at its dialog's path
LEMMA HomeStep ==
    ASSUME TypeOK, HandlerInv, ProcessInv, EntryInv, CallInv, HomeInv, [Next]_vars
    PROVE  HomeInv'
<1> SUFFICES ASSUME NEW p \in Msgs, home'[p] # None
             PROVE  /\ proc'[p] # "none"
                    /\ DialogOf(home[p])' = DialogOf(p)'
                    /\ cpc'[<<"waiter", p>>] = "end" => sessions'[DialogOf(p)'] # home'[p]
  BY DEF HomeInv
<1>1. CASE Connect(p)
  <2> DEFINE t == socket[DialogOf(p)]
  <2>1. /\ proc[p] = "running" /\ t # None /\ home' = [home EXCEPT ![p] = t]
        /\ UNCHANGED <<req, proc, cpc>>
    BY <1>1 DEF Connect, handlers, closing
  <2>2. pc[p] # "unsent" BY <2>1 DEF ProcessInv, ProcessOK
  <2>3. DialogOf(p) \in Dialogs BY <2>2, SentFacts
  <2>4. t \in Msgs BY <2>1, <2>3 DEF TypeOK
  <2>5. DialogOf(t) = DialogOf(p) BY <2>3, <2>4 DEF EntryInv
  <2>6. cpc[<<"waiter", p>>] # "end" BY <2>1, CallerFacts DEF CallInv, CallOK
  <2>7. home'[p] = t BY <2>1 DEF TypeOK
  <2> HIDE DEF t
  <2> QED BY <2>1, <2>5, <2>6, <2>7 DEF DialogOf
<1>2. CASE ~Connect(p)
  <2>1. home'[p] = home[p]
    <3>1. ASSUME NEW m \in Msgs, Connect(m), m # p PROVE home'[p] = home[p]
      BY <3>1 DEF Connect, TypeOK
    <3>2. ASSUME NEW m \in Msgs,
                 Run(m) \/ Handler(m) \/ Answer(m) \/ Exit(m) \/ Reader(m) \/ TimerFires(m)
          PROVE  home' = home
      BY <3>2
      DEF Run, Handler, IgnoreTurn, ReuseSession, CreateSession, NoSession, Send, SendFails,
          SendProgramEnd, ClientTerminate, Terminated, Answer, Exit, Reader, ReadMessage,
          ReaderReturns, TimerFires, processes
    <3>3. ASSUME NEW k \in Callers, CloseSession(k) PROVE home' = home
      BY <3>3 DEF CloseSession, CloseLookup, Close, Delete, processes
    <3>4. CASE UNCHANGED vars BY <3>4 DEF vars
    <3> QED BY <1>2, <3>1, <3>2, <3>3, <3>4 DEF Next, Process
  <2> DEFINE t == home[p]
  <2>2. /\ t \in Msgs /\ proc[t] # "none" /\ proc[p] # "none"
        /\ DialogOf(t) = DialogOf(p)
        /\ cpc[<<"waiter", p>>] = "end" => sessions[DialogOf(p)] # t
    BY <2>1 DEF HomeInv, ProcessInv, ProcessOK, TypeOK
  <2>3. home'[p] = t BY <2>1
  <2> HIDE DEF t
  <2>4. pc[t] \notin {"unsent", "start"} /\ pc[p] # "unsent" BY <2>2 DEF ProcessInv, ProcessOK
  <2>5. proc'[p] # "none" /\ req'[t] = req[t] /\ req'[p] = req[p]
    BY <2>2, <2>4, Monotone DEF Keeps
  <2>6. ~CreateSession(t) BY <2>2, NoProcessYet DEF CreateSession
  <2>7. cpc'[<<"waiter", p>>] = "end" => sessions'[DialogOf(p)'] # t
    BY <2>2, <2>6, WaiterKeepsAway
  <2> QED BY <2>2, <2>3, <2>5, <2>7 DEF DialogOf
<1> QED BY <1>1, <1>2

\* A connection changes when a process that runs connects, and when a reader drops it
LEMMA ConnectionChange ==
    ASSUME TypeOK, [Next]_vars, NEW s \in Msgs
    PROVE  \/ conn'[s] \in {conn[s], None}
           \/ (conn'[s] \in Msgs /\ proc[conn'[s]] = "running")
<1>1. ASSUME NEW m \in Msgs, Connect(m)
      PROVE  conn'[s] = conn[s] \/ (conn'[s] \in Msgs /\ proc[conn'[s]] = "running")
  <2> DEFINE t == socket[DialogOf(m)]
  <2>1. conn' = [conn EXCEPT ![t] = m] /\ proc[m] = "running" BY <1>1 DEF Connect
  <2> HIDE DEF t
  <2> QED BY <2>1 DEF TypeOK
<1>2. ASSUME NEW m \in Msgs, ReaderReturns(m) PROVE conn'[s] \in {conn[s], None}
  BY <1>2 DEF ReaderReturns, TypeOK
<1>3. ASSUME NEW m \in Msgs,
             Run(m) \/ Handler(m) \/ Answer(m) \/ Exit(m) \/ ReadMessage(m) \/ TimerFires(m)
      PROVE  conn' = conn
  BY <1>3
  DEF Run, Handler, IgnoreTurn, ReuseSession, CreateSession, NoSession, Send, SendFails,
      SendProgramEnd, ClientTerminate, Terminated, Answer, Exit, ReadMessage, TimerFires,
      processes
<1>4. ASSUME NEW k \in Callers, CloseSession(k) PROVE conn' = conn
  BY <1>4 DEF CloseSession, CloseLookup, Close, Delete, processes
<1>5. CASE UNCHANGED vars BY <1>5 DEF vars
<1> QED BY <1>1, <1>2, <1>3, <1>4, <1>5 DEF Next, Process, Reader

\* The map never hands out a session that is connected to a process whose waiter is
\* through, and such a process does not connect to the session afterwards
LEMMA GoneStep ==
    ASSUME TypeOK, HandlerInv, ProcessInv, EntryInv, CallInv, ConnectionIsRead, HomeInv,
           GoneInv, [Next]_vars
    PROVE  GoneInv'
<1> SUFFICES ASSUME NEW n \in Msgs PROVE GoneOK(n)'
  BY DEF GoneInv
<1>0. GoneOK(n) /\ gone[n] \subseteq Msgs /\ None \notin gone[n]
  BY NamesAssumption DEF GoneInv, TypeOK
\* What stays
<1>1. \A p \in gone[n] : cpc'[<<"waiter", p>>] = "end"
  BY <1>0, WaiterEnds DEF GoneOK
<1>2. ASSUME NEW p \in Msgs, proc[p] # "none", pc[n] # "unsent"
      PROVE  /\ proc'[p] # "none"
             /\ DialogOf(p)' = DialogOf(p) /\ DialogOf(n)' = DialogOf(n)
  <2>1. pc[p] # "unsent" BY <1>2 DEF ProcessInv, ProcessOK
  <2> QED BY <1>2, <2>1, Monotone DEF Keeps, DialogOf
<1>3. ASSUME sess[n] # None PROVE conn'[sess[n]] \notin gone[n]
  <2>1. sess[n] \in Msgs /\ conn[sess[n]] \notin gone[n] BY <1>0, <1>3 DEF GoneOK, TypeOK
  <2>2. ASSUME NEW p \in gone[n] PROVE proc[p] # "running"
    <3>1. CallOK(<<"waiter", p>>) BY <1>0, CallerFacts DEF CallInv
    <3>2. cpc[<<"waiter", p>>] = "end" BY <1>0 DEF GoneOK
    <3> QED BY <3>1, <3>2 DEF CallOK
  <2> QED BY <1>0, <2>1, <2>2, ConnectionChange
<1>4. pc[n] \notin {"unsent", "start"} => pc'[n] \notin {"unsent", "start"}
  BY Monotone DEF Keeps
<1>5. ASSUME sess[n] # None
      PROVE  /\ pc'[n] \notin {"unsent", "start"} /\ proc'[sess[n]] # "none"
             /\ sess'[n] = sess[n] => DialogOf(sess[n])' = DialogOf(n)'
  <2>1. /\ sess[n] \in Msgs /\ proc[sess[n]] # "none" /\ pc[n] \notin {"unsent", "start"}
        /\ DialogOf(sess[n]) = DialogOf(n)
    BY <1>0, <1>5 DEF GoneOK, TypeOK
  <2> QED BY <1>2, <1>4, <2>1 DEF DialogOf
<1>6. ASSUME written[n] # None
      PROVE  /\ pc'[n] \notin {"unsent", "start"} /\ proc'[written[n]] # "none"
             /\ written'[n] = written[n] => DialogOf(written[n])' = DialogOf(n)'
             /\ written[n] \notin gone[n]
  <2>1. /\ written[n] \in Msgs /\ proc[written[n]] # "none" /\ pc[n] \notin {"unsent", "start"}
        /\ DialogOf(written[n]) = DialogOf(n) /\ written[n] \notin gone[n]
    BY <1>0, <1>6 DEF GoneOK, TypeOK
  <2> QED BY <1>2, <1>4, <2>1 DEF DialogOf
<1>7. ASSUME gone'[n] = gone[n], sess'[n] = sess[n], written'[n] = written[n]
      PROVE  GoneOK(n)'
  BY <1>1, <1>3, <1>5, <1>6, <1>7 DEF GoneOK
\* What changes
<1>8. CASE Run(n)
  <2>1. pc[n] = "unsent" /\ sess[n] = None /\ written[n] = None
    BY <1>0, <1>8 DEF Run, GoneOK
  <2>2. gone'[n] = {p \in Msgs : cpc[<<"waiter", p>>] = "end"} /\ UNCHANGED <<cpc, sess, written>>
    BY <1>8 DEF Run, closing, TypeOK
  <2> QED BY <2>1, <2>2 DEF GoneOK
<1>9. CASE ReuseSession(n)
  <2> DEFINE s == sessions[DialogOf(n)]
  <2>1. /\ pc[n] = "start" /\ s # None /\ UNCHANGED <<conn, gone, written, req, proc>>
        /\ sess'[n] = s /\ pc'[n] = "send"
    BY <1>9 DEF ReuseSession, HasTurn, GoTo, processes, TypeOK
  <2>2. DialogOf(n) \in Dialogs BY <2>1, SentFacts
  <2>3. s \in Msgs BY <2>1, <2>2 DEF TypeOK
  <2>4. proc[s] # "none" /\ DialogOf(s) = DialogOf(n) BY <2>2, <2>3 DEF EntryInv
  <2>5. conn[s] \notin gone[n]
    <3>1. SUFFICES ASSUME conn[s] \in gone[n] PROVE FALSE OBVIOUS
    <3>2. conn[s] \in Msgs /\ conn[s] # None /\ cpc[<<"waiter", conn[s]>>] = "end"
      BY <3>1, <1>0 DEF GoneOK
    <3>3. home[conn[s]] = s BY <2>3, <3>2 DEF ConnectionIsRead
    <3>4. s # None BY <2>1
    <3>5. DialogOf(s) = DialogOf(conn[s]) /\ sessions[DialogOf(conn[s])] # s
      BY <3>2, <3>3, <3>4 DEF HomeInv
    <3> QED BY <2>4, <3>5
  <2> HIDE DEF s
  <2> QED BY <1>1, <1>6, <2>1, <2>4, <2>5 DEF GoneOK, DialogOf
<1>10. CASE CreateSession(n)
  <2>1. /\ pc[n] = "start" /\ UNCHANGED <<conn, gone, written, req>>
        /\ sess'[n] = n /\ pc'[n] = "send" /\ proc'[n] = "running"
    BY <1>10 DEF CreateSession, HasTurn, GoTo, TypeOK
  <2>2. proc[n] = "none" BY <2>1 DEF ProcessInv, ProcessOK, TypeOK
  <2>3. conn[n] = None
    <3>1. SUFFICES ASSUME conn[n] # None PROVE FALSE OBVIOUS
    <3>2. conn[n] \in Msgs /\ home[conn[n]] = n BY <3>1 DEF ConnectionIsRead, TypeOK
    <3>3. n # None BY NamesAssumption
    <3> QED BY <2>2, <3>2, <3>3 DEF ProcessInv, ProcessOK
  <2> QED BY <1>0, <1>1, <1>6, <2>1, <2>3 DEF GoneOK, DialogOf
<1>11. CASE Send(n)
  <2> DEFINE p == conn[sess[n]]
  <2>1. /\ pc[n] = "send" /\ p # None /\ UNCHANGED <<sess, gone, req, conn, home, proc>>
        /\ written'[n] = p /\ pc'[n] = "done"
    BY <1>11 DEF Send, GoTo, processes, TypeOK
  <2>2. sess[n] \in Msgs BY <2>1 DEF HandlerInv, HandlerOK
  <2>3. p \in Msgs /\ home[p] = sess[n] BY <2>1, <2>2 DEF ConnectionIsRead, TypeOK
  <2>4. sess[n] # None BY <2>2, NamesAssumption
  <2>5. proc[p] # "none" /\ DialogOf(p) = DialogOf(sess[n]) BY <2>3, <2>4 DEF HomeInv
  <2>6. DialogOf(sess[n]) = DialogOf(n) /\ p \notin gone[n] BY <1>0, <2>4 DEF GoneOK
  <2>7. conn'[sess[n]] \notin gone[n] BY <1>3, <2>4
  <2> HIDE DEF p
  <2> QED BY <1>1, <1>5, <2>1, <2>4, <2>5, <2>6, <2>7 DEF GoneOK, DialogOf
<1>12. ASSUME ~Run(n), ~ReuseSession(n), ~CreateSession(n), ~Send(n)
       PROVE  gone'[n] = gone[n] /\ sess'[n] = sess[n] /\ written'[n] = written[n]
  <2>1. ASSUME NEW m \in Msgs, Run(m) \/ Handler(m)
      PROVE  /\ gone'[n] = gone[n] /\ sess'[n] = sess[n]
             /\ written'[n] = written[n]
    BY <1>12, <2>1
    DEF Run, Handler, IgnoreTurn, ReuseSession, CreateSession, NoSession, Send, SendFails,
        SendProgramEnd, ClientTerminate, Terminated, TypeOK
  <2>2. ASSUME NEW m \in Msgs, Process(m) \/ Reader(m) \/ TimerFires(m)
      PROVE  /\ gone'[n] = gone[n] /\ sess'[n] = sess[n]
             /\ written'[n] = written[n]
    BY <2>2
    DEF Process, Connect, Answer, Exit, Reader, ReadMessage, ReaderReturns, TimerFires,
        handlers
  <2>3. ASSUME NEW k \in Callers, CloseSession(k)
      PROVE  /\ gone'[n] = gone[n] /\ sess'[n] = sess[n]
             /\ written'[n] = written[n]
    BY <2>3 DEF CloseSession, CloseLookup, Close, Delete, handlers
  <2>4. CASE UNCHANGED vars BY <2>4 DEF vars
  <2> QED BY <2>1, <2>2, <2>3, <2>4 DEF Next
<1> QED BY <1>7, <1>8, <1>9, <1>10, <1>11, <1>12

\* A session that was closed is dead, and no longer in the map
LEMMA CloseStep ==
    ASSUME TypeOK, HandlerInv, ProcessInv, EntryInv, CallInv, CloseIsFinal, [Next]_vars
    PROVE  CloseIsFinal'
<1> SUFFICES ASSUME NEW j \in Callers, cpc'[j] = "end", target'[j] # None
             PROVE  /\ proc'[target'[j]] = "dead"
                    /\ sessions'[DialogOf(target[j])'] # target'[j]
  BY DEF CloseIsFinal
<1>1. CallInv' BY CallStep
<1>2. proc'[target'[j]] = "dead" BY <1>1 DEF CallInv, CallOK
<1>3. ASSUME cpc[j] = "end", target'[j] = target[j],
             \A d \in Dialogs : sessions'[d] = target[j] => sessions[d] = target[j]
      PROVE  sessions'[DialogOf(target[j])'] # target'[j]
  <2>1. target[j] \in Msgs /\ proc[target[j]] # "none" /\ sessions[DialogOf(target[j])] # target[j]
    BY <1>3 DEF CallInv, CallOK, CloseIsFinal, TypeOK
  <2>2. pc[target[j]] # "unsent" BY <2>1 DEF ProcessInv, ProcessOK
  <2>3. DialogOf(target[j])' = DialogOf(target[j])
    BY <1>3, <2>1, <2>2, Monotone DEF Keeps, DialogOf
  <2>4. DialogOf(target[j]) \in Dialogs BY <2>1, <2>2, SentFacts
  <2> QED BY <1>3, <2>1, <2>3, <2>4
<1>4. ASSUME NEW m \in Msgs, CreateSession(m)
      PROVE  sessions'[DialogOf(target[j])'] # target'[j]
  <2>1. cpc[j] = "end" /\ target'[j] = target[j]
    BY <1>4 DEF CreateSession, closing
  <2>2. target[j] # m
    <3>1. CallOK(j) BY DEF CallInv
    <3>2. proc[m] = "none" BY <1>4, NoProcessYet DEF CreateSession
    <3> QED BY <2>1, <3>1, <3>2 DEF CallOK
  <2>3. \A d \in Dialogs : sessions'[d] = target[j] => sessions[d] = target[j]
    BY <1>4, <2>2 DEF CreateSession, TypeOK
  <2> QED BY <2>1, <2>3, <1>3
<1>5. ASSUME NEW m \in Msgs, Handler(m), ~CreateSession(m)
      PROVE  /\ UNCHANGED <<sessions, target>>
             /\ cpc'[j] = "end" => cpc[j] = "end"
  <2>1. UNCHANGED <<sessions, target>>
    BY <1>5
    DEF Handler, IgnoreTurn, ReuseSession, NoSession, Send, SendFails, SendProgramEnd,
        ClientTerminate, Terminated, closing
  <2>2. cpc' = cpc \/ cpc' = [cpc EXCEPT ![<<"handler", m>>] = "lookup"]
    BY <1>5
    DEF Handler, IgnoreTurn, ReuseSession, NoSession, Send, SendFails, SendProgramEnd,
        ClientTerminate, Terminated, closing, Call
  <2> QED BY <2>1, <2>2 DEF TypeOK
<1>6. ASSUME NEW m \in Msgs, Run(m) \/ Process(m) \/ Reader(m) \/ TimerFires(m)
      PROVE  /\ UNCHANGED <<sessions, target>>
             /\ cpc'[j] = "end" => cpc[j] = "end"
  <2>1. UNCHANGED <<sessions, target>>
    BY <1>6
    DEF Run, Process, Connect, Answer, Exit, Reader, ReadMessage, ReaderReturns,
        TimerFires, closing
  <2>2. \/ cpc' = cpc
        \/ cpc' = [cpc EXCEPT ![<<"reader", m>>] = "lookup"]
        \/ cpc' = [cpc EXCEPT ![<<"timer", m>>] = "lookup"]
    BY <1>6
    DEF Run, Process, Connect, Answer, Exit, Reader, ReadMessage, ReaderReturns,
        TimerFires, closing, Call
  <2> QED BY <2>1, <2>2 DEF TypeOK
<1>7. ASSUME NEW k \in Callers, CloseSession(k)
      PROVE  sessions'[DialogOf(target[j])'] # target'[j]
  <2>1. CASE cpc[j] = "end"
    <3>1. target'[j] = target[j] /\ ~Called(j)
      BY <1>7, <2>1, <1>2
      DEF CloseSession, CloseLookup, Called, Close, Delete, TypeOK
    <3>2. sessions' = sessions \/ \E d : sessions' = [sessions EXCEPT ![d] = None]
      BY <1>7 DEF CloseSession, CloseLookup, Close, Delete
    <3>3. \A d \in Dialogs : sessions'[d] = target[j] => sessions[d] = target[j]
      BY <3>1, <3>2 DEF TypeOK
    <3> QED BY <2>1, <3>1, <3>3, <1>3
  \* CloseLookup ends a call only when it finds nothing
  <2>2. CASE cpc[j] # "end"
    <3>1. Delete(j)
      BY <1>7, <2>2 DEF CloseSession, CloseLookup, Close, Delete, TypeOK
    <3>2. /\ cpc[j] = "delete" /\ target' = target /\ UNCHANGED req
          /\ sessions' = [sessions EXCEPT ![DialogOf(j[2])] = None]
      BY <3>1 DEF Delete, handlers
    <3>3. DialogOf(target[j])' = DialogOf(j[2])
      BY <3>2 DEF CallInv, CallOK, DialogOf
    <3>4. j[2] \in Msgs /\ pc[j[2]] # "unsent"
      BY <3>2, CallerFacts DEF CallInv, CallOK
    <3>5. DialogOf(j[2]) \in Dialogs BY <3>4, SentFacts
    <3> QED BY <3>2, <3>3, <3>5 DEF TypeOK
  <2> QED BY <2>1, <2>2
<1>8. ASSUME UNCHANGED <<sessions, target>>, cpc'[j] = "end" => cpc[j] = "end"
      PROVE  sessions'[DialogOf(target[j])'] # target'[j]
  BY <1>8, <1>3
<1>9. CASE UNCHANGED vars
  <2>1. sessions' = sessions /\ target' = target /\ cpc[j] = "end" BY <1>9 DEF vars
  <2> QED BY <2>1, <1>2, <1>3
<1>10. sessions'[DialogOf(target[j])'] # target'[j]
  BY <1>4, <1>5, <1>6, <1>7, <1>8, <1>9 DEF Next
<1> QED BY <1>2, <1>10

\* A handler is through with a turn only by Send, NoSession and SendProgramEnd
LEMMA TurnStep ==
    ASSUME TypeOK, HandlerInv, ProcessInv, TurnInv, [Next]_vars
    PROVE  TurnInv'
<1> DEFINE DealtWith(n) ==
      \/ written[n] # None
      \/ \E t \in told : t.from = n /\ t.by = "handler" /\ t.event \in {2002, 2004}
<1> SUFFICES ASSUME NEW n \in Msgs, pc'[n] = "done", req'[n].event = 1001,
                    req'[n].intention # NoIntent
             PROVE  DealtWith(n)'
  BY DEF TurnInv
<1>1. ASSUME pc[n] = "done", told \subseteq told',
             written'[n] = written[n] \/ written'[n] # None
      PROVE  DealtWith(n)'
  <2>1. req[n] = req'[n] BY <1>1, Monotone DEF Keeps
  <2>2. DealtWith(n) BY <1>1, <2>1 DEF TurnInv
  <2> QED BY <1>1, <2>2
<1>2. ASSUME NEW m \in Msgs, Run(m) PROVE DealtWith(n)'
  BY <1>2, <1>1 DEF Run, GoTo, TypeOK
<1>3. ASSUME NEW m \in Msgs, Handler(m), m # n PROVE DealtWith(n)'
  <2>1. pc[n] = "done"
    BY <1>3
    DEF Handler, IgnoreTurn, ReuseSession, CreateSession, NoSession, Send, SendFails,
        SendProgramEnd, ClientTerminate, Terminated, GoTo, TypeOK
  <2>2. told \subseteq told' /\ written'[n] = written[n]
    BY <1>3
    DEF Handler, IgnoreTurn, ReuseSession, CreateSession, NoSession, Send, SendFails,
        SendProgramEnd, ClientTerminate, Terminated, Tell, TypeOK
  <2> QED BY <2>1, <2>2, <1>1
<1>4. ASSUME Handler(n) PROVE DealtWith(n)'
  <2>1. CASE Send(n)
    BY <2>1 DEF Send, TypeOK
  <2>2. CASE NoSession(n)
    <3> DEFINE t == [event |-> 2004, from |-> n, by |-> "handler"]
    <3>1. t \in told' BY <2>2 DEF NoSession, Tell
    <3> QED BY <3>1
  <2>3. CASE SendProgramEnd(n)
    <3> DEFINE t == [event |-> 2002, from |-> n, by |-> "handler"]
    <3>1. t \in told' BY <2>3 DEF SendProgramEnd, Tell
    <3> QED BY <3>1
  <2>4. ~IgnoreTurn(n) BY DEF IgnoreTurn
  <2>5. ~Terminated(n) BY DEF Terminated, HandlerInv, HandlerOK
  <2>6. ~ReuseSession(n) /\ ~CreateSession(n) /\ ~SendFails(n) /\ ~ClientTerminate(n)
    BY DEF ReuseSession, CreateSession, SendFails, ClientTerminate, GoTo, TypeOK
  <2> QED BY <1>4, <2>1, <2>2, <2>3, <2>4, <2>5, <2>6 DEF Handler
<1>5. ASSUME NEW s \in Msgs, Process(s) \/ Reader(s) \/ TimerFires(s) PROVE DealtWith(n)'
  <2>1. UNCHANGED <<pc, written>> /\ told \subseteq told'
    BY <1>5 DEF Process, Connect, Answer, Exit, Reader, ReadMessage, ReaderReturns,
                TimerFires, Tell, handlers
  <2> QED BY <2>1, <1>1
<1>6. ASSUME NEW k \in Callers, CloseSession(k) PROVE DealtWith(n)'
  <2>1. UNCHANGED <<pc, written, told>>
    BY <1>6 DEF CloseSession, CloseLookup, Close, Delete, handlers
  <2> QED BY <2>1, <1>1
<1>7. CASE UNCHANGED vars
  <2>1. UNCHANGED <<pc, written, told>> BY <1>7 DEF vars
  <2> QED BY <2>1, <1>1
<1> HIDE DEF DealtWith
<1> QED BY <1>2, <1>3, <1>4, <1>5, <1>6, <1>7 DEF Next

-----------------------------------------------------------------------------
(* The theorems *)

\* The invariant holds at the start
LEMMA InitInv == Init => IInv
<1> SUFFICES ASSUME Init PROVE IInv OBVIOUS
<1>1. TypeOK
  <2>1. \A m \in Msgs : inbox[m] \in Seq(Answers) BY EmptySeq DEF Init
  <2>2. inbox \in [Msgs -> Seq(Answers)] BY <2>1 DEF Init
  <2>3. answers \in [Msgs -> 0..MaxAnswers] BY BoundAssumption DEF Init
  <2> QED BY <2>2, <2>3 DEF Init, TypeOK
<1>2. HandlerInv /\ ProcessInv /\ EntryInv
  BY NamesAssumption, CallerFacts
  DEF Init, HandlerInv, HandlerOK, ProcessInv, ProcessOK, EntryInv
<1>3. CallInv BY DEF Init, CallInv, CallOK
<1>4. WaiterInv BY CallerFacts DEF Init, WaiterInv
<1>5. ConnectionIsRead /\ CloseIsFinal /\ HomeInv /\ GoneInv /\ TurnInv
  BY DEF Init, ConnectionIsRead, CloseIsFinal, HomeInv, GoneInv, GoneOK, TurnInv
<1> QED BY <1>1, <1>2, <1>3, <1>4, <1>5 DEF IInv

\* The inductive invariant holds: it ties each goroutine to the session it works on, and
\* each session to its dialog, its process and the CloseSession calls on it
THEOREM Invariance == Spec => []IInv
<1>1. IInv /\ [Next]_vars => IInv'
  BY TypeStep, HandlerStep, ProcessStep, EntryStep, CallStep, WaiterStep, ConnectionStep,
     CloseStep, HomeStep, GoneStep,
     TurnStep
  DEF IInv
<1> QED BY <1>1, InitInv, PTL DEF Spec

\* Every variable of the session manager holds a value of its kind
THEOREM TypeCorrectness == Spec => []TypeOK
<1>1. IInv => TypeOK BY DEF IInv
<1> QED BY <1>1, Invariance, PTL

\* handleFromExpertMessage returns from a turn only after it told the expert that there is
\* no program, or wrote the turn to a process of the dialog whose end waitForProcess had not
\* dealt with when the turn came
THEOREM TurnsSpareTheGone == Spec => []NoTurnToTheGone
<1>1. IInv => NoTurnToTheGone
  BY DEF IInv, TurnInv, GoneInv, GoneOK, NoTurnToTheGone
<1> QED BY <1>1, Invariance, PTL

\* However many CloseSession calls work on a session, the first that returns from it leaves
\* its process dead and its map entry gone for good
THEOREM ClosedForGood == Spec => []CloseIsFinal
<1>1. IInv => CloseIsFinal BY DEF IInv
<1> QED BY <1>1, Invariance, PTL

\* Once waitForProcess is through with a dead process the map does not keep its session
THEOREM DeadEntriesLeave == Spec => []NoDeadEntry
<1>1. IInv => NoDeadEntry BY DEF IInv, WaiterInv, NoDeadEntry
<1> QED BY <1>1, Invariance, PTL

\* s.conn is never left at a connection that handleConnection has given up
THEOREM ConnectionsAreRead == Spec => []ConnectionIsRead
<1>1. IInv => ConnectionIsRead BY DEF IInv
<1> QED BY <1>1, Invariance, PTL
=============================================================================
