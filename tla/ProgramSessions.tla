-------------------------- MODULE ProgramSessions --------------------------
(***************************************************************************)
(* The program library: program/program.go and program/session.go.  A turn *)
(* of the expert starts one Node.js process per dialog, or reuses the      *)
(* dialog's running one, and is written to it over a Unix socket; what the *)
(* process answers goes back to the expert.  Four kinds of goroutine close *)
(* a session: the handler of a message, the reader of a connection, the    *)
(* waiter for the process and the idle timer.  All of them name the        *)
(* session by its dialog, and look it up, kill it and delete it in three   *)
(* critical sections.                                                      *)
(*                                                                         *)
(* A message m of Msgs is also the goroutine that handles it and, when it  *)
(* creates a session, the name of that session and of its process.         *)
(***************************************************************************)
EXTENDS Integers, Sequences

CONSTANTS
    Dialogs, Intents,
    Programs,       \* the intents that have a directory with a .js file
    Msgs,           \* messages of the expert in one behaviour
    Requests,       \* the event types the expert sends, 1001 and 1002
    Answers,        \* the event types a process sends
    IdleSessions,   \* sessions whose idle timer may run out (bounds the behaviour)
    MaxAnswers,     \* how many messages a process writes (bounds the behaviour)
    NoIntent, None

ASSUME ProgramsAssumption == Programs \subseteq Intents
ASSUME NamesAssumption == None \notin Msgs /\ NoIntent \notin Intents
ASSUME EventsAssumption == Requests \subseteq {1001, 1002} /\ Answers \subseteq Int
ASSUME BoundAssumption == MaxAnswers \in Nat /\ IdleSessions \subseteq Msgs

Callers == {"handler", "reader", "waiter", "timer"} \X Msgs
\* The expert sends 1002 without an intention
Request ==
    {r \in [event : Requests, dlg : Dialogs, intention : Intents \cup {NoIntent}] :
       r.event = 1002 => r.intention = NoIntent}
\* Answers that are not understood: a header without the magic number, a body that is
\* not a JSON message
Garbled == 0
Unparsed == 1
Told == [event : Answers \cup {2002, 2004}, from : Msgs, by : {"handler", "reader"}]

VARIABLES
    req,        \* what each message says, None until it is sent
    pc,         \* where the handler of a message is
    sess,       \* the session that GetOrCreateSession gave the handler
    written,    \* the process that a turn was written to
    gone,       \* history: the processes whose end was dealt with when a message came
    sessions,   \* m.sessions
    socket,     \* the session whose listener a dialog's socket path leads to
    timer,      \* whether the idle timer of a session is armed
    proc,       \* each process
    conn,       \* s.conn of a session: the process at the other end
    home,       \* the session that accepted the connection of a process
    reader,     \* handleConnection for the connection of a process
    inbox,      \* what a process wrote and the reader did not read yet
    answers,    \* how much a process wrote
    told,       \* what was sent to toExpertMessageOutChan
    cpc,        \* where each CloseSession call is
    target      \* the session that it found

vars == <<req, pc, sess, written, gone, sessions, socket, timer, proc, conn, home, reader,
          inbox, answers, told, cpc, target>>
handlers == <<req, pc, sess, written, gone>>
processes == <<proc, conn, home, reader, inbox, answers>>
closing == <<cpc, target>>

Init ==
    /\ req = [m \in Msgs |-> None]
    /\ pc = [m \in Msgs |-> "unsent"]
    /\ sess = [m \in Msgs |-> None]
    /\ written = [m \in Msgs |-> None]
    /\ gone = [m \in Msgs |-> {}]
    /\ sessions = [d \in Dialogs |-> None]
    /\ socket = [d \in Dialogs |-> None]
    /\ timer = [s \in Msgs |-> FALSE]
    /\ proc = [s \in Msgs |-> "none"]
    /\ conn = [s \in Msgs |-> None]
    /\ home = [s \in Msgs |-> None]
    /\ reader = [s \in Msgs |-> "none"]
    /\ inbox = [s \in Msgs |-> <<>>]
    /\ answers = [s \in Msgs |-> 0]
    /\ told = {}
    /\ cpc = [k \in Callers |-> "idle"]
    /\ target = [k \in Callers |-> None]

\* The dialog of a session, and of a CloseSession call
DialogOf(s) == req[s].dlg
Tell(event, from, by) ==
    told' = told \cup {[event |-> event, from |-> from, by |-> by]}
Call(k) == cpc' = [cpc EXCEPT ![k] = "lookup"]
GoTo(m, where) == pc' = [pc EXCEPT ![m] = where]

-----------------------------------------------------------------------------
(* CloseSession *)

\* Mutant: nobody waits for the process
CalledByHand(k) == cpc[k] = "lookup"

\* waitForProcess calls it when Cmd.Wait returns
Called(k) ==
    \/ cpc[k] = "lookup"
    \/ k[1] = "waiter" /\ cpc[k] = "idle" /\ proc[k[2]] = "dead"

\* Mutant: there is nothing to close when the process has ended already
CloseLookupRunning(k) ==
    LET s == sessions[DialogOf(k[2])] IN
    /\ Called(k)
    /\ target' = [target EXCEPT ![k] = s]
    /\ cpc' = [cpc EXCEPT ![k] = IF s = None \/ proc[s] = "dead" THEN "end" ELSE "close"]
    /\ UNCHANGED <<handlers, sessions, socket, timer, processes, told>>

\* Look the dialog's session up, under m.mu
CloseLookup(k) ==
    LET s == sessions[DialogOf(k[2])] IN
    /\ Called(k)
    /\ target' = [target EXCEPT ![k] = s]
    /\ cpc' = [cpc EXCEPT ![k] = IF s = None THEN "end" ELSE "close"]
    /\ UNCHANGED <<handlers, sessions, socket, timer, processes, told>>

\* Mutant: the process is left alone
CloseNoKill(k) ==
    LET s == target[k] IN
    /\ cpc[k] = "close"
    /\ timer' = [timer EXCEPT ![s] = FALSE]
    /\ socket' = [socket EXCEPT ![DialogOf(s)] = None]
    /\ cpc' = [cpc EXCEPT ![k] = "delete"]
    /\ UNCHANGED <<handlers, sessions, proc, conn, home, reader, inbox, answers, told, target>>

\* close: stop the timer, close the listener, kill the process, remove the socket file
Close(k) ==
    LET s == target[k] IN
    /\ cpc[k] = "close"
    /\ timer' = [timer EXCEPT ![s] = FALSE]
    /\ proc' = [proc EXCEPT ![s] = "dead"]
    /\ socket' = [socket EXCEPT ![DialogOf(s)] = None]
    /\ cpc' = [cpc EXCEPT ![k] = "delete"]
    /\ UNCHANGED <<handlers, sessions, conn, home, reader, inbox, answers, told, target>>

\* Mutant: the entry stays
DeleteNothing(k) ==
    /\ cpc[k] = "delete"
    /\ UNCHANGED sessions
    /\ cpc' = [cpc EXCEPT ![k] = "end"]
    /\ UNCHANGED <<handlers, socket, timer, processes, told, target>>

\* Delete the dialog's entry, whatever it is by now, under m.mu
Delete(k) ==
    /\ cpc[k] = "delete"
    /\ sessions' = [sessions EXCEPT ![DialogOf(k[2])] = None]
    /\ cpc' = [cpc EXCEPT ![k] = "end"]
    /\ UNCHANGED <<handlers, socket, timer, processes, told, target>>

-----------------------------------------------------------------------------
(* handleFromExpertMessage *)

\* HandleExpertRequestMessage and the select of Run: a message gets its goroutine
Run(m) ==
    /\ pc[m] = "unsent"
    /\ \E r \in Request : req' = [req EXCEPT ![m] = r]
    /\ gone' = [gone EXCEPT ![m] = {p \in Msgs : cpc[<<"waiter", p>>] = "end"}]
    /\ GoTo(m, "start")
    /\ UNCHANGED <<sess, written, sessions, socket, timer, processes, told, closing>>

\* 1001 without an intention
IgnoreTurn(m) ==
    /\ pc[m] = "start"
    /\ req[m].event = 1001
    /\ req[m].intention = NoIntent
    /\ GoTo(m, "done")
    /\ UNCHANGED <<req, sess, written, gone, sessions, socket, timer, processes, told, closing>>

\* 1001: is about to call GetOrCreateSession
HasTurn(m) ==
    pc[m] = "start" /\ req[m].event = 1001 /\ req[m].intention # NoIntent

\* GetOrCreateSession finds a session of the dialog, of any intent
ReuseSession(m) ==
    LET s == sessions[DialogOf(m)] IN
    /\ HasTurn(m)
    /\ s # None
    /\ timer' = [timer EXCEPT ![s] = TRUE]
    /\ sess' = [sess EXCEPT ![m] = s]
    /\ GoTo(m, "send")
    /\ UNCHANGED <<req, written, gone, sessions, socket, processes, told, closing>>

\* GetOrCreateSession creates one; the idle timer is not armed before a connection
CreateSession(m) ==
    /\ HasTurn(m)
    /\ sessions[DialogOf(m)] = None
    /\ req[m].intention \in Programs
    /\ sessions' = [sessions EXCEPT ![DialogOf(m)] = m]
    /\ socket' = [socket EXCEPT ![DialogOf(m)] = m]
    /\ proc' = [proc EXCEPT ![m] = "running"]
    /\ sess' = [sess EXCEPT ![m] = m]
    /\ GoTo(m, "send")
    /\ UNCHANGED <<req, written, gone, timer, conn, home, reader, inbox, answers, told, closing>>

\* Mutant: the wrong event
NoSessionNotSupported(m) ==
    /\ HasTurn(m)
    /\ sessions[DialogOf(m)] = None
    /\ socket' = [socket EXCEPT ![DialogOf(m)] = None]
    /\ Tell(2003, m, "handler")
    /\ GoTo(m, "done")
    /\ UNCHANGED <<req, sess, written, gone, sessions, timer, processes, closing>>

\* There is no such program, or the listener or the process fails to start: the old
\* socket file is gone all the same, and sendToolNotFound tells the expert
NoSession(m) ==
    /\ HasTurn(m)
    /\ sessions[DialogOf(m)] = None
    /\ socket' = [socket EXCEPT ![DialogOf(m)] = None]
    /\ Tell(2004, m, "handler")
    /\ GoTo(m, "done")
    /\ UNCHANGED <<req, sess, written, gone, sessions, timer, processes, closing>>

\* Send: write the turn to the connection of the session
Send(m) ==
    /\ pc[m] = "send"
    /\ conn[sess[m]] # None
    /\ written' = [written EXCEPT ![m] = conn[sess[m]]]
    /\ GoTo(m, "done")
    /\ UNCHANGED <<req, sess, gone, sessions, socket, timer, processes, told, closing>>

\* Mutant: Send waits for a connection without a limit
SendWaitsForever(m) ==
    /\ pc[m] = "send"
    /\ conn[sess[m]] # None
    /\ proc[conn[sess[m]]] = "dead"
    /\ Call(<<"handler", m>>)
    /\ GoTo(m, "failed")
    /\ UNCHANGED <<req, sess, written, gone, sessions, socket, timer, processes, told, target>>

\* Send waits a second in vain for a connection, or the write fails
SendFails(m) ==
    /\ pc[m] = "send"
    /\ conn[sess[m]] # None => proc[conn[sess[m]]] = "dead"
    /\ Call(<<"handler", m>>)
    /\ GoTo(m, "failed")
    /\ UNCHANGED <<req, sess, written, gone, sessions, socket, timer, processes, told, target>>

\* ... and, once CloseSession returned, sendProgramEnd tells the expert
SendProgramEnd(m) ==
    /\ pc[m] = "failed"
    /\ cpc[<<"handler", m>>] = "end"
    /\ Tell(2002, m, "handler")
    /\ GoTo(m, "done")
    /\ UNCHANGED <<req, sess, written, gone, sessions, socket, timer, processes, closing>>

\* 1002: CloseSession
ClientTerminate(m) ==
    /\ pc[m] = "start"
    /\ req[m].event = 1002
    /\ Call(<<"handler", m>>)
    /\ GoTo(m, "terminating")
    /\ UNCHANGED <<req, sess, written, gone, sessions, socket, timer, processes, told, target>>

Terminated(m) ==
    /\ pc[m] = "terminating"
    /\ cpc[<<"handler", m>>] = "end"
    /\ GoTo(m, "done")
    /\ UNCHANGED <<req, sess, written, gone, sessions, socket, timer, processes, told, closing>>

-----------------------------------------------------------------------------
(* The Node.js process, as session.go relies on it *)

\* The process connects, once, to the socket path of its dialog; listenOnSocket of the
\* session that listens there closes its former connection and starts a reader, which
\* arms the idle timer
Connect(s) ==
    LET t == socket[DialogOf(s)] IN
    /\ proc[s] = "running"
    /\ reader[s] = "none"
    /\ t # None
    /\ conn' = [conn EXCEPT ![t] = s]
    /\ home' = [home EXCEPT ![s] = t]
    /\ reader' = [reader EXCEPT ![s] = "read"]
    /\ timer' = [timer EXCEPT ![t] = TRUE]
    /\ UNCHANGED <<handlers, sessions, socket, proc, inbox, answers, told, closing>>

\* The process writes a message to its connection
Answer(s) ==
    /\ proc[s] = "running"
    /\ reader[s] \notin {"none", "gone"}
    /\ answers[s] < MaxAnswers
    /\ \E e \in Answers : inbox' = [inbox EXCEPT ![s] = Append(@, e)]
    /\ answers' = [answers EXCEPT ![s] = @ + 1]
    /\ UNCHANGED <<handlers, sessions, socket, timer, proc, conn, home, reader, told, closing>>

\* The process ends by itself
Exit(s) ==
    /\ proc[s] = "running"
    /\ proc' = [proc EXCEPT ![s] = "dead"]
    /\ UNCHANGED <<handlers, sessions, socket, timer, conn, home, reader, inbox, answers, told, closing>>

-----------------------------------------------------------------------------
(* handleConnection, waitForProcess and the idle timer *)

\* Read one message and pass it on; 2002, 2003 and 2004 close the session, after any
\* other resetTimeout arms the timer, even if the session was closed
ReadMessage(s) ==
    LET e == Head(inbox[s]) IN
    /\ reader[s] = "read"
    /\ conn[home[s]] = s
    /\ inbox[s] # <<>>
    /\ e # Garbled
    /\ inbox' = [inbox EXCEPT ![s] = Tail(@)]
    /\ IF e = Unparsed THEN UNCHANGED told ELSE Tell(e, s, "reader")
    /\ IF e \in {2002, 2003, 2004}
       THEN Call(<<"reader", s>>) /\ reader' = [reader EXCEPT ![s] = "closing"]
            /\ UNCHANGED timer
       ELSE timer' = [timer EXCEPT ![home[s]] = TRUE] /\ UNCHANGED <<cpc, reader>>
    /\ UNCHANGED <<handlers, sessions, socket, proc, conn, home, answers, target>>

\* Mutant: the session keeps the connection
ReaderReturnsOnly(s) ==
    LET t == home[s] IN
    /\ \/ /\ reader[s] = "read"
          /\ \/ conn[t] # s
             \/ inbox[s] = <<>> /\ proc[s] = "dead"
             \/ inbox[s] # <<>> /\ Head(inbox[s]) = Garbled
       \/ reader[s] = "closing" /\ cpc[<<"reader", s>>] = "end"
    /\ reader' = [reader EXCEPT ![s] = "gone"]
    /\ inbox' = [inbox EXCEPT ![s] = <<>>]
    /\ UNCHANGED <<handlers, sessions, socket, timer, proc, conn, home, answers, told, closing>>

\* End of file, a connection replaced by a newer one, a header that is not understood, or
\* CloseSession returned: the deferred calls drop the connection
ReaderReturns(s) ==
    LET t == home[s] IN
    /\ \/ /\ reader[s] = "read"
          /\ \/ conn[t] # s
             \/ inbox[s] = <<>> /\ proc[s] = "dead"
             \/ inbox[s] # <<>> /\ Head(inbox[s]) = Garbled
       \/ reader[s] = "closing" /\ cpc[<<"reader", s>>] = "end"
    /\ conn' = [conn EXCEPT ![t] = IF @ = s THEN None ELSE @]
    /\ reader' = [reader EXCEPT ![s] = "gone"]
    /\ inbox' = [inbox EXCEPT ![s] = <<>>]
    /\ UNCHANGED <<handlers, sessions, socket, timer, proc, home, answers, told, closing>>

\* Two hours without resetTimeout (bound: once for each session)
TimerFires(s) ==
    /\ s \in IdleSessions
    /\ timer[s]
    /\ cpc[<<"timer", s>>] = "idle"
    /\ timer' = [timer EXCEPT ![s] = FALSE]
    /\ Call(<<"timer", s>>)
    /\ UNCHANGED <<handlers, sessions, socket, processes, told, target>>

-----------------------------------------------------------------------------
(* The whole *)

Handler(m) ==
    \/ IgnoreTurn(m) \/ ReuseSession(m) \/ CreateSession(m) \/ NoSession(m)
    \/ Send(m) \/ SendFails(m) \/ SendProgramEnd(m) \/ ClientTerminate(m) \/ Terminated(m)
Reader(s) == ReadMessage(s) \/ ReaderReturns(s)
CloseSession(k) == CloseLookup(k) \/ Close(k) \/ Delete(k)
Process(s) == Connect(s) \/ Answer(s) \/ Exit(s)

Next ==
    \/ \E m \in Msgs : \/ Run(m) \/ Handler(m)
                       \/ Process(m)
                       \/ Reader(m) \/ TimerFires(m)
    \/ \E k \in Callers : CloseSession(k)

Spec == Init /\ [][Next]_vars

\* The Go scheduler is fair to the library's goroutines; nothing is assumed of the expert,
\* of the processes or of the two hours of the timer
FairSpec ==
    /\ Spec
    /\ \A m \in Msgs : /\ WF_vars(Handler(m))
                       /\ WF_vars(Reader(m))
    /\ \A k \in Callers : WF_vars(CloseSession(k))

-----------------------------------------------------------------------------
(* Properties *)

\* Every variable holds a value of its kind: the state of SessionManager, of its sessions
\* and of the goroutines that work on them
TypeOK ==
    /\ req \in [Msgs -> Request \cup {None}]
    /\ pc \in [Msgs -> {"unsent", "start", "send", "failed", "terminating", "done"}]
    /\ sess \in [Msgs -> Msgs \cup {None}]
    /\ written \in [Msgs -> Msgs \cup {None}]
    /\ gone \in [Msgs -> SUBSET Msgs]
    /\ sessions \in [Dialogs -> Msgs \cup {None}]
    /\ socket \in [Dialogs -> Msgs \cup {None}]
    /\ timer \in [Msgs -> BOOLEAN]
    /\ proc \in [Msgs -> {"none", "running", "dead"}]
    /\ conn \in [Msgs -> Msgs \cup {None}]
    /\ home \in [Msgs -> Msgs \cup {None}]
    /\ reader \in [Msgs -> {"none", "read", "closing", "gone"}]
    /\ inbox \in [Msgs -> Seq(Answers)]
    /\ answers \in [Msgs -> 0..MaxAnswers]
    /\ told \subseteq Told
    /\ cpc \in [Callers -> {"idle", "lookup", "close", "delete", "end"}]
    /\ target \in [Callers -> Msgs \cup {None}]

\* When handleFromExpertMessage returns from a turn, the expert was told that the program is
\* gone, or the turn was written to a process of its own dialog, and never to one that
\* waitForProcess was through with before the turn came, whatever session's listener that
\* process had connected to.  Send does not know whether the process still runs: a turn can
\* be lost to a process that ends, or is killed, and is not dealt with when the turn comes
NoTurnToTheGone ==
    \A m \in Msgs :
        pc[m] = "done" /\ req[m].event = 1001 /\ req[m].intention # NoIntent =>
            \/ \E t \in told : t.from = m /\ t.by = "handler" /\ t.event \in {2002, 2004}
            \/ /\ written[m] # None
               /\ DialogOf(written[m]) = DialogOf(m)
               /\ written[m] \notin gone[m]

\* When a CloseSession call that found a session returns, that session's process is dead
\* and the session has left the map for good, however many calls close it together
CloseIsFinal ==
    \A k \in Callers :
        cpc[k] = "end" /\ target[k] # None =>
            /\ proc[target[k]] = "dead"
            /\ sessions[DialogOf(target[k])] # target[k]

\* The map does not keep the session of a dead process once waitForProcess is through, so
\* the next turn of the dialog gets a fresh process
NoDeadEntry ==
    \A s \in Msgs :
        proc[s] = "dead" /\ sessions[DialogOf(s)] = s => cpc[<<"waiter", s>>] # "end"

\* Send writes only to a connection that a reader of this session still serves: s.conn is
\* never left pointing at a connection that handleConnection has given up
ConnectionIsRead ==
    \A s \in Msgs :
        conn[s] # None => home[conn[s]] = s /\ reader[conn[s]] \in {"read", "closing"}

\* Every turn and every termination of the expert is dealt with: its handler returns
HandlersReturn == \A m \in Msgs : pc[m] = "start" ~> pc[m] = "done"

\* A process that ended, or that was killed, leaves the map
DeadSessionLeaves ==
    \A s \in Msgs : proc[s] = "dead" ~> proc[s] = "dead" /\ sessions[DialogOf(s)] # s

\* What program/Info.md line 7 says: while a process runs for a dialog, every turn of the
\* dialog goes to it, so there is never a second one
OneProcessPerDialog ==
    \A s, t \in Msgs :
        proc[s] = "running" /\ proc[t] = "running" /\ DialogOf(s) = DialogOf(t) => s = t
=============================================================================
