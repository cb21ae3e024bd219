---------------------------- MODULE Storage_proofs ----------------------------
(***************************************************************************)
(* Proofs about Storage, for any number of dialogs, keys, values, requests *)
(* and crashes, and whatever the directory holds at first.                 *)
(***************************************************************************)
EXTENDS Storage, FiniteSetTheorems, TLAPS

-----------------------------------------------------------------------------
(* The inductive invariant *)

\* The loaders of a dialog are handlers of its requests that looked it up
LoaderInv ==
    \A d \in Dialogs :
        /\ IsFiniteSet(loaders[d])
        /\ \A r \in loaders[d] : /\ pc[r] \in {"load", "insert", "serve", "done"}
                                 /\ req[r] \in Request /\ req[r].dlg = d

\* The object o is in use for the dialog: it was loaded since the start, and inserted
InUse(o, d) == o \in loaders[d] /\ pc[o] \in {"serve", "done"}

\* What the place of a handler says of its request and of the object that it works on
RequestOK(r) ==
    /\ pc[r] = "unsent" => val[r] = NewData
    /\ pc[r] \in {"start", "load", "insert", "serve"} => req[r] \in Request
    /\ pc[r] \in {"load", "insert"} => r \in loaders[req[r].dlg]
    /\ pc[r] = "serve" => dialog[r] \in Reqs /\ InUse(dialog[r], req[r].dlg)
    /\ answer[r] # NoValue => pc[r] = "done" /\ req[r] \in Request
RequestInv == \A r \in Reqs : RequestOK(r)

\* What the map, the round of periodicPersist and the write in progress lead to
EntryInv ==
    /\ \A d \in Dialogs : data[d] # None => InUse(data[d], d)
    /\ \A d \in todo : data[d] # None
    /\ writing # None => req[writing] \in Request /\ InUse(writing, req[writing].dlg)

\* Objects and files hold only what was saved under their dialog
FromDialog(f, d) == \A k \in Keys : f[k] \in saved[d][k] \cup {NoValue}
SavedInv ==
    /\ \A o \in Reqs : pc[o] # "unsent" /\ req[o] \in Request => FromDialog(val[o], req[o].dlg)
    /\ \A d \in Dialogs : file[d] \in Contents => FromDialog(file[d], d)

\* What is known of a dialog that nobody loaded yet, and of one with a single loader
LoneOK(d) ==
    /\ loaders[d] = {} => last[d] = Parsed(file[d])
    /\ \A r \in Reqs : loaders[d] = {r} =>
         /\ pc[r] = "load" => last[d] = Parsed(file[d])
         /\ pc[r] = "insert" \/ data[d] = r => val[r] = last[d]
LoneInv == \A d \in Dialogs : LoneOK(d)

\* An object that was read since the start, and whose file nobody else wrote since then,
\* remembers the MD5 of that file
Md5OK(r, d) ==
    pc[r] \in {"insert", "serve", "done"} /\ r \notin outdated /\ cacheMd5[r] # Unsaved
      => file[d] \in {cacheMd5[r], Torn}
Md5Inv == \A d \in Dialogs : \A r \in loaders[d] : Md5OK(r, d)

\* An outdated object is not the only one that was loaded for its dialog
Overtaken(r, d) == r \in loaders[d] /\ \E o \in loaders[d] : o # r
OutdatedInv == \A r \in outdated : \E d \in Dialogs : Overtaken(r, d)

IInv == /\ TypeOK /\ LoaderInv /\ RequestInv /\ EntryInv /\ SavedInv /\ LoneInv
        /\ Md5Inv /\ OutdatedInv /\ AnswersWereSaved

-----------------------------------------------------------------------------
(* Types *)

\* The parts of a request
LEMMA RequestFacts ==
    ASSUME NEW q \in Request
    PROVE  /\ q.dlg \in Dialogs /\ q.key \in Keys
           /\ q.action = "save_tool_memory" => q.value \in Values
BY DEF Request

\* What a file can hold, and what is made of it when it is read
LEMMA ContentFacts ==
    /\ NewData \in Contents
    /\ \A f \in Files : Parsed(f) \in Contents
    /\ \A f \in Contents : f # Torn /\ f # Unsaved /\ f # NoFile /\ Parsed(f) = f
    /\ Parsed(Torn) = NewData /\ Parsed(NoFile) = NewData
BY NamesAssumption DEF NewData, Contents, Parsed, Files

\* Every step keeps every type
LEMMA TypeStep ==
    ASSUME TypeOK, RequestInv, EntryInv, LoaderInv, [Next]_vars
    PROVE  TypeOK'
<1> USE DEF TypeOK, GoTo, memory, persister, history
<1>1. ASSUME NEW r \in Reqs, Receive(r) PROVE TypeOK'
  BY <1>1 DEF Receive
<1>2. ASSUME NEW r \in Reqs, Lookup(r) PROVE TypeOK'
  <2>1. req[r].dlg \in Dialogs
    BY <1>2, RequestFacts DEF Lookup, RequestInv, RequestOK
  <2>2. data[req[r].dlg] \in Reqs \cup {None} BY <2>1
  <2>3. loaders' \in [Dialogs -> SUBSET Reqs] BY <1>2, <2>1 DEF Lookup
  <2> QED BY <1>2, <2>2, <2>3 DEF Lookup
<1>3. ASSUME NEW r \in Reqs, Load(r) PROVE TypeOK'
  <2>1. req[r].dlg \in Dialogs
    BY <1>3, RequestFacts DEF Load, RequestInv, RequestOK
  <2>2. Parsed(file[req[r].dlg]) \in Contents BY <2>1, ContentFacts
  <2> QED BY <1>3, <2>2 DEF Load
<1>4. ASSUME NEW r \in Reqs, Insert(r) PROVE TypeOK'
  BY <1>4 DEF Insert
<1>5. ASSUME NEW r \in Reqs, Query(r) PROVE TypeOK'
  <2>1. req[r].key \in Keys /\ dialog[r] \in Reqs
    BY <1>5, RequestFacts DEF Query, RequestInv, RequestOK
  <2>2. val[dialog[r]][req[r].key] \in Values \cup {NoValue} BY <2>1 DEF Contents
  <2> QED BY <1>5, <2>2 DEF Query
<1>6. ASSUME NEW r \in Reqs, Save(r) PROVE TypeOK'
  <2>1. req[r].dlg \in Dialogs /\ req[r].key \in Keys /\ req[r].value \in Values
    BY <1>6, RequestFacts DEF Save, RequestInv, RequestOK
  <2>2. dialog[r] \in Reqs BY <1>6 DEF Save, RequestInv, RequestOK
  <2>3. val' \in [Reqs -> Contents]
    <3>1. [val[dialog[r]] EXCEPT ![req[r].key] = req[r].value] \in Contents
      BY <2>1, <2>2 DEF Contents
    <3> QED BY <1>6, <3>1 DEF Save
  <2>4. last' \in [Dialogs -> Contents]
    <3>1. [last[req[r].dlg] EXCEPT ![req[r].key] = req[r].value] \in Contents
      BY <2>1 DEF Contents
    <3> QED BY <1>6, <3>1 DEF Save
  <2>5. saved' \in [Dialogs -> [Keys -> SUBSET Values]] BY <1>6, <2>1 DEF Save
  <2> QED BY <1>6, <2>3, <2>4, <2>5 DEF Save
<1>14. ASSUME NEW r \in Reqs, Ignore(r) PROVE TypeOK'
  BY <1>14 DEF Ignore
<1>7. CASE Tick
  BY <1>7 DEF Tick, handlers
<1>8. ASSUME NEW d \in Dialogs, SkipFile(d) PROVE TypeOK'
  BY <1>8 DEF SkipFile, handlers
<1>9. ASSUME NEW d \in Dialogs, WriteBegin(d) PROVE TypeOK'
  BY <1>9 DEF WriteBegin, handlers, Files
<1>10. CASE WriteEnd
  <2>1. writing \in Reqs /\ req[writing].dlg \in Dialogs
    BY <1>10, RequestFacts DEF WriteEnd, EntryInv
  <2>2. loaders[req[writing].dlg] \subseteq Reqs BY <2>1
  <2>3. outdated' \subseteq Reqs BY <1>10, <2>2 DEF WriteEnd
  <2> QED BY <1>10, <2>1, <2>3 DEF WriteEnd, handlers, Files
<1>11. CASE WriteFails
  BY <1>11 DEF WriteFails, handlers
<1>12. CASE Crash
  <2>1. last' \in [Dialogs -> Contents] BY <1>12, ContentFacts DEF Crash
  <2>2. crashes' \in 0..MaxCrashes BY <1>12, CrashAssumption DEF Crash
  <2> QED BY <1>12, <2>1, <2>2 DEF Crash
<1>13. CASE UNCHANGED vars
  BY <1>13 DEF vars
<1> HIDE DEF TypeOK
<1> QED
  BY <1>1, <1>2, <1>3, <1>4, <1>5, <1>6, <1>7, <1>8, <1>9, <1>10, <1>11, <1>12, <1>13,
     <1>14
  DEF Next, Handler

-----------------------------------------------------------------------------
(* The parts of the inductive invariant *)

\* A crash is counted
LEMMA NoCrash == ASSUME TypeOK, crashes' = crashes PROVE ~Crash
<1>1. crashes \in Int BY CrashAssumption DEF TypeOK
<1> QED BY <1>1 DEF Crash

\* Until the process starts again a request stays as it was asked, its handler goes on, and
\* a dialog keeps its loaders
GoesOn(r) ==
    /\ pc[r] # "unsent" => pc'[r] # "unsent" /\ req'[r] = req[r]
    /\ pc[r] \in {"serve", "done"} => pc'[r] \in {"serve", "done"}
    /\ pc[r] \in {"load", "insert"} => pc'[r] \in {"load", "insert", "serve"}
    /\ pc[r] = "done" => pc'[r] = "done"

\* A handler goes on while the process runs
LEMMA Onwards ==
    ASSUME TypeOK, RequestInv, [Next]_vars, ~Crash, NEW n \in Reqs
    PROVE  GoesOn(n)
<1> USE DEF TypeOK, GoTo, GoesOn
<1>1. ASSUME NEW r \in Reqs, Receive(r) PROVE GoesOn(n)
  BY <1>1 DEF Receive
<1>2. ASSUME NEW r \in Reqs, Lookup(r) PROVE GoesOn(n)
  BY <1>2 DEF Lookup
<1>3. ASSUME NEW r \in Reqs, Load(r) \/ Insert(r) PROVE GoesOn(n)
  BY <1>3 DEF Load, Insert
<1>4. ASSUME NEW r \in Reqs, Query(r) \/ Save(r) \/ Ignore(r) PROVE GoesOn(n)
  BY <1>4 DEF Query, Ignore, Save
<1>5. ASSUME UNCHANGED handlers PROVE GoesOn(n)
  BY <1>5 DEF handlers
<1>6. CASE Tick \/ WriteEnd \/ WriteFails
  BY <1>5, <1>6 DEF Tick, WriteEnd, WriteFails
<1>7. ASSUME NEW d \in Dialogs, SkipFile(d) \/ WriteBegin(d) PROVE GoesOn(n)
  BY <1>5, <1>7 DEF SkipFile, WriteBegin
<1>8. CASE UNCHANGED vars
  BY <1>8 DEF vars
<1> HIDE DEF GoesOn
<1> QED BY <1>1, <1>2, <1>3, <1>4, <1>6, <1>7, <1>8 DEF Next, Handler

\* A dialog keeps its loaders while the process runs
LEMMA LoadersGrow ==
    ASSUME TypeOK, RequestInv, [Next]_vars, ~Crash, NEW d \in Dialogs
    PROVE  loaders[d] \subseteq loaders'[d]
<1>1. ASSUME NEW r \in Reqs, Lookup(r) PROVE loaders[d] \subseteq loaders'[d]
  BY <1>1 DEF Lookup, TypeOK
<1>2. ASSUME NEW r \in Reqs, Receive(r) \/ Load(r) \/ Insert(r) \/ Query(r) \/ Save(r) \/ Ignore(r)
      PROVE  UNCHANGED loaders
  BY <1>2 DEF Receive, Load, Insert, Query, Ignore, Save, history
<1>3. CASE Tick \/ WriteEnd \/ WriteFails
  BY <1>3 DEF Tick, WriteEnd, WriteFails, history
<1>4. ASSUME NEW e \in Dialogs, SkipFile(e) \/ WriteBegin(e) PROVE UNCHANGED loaders
  BY <1>4 DEF SkipFile, WriteBegin, history
<1>5. CASE UNCHANGED vars
  BY <1>5 DEF vars
<1> QED BY <1>1, <1>2, <1>3, <1>4, <1>5 DEF Next, Handler

\* The loaders of a dialog are requests about it that are on their way
LEMMA LoaderStep ==
    ASSUME TypeOK, RequestInv, LoaderInv, [Next]_vars
    PROVE  LoaderInv'
<1>1. CASE Crash
  <2>1. \A d \in Dialogs : loaders'[d] = {} BY <1>1 DEF Crash
  <2> QED BY <2>1, FS_EmptySet DEF LoaderInv
<1>2. CASE ~Crash
  <2>1. ASSUME NEW d \in Dialogs, NEW r \in loaders[d]
        PROVE  /\ pc'[r] \in {"load", "insert", "serve", "done"}
               /\ req'[r] \in Request /\ req'[r].dlg = d
    <3>1. r \in Reqs BY DEF TypeOK
    <3>2. GoesOn(r) BY <1>2, <3>1, Onwards
    <3> QED BY <3>2 DEF LoaderInv, GoesOn
  <2>2. ASSUME NEW d \in Dialogs, loaders'[d] # loaders[d]
        PROVE  \E r \in Reqs : /\ loaders'[d] = loaders[d] \cup {r}
                               /\ pc'[r] = "load"
                               /\ req'[r] \in Request /\ req'[r].dlg = d
    <3>1. ASSUME NEW r \in Reqs, Lookup(r)
          PROVE  \E q \in Reqs : /\ loaders'[d] = loaders[d] \cup {q}
                                 /\ pc'[q] = "load"
                                 /\ req'[q] \in Request /\ req'[q].dlg = d
      <4>1. /\ req' = req /\ req[r] \in Request
            /\ req[r].dlg = d /\ data[d] = None
            /\ loaders'[d] = loaders[d] \cup {r}
        BY <2>2, <3>1 DEF Lookup, TypeOK, RequestInv, RequestOK
      <4>2. pc'[r] = "load" BY <3>1, <4>1 DEF Lookup, GoTo, TypeOK
      <4> QED BY <4>1, <4>2
    <3>2. ASSUME NEW r \in Reqs, Receive(r) \/ Load(r) \/ Insert(r) \/ Query(r) \/ Save(r) \/ Ignore(r)
          PROVE  UNCHANGED loaders
      BY <3>2 DEF Receive, Load, Insert, Query, Ignore, Save, history
    <3>3. CASE Tick \/ WriteEnd \/ WriteFails
      BY <2>2, <3>3 DEF Tick, WriteEnd, WriteFails, history
    <3>4. ASSUME NEW e \in Dialogs, SkipFile(e) \/ WriteBegin(e) PROVE UNCHANGED loaders
      BY <3>4 DEF SkipFile, WriteBegin, history
    <3>5. CASE UNCHANGED vars
      BY <2>2, <3>5 DEF vars
    <3> QED BY <1>2, <2>2, <3>1, <3>2, <3>3, <3>4, <3>5 DEF Next, Handler
  <2>3. ASSUME NEW d \in Dialogs
        PROVE  /\ IsFiniteSet(loaders'[d])
               /\ \A r \in loaders'[d] : /\ pc'[r] \in {"load", "insert", "serve", "done"}
                                         /\ req'[r] \in Request /\ req'[r].dlg = d
    <3>1. CASE loaders'[d] = loaders[d]
      BY <2>1, <3>1 DEF LoaderInv
    <3>2. CASE loaders'[d] # loaders[d]
      <4>1. PICK q \in Reqs : /\ loaders'[d] = loaders[d] \cup {q}
                              /\ pc'[q] = "load"
                              /\ req'[q] \in Request /\ req'[q].dlg = d
        BY <2>2, <3>2
      <4>2. IsFiniteSet(loaders'[d]) BY <4>1, FS_AddElement DEF LoaderInv
      <4> QED BY <2>1, <4>1, <4>2
    <3> QED BY <3>1, <3>2
  <2> QED BY <2>3 DEF LoaderInv
<1> QED BY <1>1, <1>2

\* An object in use stays in use until the process starts again
LEMMA StaysInUse ==
    ASSUME TypeOK, LoaderInv, RequestInv, [Next]_vars, ~Crash, NEW d \in Dialogs, NEW o,
           InUse(o, d)
    PROVE  /\ o \in Reqs /\ req[o] \in Request /\ req[o].dlg = d /\ pc[o] # "unsent"
           /\ req'[o] = req[o]
           /\ o \in loaders'[d] /\ pc'[o] \in {"serve", "done"}
<1>1. /\ o \in Reqs /\ req[o] \in Request /\ req[o].dlg = d
      /\ pc[o] \in {"serve", "done"} /\ o \in loaders[d]
  BY DEF InUse, LoaderInv, TypeOK
<1>2. GoesOn(o) BY <1>1, Onwards
<1> QED BY <1>1, <1>2, LoadersGrow DEF GoesOn

\* Every step keeps what is known of a request: its object and what it is answered
LEMMA RequestStep ==
    ASSUME TypeOK, LoaderInv, RequestInv, EntryInv, [Next]_vars
    PROVE  RequestInv'
<1> SUFFICES ASSUME NEW n \in Reqs PROVE RequestOK(n)'
  BY DEF RequestInv
<1>0. RequestOK(n) BY DEF RequestInv
<1> USE DEF TypeOK, GoTo
<1>1. CASE Crash
  <2>1. pc'[n] \in {"unsent", "done"} /\ (pc'[n] = "unsent" => pc[n] = "unsent")
        /\ UNCHANGED <<req, dialog, answer, val>>
    BY <1>1 DEF Crash
  <2>2. answer[n] # NoValue => pc'[n] = "done"
    BY <1>0, <1>1 DEF Crash, RequestOK
  <2> QED BY <1>0, <2>1, <2>2 DEF RequestOK
\* What a handler knows stays true while it rests
<1>2. ASSUME ~Crash, pc'[n] = pc[n], dialog'[n] = dialog[n], answer'[n] = answer[n],
             pc[n] = "unsent" => val'[n] = val[n]
      PROVE  RequestOK(n)'
  <2>1. GoesOn(n) BY <1>2, Onwards
  <2>2. req[n] \in Request => req[n].dlg \in Dialogs BY RequestFacts
  <2>3. pc[n] # "unsent" => req'[n] = req[n] BY <2>1 DEF GoesOn
  <2>4. pc[n] \in {"load", "insert"} => n \in loaders'[req[n].dlg]
    BY <1>0, <1>2, <2>2, LoadersGrow DEF RequestOK
  <2>5. pc[n] = "serve" => /\ dialog[n] \in loaders'[req[n].dlg]
                           /\ pc'[dialog[n]] \in {"serve", "done"}
    BY <1>0, <1>2, <2>2, StaysInUse DEF RequestOK
  <2>6. pc[n] = "unsent" => answer[n] = NoValue BY <1>0 DEF RequestOK
  <2> QED BY <1>0, <1>2, <2>3, <2>4, <2>5, <2>6 DEF RequestOK, InUse
<1>3. ASSUME NEW r \in Reqs, Receive(r) \/ Handler(r), r # n PROVE RequestOK(n)'
  <2>1. /\ pc'[n] = pc[n] /\ dialog'[n] = dialog[n] /\ answer'[n] = answer[n]
    BY <1>3 DEF Receive, Handler, Lookup, Load, Insert, Query, Ignore, Save
  <2>2. crashes' = crashes
    BY <1>3 DEF Receive, Handler, Lookup, Load, Insert, Query, Ignore, Save, persister
  <2>3. pc[n] = "unsent" => val'[n] = val[n]
    <3>1. CASE Receive(r) \/ Lookup(r) \/ Insert(r) \/ Query(r) \/ Ignore(r)
      BY <3>1 DEF Receive, Lookup, Insert, Query, Ignore, memory
    <3>2. CASE Load(r)
      BY <1>3, <3>2 DEF Load
    <3>3. CASE Save(r)
      <4>1. pc[dialog[r]] \in {"serve", "done"}
        BY <3>3 DEF Save, RequestInv, RequestOK, InUse
      <4> QED BY <3>3, <4>1 DEF Save
    <3> QED BY <1>3, <3>1, <3>2, <3>3 DEF Handler
  <2> QED BY <2>1, <2>2, <2>3, <1>2, NoCrash
<1>4. CASE Receive(n)
  <2>1. /\ pc[n] = "unsent" /\ pc'[n] \in {"start", "refused"}
        /\ pc'[n] = "start" => req'[n] \in Request
        /\ answer'[n] = NoValue
    BY <1>0, <1>4 DEF Receive, RequestOK
  <2> QED BY <2>1 DEF RequestOK
<1>5. CASE Lookup(n)
  <2> DEFINE o == data[req[n].dlg]
  <2>1. /\ pc[n] = "start" /\ req[n] \in Request /\ req[n].dlg \in Dialogs
        /\ req' = req /\ answer'[n] = NoValue /\ dialog'[n] = o
    BY <1>0, <1>5, RequestFacts DEF Lookup, RequestOK
  <2>2. CASE o = None
    <3>1. pc'[n] = "load" /\ n \in loaders'[req[n].dlg]
      BY <1>5, <2>1, <2>2 DEF Lookup
    <3> QED BY <2>1, <3>1 DEF RequestOK
  <2>3. CASE o # None
    <3>1. InUse(o, req[n].dlg) BY <2>1, <2>3 DEF EntryInv
    <3>2. crashes' = crashes BY <1>5 DEF Lookup, persister
    <3>3. /\ o \in Reqs /\ o \in loaders'[req[n].dlg] /\ pc'[o] \in {"serve", "done"}
      BY <2>1, <3>1, <3>2, StaysInUse, NoCrash
    <3>4. pc'[n] = "serve" BY <1>5, <2>3 DEF Lookup
    <3> HIDE DEF o
    <3> QED BY <2>1, <3>3, <3>4 DEF RequestOK, InUse
  <2> QED BY <2>2, <2>3
<1>6. CASE Load(n)
  <2>1. /\ pc[n] = "load" /\ pc'[n] = "insert"
        /\ UNCHANGED <<req, loaders, answer>>
    BY <1>6 DEF Load, history
  <2> QED BY <1>0, <2>1 DEF RequestOK
<1>7. CASE Insert(n)
  <2>1. /\ pc[n] = "insert" /\ pc'[n] = "serve" /\ dialog'[n] = n
        /\ UNCHANGED <<req, loaders, answer>>
    BY <1>7 DEF Insert, history
  <2> QED BY <1>0, <2>1 DEF RequestOK, InUse
<1>8. CASE Query(n) \/ Save(n) \/ Ignore(n)
  <2>1. pc[n] = "serve" /\ pc'[n] = "done" /\ UNCHANGED req
    BY <1>8 DEF Query, Ignore, Save
  <2> QED BY <1>0, <2>1 DEF RequestOK
<1>9. CASE Tick \/ WriteEnd \/ WriteFails
  <2>1. UNCHANGED <<pc, dialog, answer, val, crashes>>
    BY <1>9 DEF Tick, WriteEnd, WriteFails, handlers, memory
  <2> QED BY <2>1, <1>2, NoCrash
<1>10. ASSUME NEW d \in Dialogs, SkipFile(d) \/ WriteBegin(d) PROVE RequestOK(n)'
  <2>1. UNCHANGED <<pc, dialog, answer, val, crashes>>
    BY <1>10 DEF SkipFile, WriteBegin, handlers, memory
  <2> QED BY <2>1, <1>2, NoCrash
<1>11. CASE UNCHANGED vars
  <2>1. UNCHANGED <<pc, dialog, answer, val, crashes>> BY <1>11 DEF vars
  <2> QED BY <2>1, <1>2, NoCrash
<1> HIDE DEF TypeOK
<1> QED
  BY <1>1, <1>3, <1>4, <1>5, <1>6, <1>7, <1>8, <1>9, <1>10, <1>11 DEF Next, Handler

\* The map leads to objects of loaders of the dialog
LEMMA EntryStep ==
    ASSUME TypeOK, LoaderInv, RequestInv, EntryInv, [Next]_vars
    PROVE  EntryInv'
<1> USE DEF TypeOK
<1>1. CASE Crash
  BY <1>1 DEF Crash, EntryInv
\* What led to an object in use still does
<1>2. ASSUME crashes' = crashes,
             \A d \in Dialogs :
                \/ data'[d] = data[d]
                \/ /\ data'[d] # None
                   /\ data'[d] \in loaders'[d] /\ pc'[data'[d]] \in {"serve", "done"},
             todo' \subseteq {d \in Dialogs : data[d] # None},
             writing' \in {writing, None} \/ \E d \in todo : writing' = data[d]
      PROVE  EntryInv'
  <2>1. ASSUME NEW d \in Dialogs, data'[d] # None PROVE InUse(data[d], d)'
    <3>1. CASE data'[d] = data[d]
      <4>1. InUse(data[d], d) BY <2>1, <3>1 DEF EntryInv
      <4> QED BY <1>2, <3>1, <4>1, StaysInUse, NoCrash DEF InUse
    <3> QED BY <1>2, <2>1, <3>1 DEF InUse
  <2>2. ASSUME NEW d \in todo' PROVE data'[d] # None
    BY <1>2, <2>2
  <2>3. ASSUME writing' # None
        PROVE  req'[writing'] \in Request /\ InUse(writing, req[writing].dlg)'
    <3>1. PICK d \in Dialogs : InUse(writing', d)
      BY <1>2, <2>3, RequestFacts DEF EntryInv
    <3>2. /\ req'[writing'] \in Request /\ req'[writing'].dlg = d
          /\ writing' \in loaders'[d] /\ pc'[writing'] \in {"serve", "done"}
      BY <1>2, <3>1, StaysInUse, NoCrash
    <3> QED BY <3>2 DEF InUse
  <2> QED BY <2>1, <2>2, <2>3 DEF EntryInv
<1>3. todo \subseteq {d \in Dialogs : data[d] # None} BY DEF EntryInv
<1>4. ASSUME NEW r \in Reqs, Insert(r) PROVE EntryInv'
  <2>1. /\ req[r].dlg \in Dialogs /\ r \in loaders[req[r].dlg]
    BY <1>4, RequestFacts DEF Insert, RequestInv, RequestOK
  <2>2. /\ data' = [data EXCEPT ![req[r].dlg] = r] /\ pc'[r] = "serve"
        /\ UNCHANGED <<loaders, todo, writing, crashes>>
    BY <1>4 DEF Insert, GoTo, history, persister
  <2>3. data'[req[r].dlg] = r /\ r # None BY <2>1, <2>2, NamesAssumption
  <2>4. ASSUME NEW d \in Dialogs, data'[d] # data[d]
        PROVE  /\ data'[d] # None
               /\ data'[d] \in loaders'[d] /\ pc'[data'[d]] \in {"serve", "done"}
    BY <2>1, <2>2, <2>3, <2>4
  <2> QED BY <2>2, <2>4, <1>2, <1>3
<1>5. ASSUME data' = data, crashes' = crashes, todo' \subseteq {d \in Dialogs : data[d] # None},
             writing' \in {writing, None} \/ \E d \in todo : writing' = data[d]
      PROVE  EntryInv'
  BY <1>5, <1>2
<1>6. ASSUME NEW r \in Reqs, Receive(r) \/ Lookup(r) \/ Load(r) \/ Query(r) \/ Save(r) \/ Ignore(r)
      PROVE  EntryInv'
  <2>1. UNCHANGED <<data, todo, writing, crashes>>
    BY <1>6 DEF Receive, Lookup, Load, Query, Ignore, Save, memory, persister
  <2> QED BY <2>1, <1>3, <1>5
<1>7. CASE Tick
  BY <1>7, <1>5 DEF Tick, memory
<1>8. ASSUME NEW d \in Dialogs, SkipFile(d) \/ WriteBegin(d) PROVE EntryInv'
  <2>1. /\ UNCHANGED <<data, crashes>> /\ todo' \subseteq todo
        /\ writing' = writing \/ (d \in todo /\ writing' = data[d])
    BY <1>8 DEF SkipFile, WriteBegin, memory
  <2> QED BY <2>1, <1>3, <1>5
<1>9. CASE WriteEnd \/ WriteFails
  BY <1>9, <1>3, <1>5 DEF WriteEnd, WriteFails, memory
<1>10. CASE UNCHANGED vars
  <2>1. UNCHANGED <<data, todo, writing, crashes>> BY <1>10 DEF vars
  <2> QED BY <2>1, <1>3, <1>5
<1> QED BY <1>1, <1>4, <1>6, <1>7, <1>8, <1>9, <1>10 DEF Next, Handler

\* What was saved under a dialog stays in its history
LEMMA SavedGrows ==
    ASSUME TypeOK, [Next]_vars, NEW d \in Dialogs, NEW k \in Keys
    PROVE  saved[d][k] \subseteq saved'[d][k]
<1>1. ASSUME NEW r \in Reqs, Save(r) PROVE saved[d][k] \subseteq saved'[d][k]
  BY <1>1 DEF Save, TypeOK
<1>2. ASSUME NEW r \in Reqs, Receive(r) \/ Lookup(r) \/ Load(r) \/ Insert(r) \/ Query(r) \/ Ignore(r)
      PROVE  UNCHANGED saved
  BY <1>2 DEF Receive, Lookup, Load, Insert, Query, Ignore, history
<1>3. CASE Tick \/ WriteEnd \/ WriteFails \/ Crash
  BY <1>3 DEF Tick, WriteEnd, WriteFails, Crash, history
<1>4. ASSUME NEW e \in Dialogs, SkipFile(e) \/ WriteBegin(e) PROVE UNCHANGED saved
  BY <1>4 DEF SkipFile, WriteBegin, history
<1>5. CASE UNCHANGED vars
  BY <1>5 DEF vars
<1> QED BY <1>1, <1>2, <1>3, <1>4, <1>5 DEF Next, Handler

\* Objects, files and what is being written hold saved values only
LEMMA SavedStep ==
    ASSUME TypeOK, LoaderInv, RequestInv, EntryInv, SavedInv, [Next]_vars
    PROVE  SavedInv'
<1> USE DEF TypeOK
<1>a. ASSUME NEW f, NEW d \in Dialogs, FromDialog(f, d)
      PROVE  \A k \in Keys : f[k] \in saved'[d][k] \cup {NoValue}
  BY <1>a, SavedGrows DEF FromDialog
\* What is as it was
<1>1. ASSUME NEW o \in Reqs, pc'[o] # "unsent", req'[o] \in Request,
             pc[o] # "unsent", req'[o] = req[o], val'[o] = val[o]
      PROVE  FromDialog(val[o], req[o].dlg)'
  <2>1. FromDialog(val[o], req[o].dlg) /\ req[o].dlg \in Dialogs
    BY <1>1, RequestFacts DEF SavedInv
  <2> QED BY <1>1, <1>a, <2>1 DEF FromDialog
<1>2. ASSUME NEW d \in Dialogs, file'[d] \in Contents, file'[d] = file[d]
      PROVE  FromDialog(file[d], d)'
  BY <1>2, <1>a DEF SavedInv, FromDialog
<1>3. ASSUME UNCHANGED <<pc, req, val>> PROVE
        \A o \in Reqs : pc'[o] # "unsent" /\ req'[o] \in Request => FromDialog(val[o], req[o].dlg)'
  BY <1>3, <1>1
<1>4. ASSUME NEW r \in Reqs, Receive(r) PROVE SavedInv'
  <2>1. ASSUME NEW o \in Reqs, pc'[o] # "unsent", req'[o] \in Request
        PROVE  FromDialog(val[o], req[o].dlg)'
    <3>1. CASE o = r
      <4>1. val'[r] = NewData
        BY <1>4 DEF Receive, memory, RequestInv, RequestOK
      <4> QED BY <3>1, <4>1 DEF FromDialog, NewData
    <3>2. CASE o # r
      BY <1>1, <1>4, <2>1, <3>2 DEF Receive, GoTo, memory
    <3> QED BY <3>1, <3>2
  <2>2. UNCHANGED file BY <1>4 DEF Receive
  <2> QED BY <2>1, <2>2, <1>2 DEF SavedInv
<1>5. ASSUME NEW r \in Reqs, Load(r) PROVE SavedInv'
  <2>1. /\ pc[r] = "load" /\ req[r] \in Request /\ req[r].dlg \in Dialogs
        /\ val' = [val EXCEPT ![r] = Parsed(file[req[r].dlg])]
        /\ UNCHANGED <<req, file>>
    BY <1>5, RequestFacts DEF Load, RequestInv, RequestOK
  <2>2. ASSUME NEW o \in Reqs, pc'[o] # "unsent", req'[o] \in Request
        PROVE  FromDialog(val[o], req[o].dlg)'
    <3>1. CASE o = r
      <4>1. FromDialog(Parsed(file[req[r].dlg]), req[r].dlg)
        BY <2>1 DEF SavedInv, FromDialog, Parsed, NewData
      <4>2. \A k \in Keys : Parsed(file[req[r].dlg])[k] \in saved'[req[r].dlg][k] \cup {NoValue}
        BY <1>a, <2>1, <4>1
      <4>3. val'[r] = Parsed(file[req[r].dlg]) BY <2>1
      <4> QED BY <2>1, <3>1, <4>2, <4>3 DEF FromDialog
    <3>2. CASE o # r
      BY <1>1, <1>5, <2>1, <2>2, <3>2 DEF Load, GoTo
    <3> QED BY <3>1, <3>2
  <2> QED BY <2>1, <2>2, <1>2 DEF SavedInv
<1>6. ASSUME NEW r \in Reqs, Save(r) PROVE SavedInv'
  <2> DEFINE d == req[r].dlg
             k == req[r].key
             v == req[r].value
  <2>1. /\ pc[r] = "serve" /\ req[r] \in Request /\ d \in Dialogs /\ k \in Keys
        /\ dialog[r] \in Reqs /\ InUse(dialog[r], d)
        /\ val' = [val EXCEPT ![dialog[r]][k] = v]
        /\ saved' = [saved EXCEPT ![d][k] = @ \cup {v}]
        /\ UNCHANGED <<req, file>>
    BY <1>6, RequestFacts DEF Save, RequestInv, RequestOK
  <2>2. v \in saved'[d][k] BY <2>1
  <2>3. ASSUME NEW o \in Reqs, pc'[o] # "unsent", req'[o] \in Request
        PROVE  FromDialog(val[o], req[o].dlg)'
    <3>1. CASE o = dialog[r]
      <4>1. /\ req[o].dlg = d /\ pc[o] # "unsent"
        BY <2>1, <3>1 DEF InUse, LoaderInv
      <4>2. FromDialog(val[o], d) BY <2>1, <2>3, <4>1 DEF SavedInv
      <4>3. \A j \in Keys : val[o][j] \in saved'[d][j] \cup {NoValue}
        BY <1>a, <2>1, <4>2
      <4>4. \A j \in Keys : val'[o][j] = IF j = k THEN v ELSE val[o][j]
        BY <2>1, <3>1 DEF Contents
      <4> HIDE DEF d, k, v
      <4>5. \A j \in Keys : val'[o][j] \in saved'[d][j] \cup {NoValue}
        BY <2>2, <4>3, <4>4
      <4>6. req'[o].dlg = d BY <2>1, <4>1
      <4> QED BY <4>5, <4>6 DEF FromDialog
    <3>2. CASE o # dialog[r]
      BY <1>1, <1>6, <2>1, <2>3, <3>2 DEF Save, GoTo
    <3> QED BY <3>1, <3>2
  <2> QED BY <2>1, <2>3, <1>2 DEF SavedInv
<1>7. ASSUME NEW r \in Reqs, Lookup(r) \/ Insert(r) \/ Query(r) \/ Ignore(r) PROVE SavedInv'
  <2>1. /\ UNCHANGED <<req, val, file>>
        /\ \A o \in Reqs : pc'[o] # "unsent" => pc[o] # "unsent"
    BY <1>7 DEF Lookup, Insert, Query, Ignore, GoTo, memory
  <2> QED BY <2>1, <1>1, <1>2 DEF SavedInv
<1>8. CASE Tick \/ WriteFails
  <2>1. UNCHANGED <<pc, req, val, file>>
    BY <1>8 DEF Tick, WriteFails, handlers, memory
  <2> QED BY <2>1, <1>2, <1>3 DEF SavedInv
<1>9. ASSUME NEW e \in Dialogs, SkipFile(e) PROVE SavedInv'
  <2>1. UNCHANGED <<pc, req, val, file>>
    BY <1>9 DEF SkipFile, handlers, memory
  <2> QED BY <2>1, <1>2, <1>3 DEF SavedInv
<1>10. ASSUME NEW e \in Dialogs, WriteBegin(e) PROVE SavedInv'
  <2>1. UNCHANGED <<pc, req, val>> /\ file' = [file EXCEPT ![e] = Torn]
    BY <1>10 DEF WriteBegin, handlers, memory
  <2>2. \A d \in Dialogs : file'[d] \in Contents => file'[d] = file[d]
    BY <2>1, ContentFacts
  <2> QED BY <2>1, <2>2, <1>2, <1>3 DEF SavedInv
<1>11. CASE WriteEnd
  <2> DEFINE d == req[writing].dlg
  <2>1. /\ UNCHANGED <<pc, req, val>>
        /\ file' = [file EXCEPT ![d] = val[writing]]
        /\ writing \in Reqs /\ req[writing] \in Request /\ d \in Dialogs
        /\ pc[writing] # "unsent"
    BY <1>11, RequestFacts DEF WriteEnd, handlers, EntryInv, InUse
  <2>2. FromDialog(val[writing], d) BY <2>1 DEF SavedInv
  <2>3. ASSUME NEW e \in Dialogs, file'[e] \in Contents PROVE FromDialog(file[e], e)'
    <3>1. CASE e = d
      <4>1. file'[e] = val[writing] BY <2>1, <3>1
      <4> QED BY <1>a, <2>1, <2>2, <3>1, <4>1 DEF FromDialog
    <3>2. CASE e # d
      BY <2>1, <2>3, <3>2, <1>2
    <3> QED BY <3>1, <3>2
  <2> QED BY <2>1, <2>3, <1>3 DEF SavedInv
<1>12. CASE Crash
  <2>1. /\ UNCHANGED <<req, val, file>>
        /\ \A o \in Reqs : pc'[o] # "unsent" => pc[o] # "unsent"
    BY <1>12 DEF Crash
  <2> QED BY <2>1, <1>1, <1>2 DEF SavedInv
<1>13. CASE UNCHANGED vars
  <2>1. UNCHANGED <<pc, req, val, file>> BY <1>13 DEF vars
  <2> QED BY <2>1, <1>2, <1>3 DEF SavedInv
<1> HIDE DEF TypeOK
<1> QED
  BY <1>4, <1>5, <1>6, <1>7, <1>8, <1>9, <1>10, <1>11, <1>12, <1>13 DEF Next, Handler

\* An answer was saved under its dialog and key
LEMMA AnswerStep ==
    ASSUME TypeOK, LoaderInv, RequestInv, SavedInv, AnswersWereSaved, [Next]_vars
    PROVE  AnswersWereSaved'
<1> SUFFICES ASSUME NEW n \in Reqs, answer'[n] # NoValue
             PROVE  answer'[n] \in saved'[req'[n].dlg][req'[n].key]
  BY DEF AnswersWereSaved
<1>1. ASSUME answer'[n] = answer[n], req'[n] = req[n]
      PROVE  answer'[n] \in saved'[req'[n].dlg][req'[n].key]
  <2>1. req[n] \in Request /\ answer[n] \in saved[req[n].dlg][req[n].key]
    BY <1>1 DEF RequestInv, RequestOK, AnswersWereSaved
  <2>2. req[n].dlg \in Dialogs /\ req[n].key \in Keys BY <2>1, RequestFacts
  <2> QED BY <1>1, <2>1, <2>2, SavedGrows
<1>2. CASE Query(n)
  <2> DEFINE d == req[n].dlg
             k == req[n].key
  <2>1. /\ req[n] \in Request /\ d \in Dialogs /\ k \in Keys
        /\ dialog[n] \in Reqs /\ InUse(dialog[n], d)
        /\ answer'[n] = val[dialog[n]][k]
        /\ UNCHANGED <<req, saved>>
    BY <1>2, RequestFacts DEF Query, RequestInv, RequestOK, TypeOK, history
  <2>2. FromDialog(val[dialog[n]], d)
    BY <2>1 DEF InUse, LoaderInv, SavedInv
  <2> QED BY <2>1, <2>2 DEF FromDialog
<1>3. ASSUME NEW r \in Reqs, Receive(r) PROVE answer'[n] = answer[n] /\ req'[n] = req[n]
  <2>1. answer[n] # NoValue BY <1>3 DEF Receive
  <2>2. r # n BY <1>3, <2>1 DEF Receive, RequestInv, RequestOK
  <2> QED BY <1>3, <2>2 DEF Receive, TypeOK
<1>4. ASSUME NEW r \in Reqs, Handler(r), ~Query(n)
      PROVE  answer'[n] = answer[n] /\ req'[n] = req[n]
  BY <1>4 DEF Handler, Lookup, Load, Insert, Query, Ignore, Save, TypeOK
<1>5. CASE Tick \/ WriteEnd \/ WriteFails \/ Crash
  BY <1>1, <1>5 DEF Tick, WriteEnd, WriteFails, Crash, handlers
<1>6. ASSUME NEW e \in Dialogs, SkipFile(e) \/ WriteBegin(e)
      PROVE  answer'[n] = answer[n] /\ req'[n] = req[n]
  BY <1>6 DEF SkipFile, WriteBegin, handlers
<1>7. CASE UNCHANGED vars
  BY <1>1, <1>7 DEF vars
<1> QED BY <1>1, <1>2, <1>3, <1>4, <1>5, <1>6, <1>7 DEF Next

\* With a single loader the object in use, the writes and the saves of a dialog are its own
LEMMA LoneStep ==
    ASSUME TypeOK, LoaderInv, RequestInv, EntryInv, LoneInv, [Next]_vars
    PROVE  LoneInv'
<1> SUFFICES ASSUME NEW d \in Dialogs PROVE LoneOK(d)'
  BY DEF LoneInv
<1>0. LoneOK(d) BY DEF LoneInv
<1> USE DEF TypeOK, GoTo
\* What is as it was
<1>1. ASSUME loaders'[d] = loaders[d], last'[d] = last[d], file'[d] = file[d],
             data'[d] = data[d],
             \A r \in Reqs : loaders[d] = {r} =>
                 /\ pc'[r] = pc[r] \/ pc'[r] \in {"serve", "done"}
                 /\ val'[r] = val[r]
      PROVE  LoneOK(d)'
  BY <1>0, <1>1 DEF LoneOK
<1>2. ASSUME UNCHANGED <<data, file, last, loaders, pc, val>> PROVE LoneOK(d)'
  BY <1>1, <1>2
\* A loader of the dialog is a handler of its requests
<1>a. ASSUME NEW r \in Reqs, loaders[d] = {r}
      PROVE  /\ pc[r] \in {"load", "insert", "serve", "done"}
             /\ req[r] \in Request /\ req[r].dlg = d
  BY <1>a DEF LoaderInv
<1>3. ASSUME NEW m \in Reqs, Receive(m) PROVE LoneOK(d)'
  <2>1. UNCHANGED <<data, file, last, loaders, val, cacheMd5>>
    BY <1>3 DEF Receive, memory, history
  <2>2. \A r \in Reqs : loaders[d] = {r} => pc'[r] = pc[r]
    BY <1>3, <1>a DEF Receive
  <2> QED BY <2>1, <2>2, <1>1
<1>4. ASSUME NEW m \in Reqs, Lookup(m) PROVE LoneOK(d)'
  <2>1. /\ pc[m] = "start" /\ req[m] \in Request /\ req[m].dlg \in Dialogs
        /\ UNCHANGED <<data, file, last, val, cacheMd5>>
    BY <1>4, RequestFacts DEF Lookup, memory, RequestInv, RequestOK
  <2>2. m \notin loaders[d] BY <2>1 DEF LoaderInv
  <2>3. CASE req[m].dlg = d /\ data[d] = None
    <3>1. loaders'[d] = loaders[d] \cup {m} /\ pc'[m] = "load"
      BY <1>4, <2>1, <2>3 DEF Lookup
    <3>2. ASSUME NEW r \in Reqs, loaders'[d] = {r}
          PROVE  r = m /\ loaders[d] = {}
      BY <2>2, <3>1, <3>2
    <3>3. loaders'[d] # {} BY <3>1
    <3>4. m # None BY NamesAssumption
    <3> QED BY <1>0, <2>1, <2>3, <3>1, <3>2, <3>3, <3>4 DEF LoneOK
  <2>4. CASE ~(req[m].dlg = d /\ data[d] = None)
    <3>1. loaders'[d] = loaders[d] BY <1>4, <2>1, <2>4 DEF Lookup
    <3>2. \A r \in Reqs : loaders[d] = {r} => pc'[r] = pc[r]
      BY <1>4, <2>2 DEF Lookup
    <3> QED BY <2>1, <3>1, <3>2, <1>1
  <2> QED BY <2>3, <2>4
<1>5. ASSUME NEW m \in Reqs, Load(m) PROVE LoneOK(d)'
  <2>1. /\ pc[m] = "load" /\ pc'[m] = "insert" /\ req[m] \in Request
        /\ m \in loaders[req[m].dlg]
        /\ val' = [val EXCEPT ![m] = Parsed(file[req[m].dlg])]
        /\ UNCHANGED <<data, file, last, loaders>>
    BY <1>5 DEF Load, history, RequestInv, RequestOK
  <2>2. CASE req[m].dlg = d
    <3>1. ASSUME NEW r \in Reqs, loaders[d] = {r}
          PROVE  pc'[r] = "insert" /\ val'[r] = last[d]
      <4>1. r = m BY <2>1, <2>2, <3>1
      <4>2. last[d] = Parsed(file[d]) BY <1>0, <2>1, <3>1, <4>1 DEF LoneOK
      <4> QED BY <2>1, <2>2, <4>1, <4>2
    <3>2. loaders[d] # {} BY <2>1, <2>2
    <3> QED BY <2>1, <3>1, <3>2 DEF LoneOK
  <2>3. CASE req[m].dlg # d
    <3>1. \A r \in Reqs : loaders[d] = {r} => r # m BY <1>a, <2>3
    <3>2. \A r \in Reqs : loaders[d] = {r} =>
             pc'[r] = pc[r] /\ val'[r] = val[r]
      BY <1>5, <2>1, <3>1 DEF Load
    <3> QED BY <2>1, <3>2, <1>1
  <2> QED BY <2>2, <2>3
<1>6. ASSUME NEW m \in Reqs, Insert(m) PROVE LoneOK(d)'
  <2>1. /\ pc[m] = "insert" /\ pc'[m] = "serve" /\ req[m] \in Request
        /\ req[m].dlg \in Dialogs /\ m \in loaders[req[m].dlg]
        /\ data' = [data EXCEPT ![req[m].dlg] = m]
        /\ UNCHANGED <<val, file, last, loaders>>
    BY <1>6, RequestFacts DEF Insert, history, RequestInv, RequestOK
  <2>2. CASE req[m].dlg = d
    <3>1. ASSUME NEW r \in Reqs, loaders[d] = {r}
          PROVE  pc'[r] = "serve" /\ val[r] = last[d]
      <4>1. r = m BY <2>1, <2>2, <3>1
      <4> QED BY <1>0, <2>1, <3>1, <4>1 DEF LoneOK
    <3>2. loaders[d] # {} BY <2>1, <2>2
    <3> QED BY <2>1, <3>1, <3>2 DEF LoneOK
  <2>3. CASE req[m].dlg # d
    <3>1. \A r \in Reqs : loaders[d] = {r} => r # m BY <1>a, <2>3
    <3>2. \A r \in Reqs : loaders[d] = {r} => pc'[r] = pc[r]
      BY <1>6, <3>1 DEF Insert
    <3>3. data'[d] = data[d] BY <2>1, <2>3
    <3> QED BY <2>1, <3>2, <3>3, <1>1
  <2> QED BY <2>2, <2>3
<1>7. ASSUME NEW m \in Reqs, Query(m) \/ Ignore(m) PROVE LoneOK(d)'
  <2>1. UNCHANGED <<data, file, last, loaders, val, cacheMd5>>
    BY <1>7 DEF Query, Ignore, memory, history
  <2>2. \A r \in Reqs : pc'[r] = pc[r] \/ pc'[r] = "done" BY <1>7 DEF Query, Ignore
  <2> QED BY <2>1, <2>2, <1>1
<1>8. ASSUME NEW m \in Reqs, Save(m) PROVE LoneOK(d)'
  <2> DEFINE o == dialog[m]
             e == req[m].dlg
             k == req[m].key
             v == req[m].value
  <2>1. /\ req[m] \in Request /\ e \in Dialogs /\ k \in Keys
        /\ o \in Reqs /\ InUse(o, e)
        /\ val' = [val EXCEPT ![o] = [val[o] EXCEPT ![k] = v]]
        /\ last' = [last EXCEPT ![e] = [last[e] EXCEPT ![k] = v]]
        /\ UNCHANGED <<data, cacheMd5, file, loaders>>
    BY <1>8, RequestFacts DEF Save, RequestInv, RequestOK
  <2>2. \A r \in Reqs : pc'[r] = pc[r] \/ pc'[r] = "done" BY <1>8 DEF Save
  <2> HIDE DEF o, e, k, v
  <2>3. CASE e = d
    <3>1. ASSUME NEW r \in Reqs, loaders[d] = {r}
          PROVE  /\ pc'[r] \in {"serve", "done"}
                 /\ data[d] = r => val'[r] = last'[d]
      <4>1. r = o /\ pc[r] \in {"serve", "done"} BY <2>1, <2>3, <3>1 DEF InUse
      <4>2. data[d] = r => val[r] = last[d] BY <1>0, <3>1 DEF LoneOK
      <4>3. /\ val'[r] = [val[r] EXCEPT ![k] = v]
            /\ last'[d] = [last[d] EXCEPT ![k] = v]
        BY <2>1, <2>3, <4>1
      <4> QED BY <2>2, <4>1, <4>2, <4>3
    <3>2. loaders[d] # {} BY <2>1, <2>3 DEF InUse
    <3> QED BY <2>1, <3>1, <3>2 DEF LoneOK
  <2>4. CASE e # d
    <3>1. req[o].dlg = e BY <2>1 DEF InUse, LoaderInv
    <3>2. \A r \in Reqs : loaders[d] = {r} => r # o BY <1>a, <2>4, <3>1
    <3>3. \A r \in Reqs : loaders[d] = {r} => val'[r] = val[r] BY <2>1, <3>2
    <3>4. last'[d] = last[d] BY <2>1, <2>4
    <3> QED BY <2>1, <2>2, <3>3, <3>4, <1>1
  <2> QED BY <2>3, <2>4
<1>9. CASE Tick \/ WriteFails
  BY <1>9, <1>2 DEF Tick, WriteFails, handlers, memory, history
<1>10. ASSUME NEW e \in Dialogs, SkipFile(e) PROVE LoneOK(d)'
  BY <1>10, <1>2 DEF SkipFile, handlers, memory, history
<1>11. ASSUME NEW e \in Dialogs, WriteBegin(e) PROVE LoneOK(d)'
  <2>1. /\ UNCHANGED <<data, last, loaders, pc, val, cacheMd5>>
        /\ file' = [file EXCEPT ![e] = Torn]
        /\ InUse(data[e], e)
    BY <1>11 DEF WriteBegin, handlers, memory, history, EntryInv
  <2>2. CASE e = d
    <3>1. \A r \in Reqs : loaders[d] = {r} => pc[r] \in {"serve", "done"}
      BY <2>1, <2>2 DEF InUse
    <3>2. loaders[d] # {} /\ file'[d] = Torn BY <2>1, <2>2 DEF InUse
    <3> QED BY <1>0, <2>1, <3>1, <3>2 DEF LoneOK
  <2>3. CASE e # d
    BY <2>1, <2>3, <1>1
  <2> QED BY <2>2, <2>3
<1>12. CASE WriteEnd
  <2> DEFINE o == writing
             e == req[writing].dlg
  <2>1. /\ o \in Reqs /\ InUse(o, e) /\ req[o] \in Request /\ e \in Dialogs
        /\ file' = [file EXCEPT ![e] = val[o]]
        /\ UNCHANGED <<data, last, loaders, pc, val>>
    BY <1>12, RequestFacts DEF WriteEnd, handlers, history, EntryInv
  <2> HIDE DEF o, e
  <2>2. CASE e = d
    <3>1. ASSUME NEW r \in Reqs, loaders[d] = {r}
          PROVE  pc[r] \in {"serve", "done"}
      BY <2>1, <2>2, <3>1 DEF InUse
    <3>2. loaders[d] # {} BY <2>1, <2>2 DEF InUse
    <3> QED BY <1>0, <2>1, <3>1, <3>2 DEF LoneOK
  <2>3. CASE e # d
    <3>1. req[o].dlg = e BY <2>1 DEF InUse, LoaderInv
    <3>2. \A r \in Reqs : loaders[d] = {r} => r # o BY <1>a, <2>3, <3>1
    <3> QED BY <2>1, <2>3, <3>2, <1>1
  <2> QED BY <2>2, <2>3
<1>13. CASE Crash
  <2>1. loaders'[d] = {} /\ last'[d] = Parsed(file'[d])
    BY <1>13 DEF Crash
  <2> QED BY <2>1 DEF LoneOK
<1>14. CASE UNCHANGED vars
  BY <1>14, <1>2 DEF vars
<1> HIDE DEF TypeOK, GoTo
<1> QED
  BY <1>3, <1>4, <1>5, <1>6, <1>7, <1>8, <1>9, <1>10, <1>11, <1>12, <1>13, <1>14
  DEF Next, Handler

\* Only the end of a write makes objects outdated: all of the dialog but the one written
LEMMA OutdatedStep ==
    ASSUME TypeOK, LoaderInv, RequestInv, EntryInv, OutdatedInv, [Next]_vars
    PROVE  OutdatedInv'
<1>1. CASE Crash
  BY <1>1 DEF Crash, OutdatedInv
<1>2. CASE ~Crash
  <2>1. ASSUME NEW r \in outdated' \cap outdated
        PROVE  \E d \in Dialogs : Overtaken(r, d)'
    BY <1>2, <2>1, LoadersGrow DEF OutdatedInv, Overtaken
  <2>2. ASSUME NEW r \in outdated', r \notin outdated
        PROVE  \E d \in Dialogs : Overtaken(r, d)'
    <3>1. CASE WriteEnd
      <4>1. PICK e \in Dialogs : e = req[writing].dlg /\ writing \in loaders[e]
        BY <3>1, RequestFacts DEF WriteEnd, EntryInv, InUse
      <4>2. loaders' = loaders BY <3>1 DEF WriteEnd
      <4>3. r \in loaders[e] /\ r # writing BY <2>2, <3>1, <4>1 DEF WriteEnd
      <4>4. Overtaken(r, e)' BY <4>1, <4>2, <4>3 DEF Overtaken
      <4> QED BY <4>1, <4>4
    <3>2. CASE ~WriteEnd
      <4>1. ASSUME NEW m \in Reqs,
                   Receive(m) \/ Lookup(m) \/ Load(m) \/ Insert(m) \/ Query(m) \/ Save(m)
                     \/ Ignore(m)
            PROVE  outdated' \subseteq outdated
        BY <4>1 DEF Receive, Lookup, Load, Insert, Query, Save, Ignore, history
      <4>2. CASE Tick \/ WriteFails
        BY <4>2, <2>2 DEF Tick, WriteFails, history
      <4>3. ASSUME NEW e \in Dialogs, SkipFile(e) \/ WriteBegin(e)
            PROVE  outdated' \subseteq outdated
        BY <4>3 DEF SkipFile, WriteBegin, history
      <4>4. CASE UNCHANGED vars
        BY <4>4, <2>2 DEF vars
      <4> QED BY <1>2, <2>2, <3>2, <4>1, <4>2, <4>3, <4>4 DEF Next, Handler
    <3> QED BY <3>1, <3>2
  <2> QED BY <2>1, <2>2 DEF OutdatedInv
<1> QED BY <1>1, <1>2

\* A file is written by an object of its dialog, and that makes the others outdated
LEMMA Md5Step ==
    ASSUME TypeOK, LoaderInv, RequestInv, EntryInv, Md5Inv, [Next]_vars
    PROVE  Md5Inv'
<1> USE DEF TypeOK, GoTo
<1> SUFFICES ASSUME NEW d \in Dialogs, NEW r \in loaders'[d] PROVE Md5OK(r, d)'
  BY DEF Md5Inv
\* What is as it was
<1>1. ASSUME r \in loaders[d], pc'[r] = pc[r] \/ pc[r] \in {"insert", "serve", "done"},
             outdated \subseteq outdated', cacheMd5'[r] = cacheMd5[r],
             file'[d] \in {file[d], Torn}
      PROVE  Md5OK(r, d)'
  BY <1>1 DEF Md5Inv, Md5OK
<1>a. r \in loaders[d] => r \in Reqs /\ req[r] \in Request /\ req[r].dlg = d
                          /\ pc[r] \in {"load", "insert", "serve", "done"}
  BY DEF LoaderInv
<1>2. ASSUME UNCHANGED <<loaders, pc, outdated, cacheMd5, file>> PROVE Md5OK(r, d)'
  BY <1>1, <1>2
<1>3. ASSUME NEW m \in Reqs, Receive(m) PROVE Md5OK(r, d)'
  <2>1. UNCHANGED <<loaders, outdated, cacheMd5, file>>
    BY <1>3 DEF Receive, memory, history
  <2>2. pc'[r] = pc[r] BY <1>3, <2>1, <1>a DEF Receive
  <2> QED BY <2>1, <2>2, <1>1
<1>4. ASSUME NEW m \in Reqs, Lookup(m) PROVE Md5OK(r, d)'
  <2>1. /\ pc[m] = "start" /\ UNCHANGED <<outdated, cacheMd5, file>>
        /\ loaders'[d] \in {loaders[d], loaders[d] \cup {m}}
        /\ loaders'[d] # loaders[d] => pc'[m] = "load"
    BY <1>4 DEF Lookup, memory
  <2>2. CASE r \in loaders[d]
    <3>1. pc'[r] = pc[r] BY <1>4, <2>1, <2>2, <1>a DEF Lookup
    <3> QED BY <2>1, <2>2, <3>1, <1>1
  <2>3. CASE r \notin loaders[d]
    BY <2>1, <2>3 DEF Md5OK
  <2> QED BY <2>2, <2>3
<1>5. ASSUME NEW m \in Reqs, Load(m) PROVE Md5OK(r, d)'
  <2>1. /\ UNCHANGED <<file, loaders>> /\ outdated' = outdated \ {m}
        /\ cacheMd5' = [cacheMd5 EXCEPT ![m] = IF file[req[m].dlg] \in Contents
                                               THEN file[req[m].dlg] ELSE Unsaved]
    BY <1>5 DEF Load
  <2>2. CASE r = m
    <3>1. cacheMd5'[r] = IF file[d] \in Contents THEN file[d] ELSE Unsaved
      BY <2>1, <2>2, <1>a
    <3> QED BY <2>1, <3>1 DEF Md5OK
  <2>3. CASE r # m
    <3>1. pc'[r] = pc[r] /\ cacheMd5'[r] = cacheMd5[r] BY <1>5, <2>1, <2>3 DEF Load
    <3> QED BY <2>1, <2>3, <3>1 DEF Md5Inv, Md5OK
  <2> QED BY <2>2, <2>3
<1>6. ASSUME NEW m \in Reqs, Insert(m) \/ Query(m) \/ Save(m) \/ Ignore(m)
      PROVE  Md5OK(r, d)'
  <2>1. UNCHANGED <<loaders, outdated, cacheMd5, file>>
    BY <1>6 DEF Insert, Query, Save, Ignore, memory, history
  <2>2. pc'[r] = pc[r] \/ pc[r] \in {"insert", "serve"}
    BY <1>6, <2>1, <1>a DEF Insert, Query, Save, Ignore
  <2> QED BY <2>1, <2>2, <1>1
<1>7. CASE Tick \/ WriteFails
  BY <1>7, <1>2 DEF Tick, WriteFails, handlers, memory, history
<1>8. ASSUME NEW e \in Dialogs, SkipFile(e) PROVE Md5OK(r, d)'
  BY <1>8, <1>2 DEF SkipFile, handlers, memory, history
<1>9. ASSUME NEW e \in Dialogs, WriteBegin(e) PROVE Md5OK(r, d)'
  <2>1. /\ UNCHANGED <<loaders, outdated, cacheMd5, pc>>
        /\ file'[d] \in {file[d], Torn}
    BY <1>9 DEF WriteBegin, handlers, memory, history
  <2> QED BY <2>1, <1>1
<1>10. CASE WriteEnd
  <2> DEFINE e == req[writing].dlg
  <2>1. /\ e \in Dialogs /\ writing \in Reqs
        /\ file' = [file EXCEPT ![e] = val[writing]]
        /\ cacheMd5' = [cacheMd5 EXCEPT ![writing] = val[writing]]
        /\ outdated' = (outdated \cup loaders[e]) \ {writing}
        /\ UNCHANGED <<loaders, pc>>
    BY <1>10, RequestFacts DEF WriteEnd, handlers, EntryInv
  <2>2. CASE r = writing
    <3>1. e = d BY <2>1, <2>2, <1>a
    <3>2. file'[d] = val[writing] /\ cacheMd5'[r] = val[writing] BY <2>1, <2>2, <3>1
    <3> QED BY <3>2 DEF Md5OK
  <2>3. CASE r # writing /\ e = d
    <3>1. r \in outdated' BY <2>1, <2>3
    <3> QED BY <3>1 DEF Md5OK
  <2>4. CASE r # writing /\ e # d
    <3>1. file'[d] = file[d] /\ cacheMd5'[r] = cacheMd5[r] BY <2>1, <2>4
    <3>2. r \notin outdated' => r \notin outdated BY <2>1, <2>4
    <3> QED BY <2>1, <3>1, <3>2 DEF Md5Inv, Md5OK
  <2> QED BY <2>2, <2>3, <2>4
<1>11. CASE Crash
  BY <1>11 DEF Crash
<1>12. CASE UNCHANGED vars
  BY <1>12, <1>2 DEF vars
<1> HIDE DEF TypeOK, GoTo
<1> QED
  BY <1>3, <1>4, <1>5, <1>6, <1>7, <1>8, <1>9, <1>10, <1>11, <1>12 DEF Next, Handler

-----------------------------------------------------------------------------
(* The theorems *)

\* The invariant holds at the start
LEMMA InitInv == Init => IInv
<1> SUFFICES ASSUME Init PROVE IInv OBVIOUS
<1>1. file \in [Dialogs -> Files] BY FilesAssumption DEF Init
<1>2. TypeOK
  <2>1. \A d \in Dialogs : Parsed(file[d]) \in Contents BY <1>1, ContentFacts
  <2>2. val \in [Reqs -> Contents] /\ last \in [Dialogs -> Contents]
    BY <2>1, ContentFacts DEF Init
  <2>3. saved \in [Dialogs -> [Keys -> SUBSET Values]]
    <3>1. \A d \in Dialogs : \A k \in Keys : {Parsed(file[d])[k]} \ {NoValue} \in SUBSET Values
      BY <2>1 DEF Contents
    <3> QED BY <3>1 DEF Init
  <2>4. crashes \in 0..MaxCrashes BY CrashAssumption DEF Init
  <2> QED BY <1>1, <2>2, <2>3, <2>4 DEF Init, TypeOK
<1>3. LoaderInv BY FS_EmptySet DEF Init, LoaderInv
<1>4. RequestInv /\ EntryInv /\ AnswersWereSaved
  BY DEF Init, RequestInv, RequestOK, EntryInv, AnswersWereSaved
<1>5. SavedInv
  <2>1. ASSUME NEW d \in Dialogs, file[d] \in Contents PROVE FromDialog(file[d], d)
    <3>1. \A k \in Keys : saved[d][k] = {file[d][k]} \ {NoValue}
      BY <2>1 DEF Init, Parsed
    <3> QED BY <3>1 DEF FromDialog
  <2> QED BY <2>1 DEF Init, SavedInv
<1>6. LoneInv BY DEF Init, LoneInv, LoneOK
<1>7. Md5Inv /\ OutdatedInv BY DEF Init, Md5Inv, OutdatedInv
<1> QED BY <1>2, <1>3, <1>4, <1>5, <1>6, <1>7 DEF IInv

\* The inductive invariant holds: it ties objects in use to the handlers that loaded them
THEOREM Invariance == Spec => []IInv
<1>1. IInv /\ [Next]_vars => IInv'
  BY TypeStep, LoaderStep, RequestStep, EntryStep, SavedStep, LoneStep, Md5Step,
     OutdatedStep, AnswerStep
  DEF IInv
<1> QED BY <1>1, InitInv, PTL DEF Spec

\* Every variable of the storage manager holds a value of its kind
THEOREM TypeCorrectness == Spec => []TypeOK
<1>1. IInv => TypeOK BY DEF IInv
<1> QED BY <1>1, Invariance, PTL

\* query_tool_memory answers only with what was saved under that dialog and that key
THEOREM AnswersFromOwnDialog == Spec => []AnswersWereSaved
<1>1. IInv => AnswersWereSaved BY DEF IInv
<1> QED BY <1>1, Invariance, PTL

\* A dialog with an object in use that nobody else loaded has that very loader only
LEMMA LoneLoader ==
    ASSUME TypeOK, LoaderInv, EntryInv, NEW d \in Dialogs, data[d] # None, Lone(d)
    PROVE  data[d] \in Reqs /\ loaders[d] = {data[d]}
<1>1. data[d] \in Reqs /\ data[d] \in loaders[d] /\ IsFiniteSet(loaders[d])
  BY DEF TypeOK, EntryInv, InUse, LoaderInv
<1>2. ASSUME NEW r \in loaders[d], r # data[d] PROVE FALSE
  <2>1. {r, data[d]} \subseteq loaders[d] BY <1>1
  <2>2. Cardinality({r, data[d]}) <= Cardinality(loaders[d])
    BY <1>1, <2>1, FS_Subset
  <2>3. IsFiniteSet({data[d]}) /\ Cardinality({data[d]}) = 1 BY FS_Singleton
  <2>4. Cardinality({data[d]} \cup {r}) = 2 BY <1>2, <2>3, FS_AddElement
  <2>5. {r, data[d]} = {data[d]} \cup {r} OBVIOUS
  <2>6. Cardinality(loaders[d]) \in Nat BY <1>1, FS_CardinalityType
  <2> QED BY <2>2, <2>4, <2>5, <2>6 DEF Lone
<1> QED BY <1>1, <1>2

\* If the first requests of a dialog do not overlap, every later one finds what was saved
\* last on top of what the file held
THEOREM SavesKept == Spec => []SavesAreKept
<1>1. ASSUME IInv, NEW d \in Dialogs, data[d] # None, Lone(d) PROVE val[data[d]] = last[d]
  BY <1>1, LoneLoader DEF IInv, LoneInv, LoneOK
<1>2. IInv => SavesAreKept BY <1>1 DEF SavesAreKept
<1> QED BY <1>2, Invariance, PTL

\* persistDialogData skips a file that holds something else than the MD5 says only if a write
\* of it failed halfway, or if another object of the dialog was written since this one was
\* read; and the latter takes two requests that loaded the dialog side by side
THEOREM Md5IsOfFile == Spec => []Md5TellsFile
<1>1. ASSUME IInv, NEW d \in Dialogs, data[d] # None
      PROVE  /\ cacheMd5[data[d]] # Unsaved =>
                  file[d] \in {cacheMd5[data[d]], Torn} \/ data[d] \in outdated
             /\ data[d] \in outdated => ~Lone(d)
  <2>1. InUse(data[d], d) BY <1>1 DEF IInv, EntryInv
  <2>2. Md5OK(data[d], d) BY <1>1, <2>1 DEF IInv, Md5Inv, InUse
  <2>3. ASSUME data[d] \in outdated, Lone(d) PROVE FALSE
    <3>1. loaders[d] = {data[d]} BY <1>1, <2>3, LoneLoader DEF IInv
    <3>2. PICK e \in Dialogs : Overtaken(data[d], e)
      BY <1>1, <2>3 DEF IInv, OutdatedInv
    <3>3. e = d BY <1>1, <2>1, <3>2 DEF IInv, LoaderInv, InUse, Overtaken
    <3> QED BY <3>1, <3>2, <3>3 DEF Overtaken
  <2> QED BY <2>1, <2>2, <2>3 DEF Md5OK, InUse
<1>2. IInv => Md5TellsFile BY <1>1 DEF Md5TellsFile
<1> QED BY <1>2, Invariance, PTL
=============================================================================
