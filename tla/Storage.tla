------------------------------- MODULE Storage -------------------------------
(***************************************************************************)
(* The key-value store of program/storage.go.  Node.js programs save and   *)
(* query values over HTTP, each request in a goroutine of its own; the     *)
(* first request of a dialog loads the dialog's file, and a periodic task  *)
(* writes what changed back.  The process may crash and start again.       *)
(*                                                                         *)
(* A request r of Reqs is also the goroutine that serves it and the name   *)
(* of the DialogData that it loads.                                        *)
(***************************************************************************)
EXTENDS Integers, FiniteSets

CONSTANTS
    Dialogs, Keys,
    Values,         \* JSON values; a null is one, which a program cannot tell from no value
    Reqs,           \* requests served in one behaviour (bounds the behaviour)
    MaxCrashes,     \* how often the process crashes (bounds the behaviour)
    FileStates,     \* what the directory may hold at first
    NoValue,        \* no such key, nil
    NoFile, Torn,   \* no file, one that os.WriteFile truncated and did not fill
    Unsaved,        \* cacheMd5 = ""
    None

Contents == [Keys -> Values \cup {NoValue}]
Files == Contents \cup {NoFile, Torn}

ASSUME NamesAssumption ==
    /\ {NoFile, Torn, Unsaved} \cap Contents = {}
    /\ NoFile # Torn
    /\ None \notin Reqs
    /\ NoValue \notin Values
ASSUME CrashAssumption == MaxCrashes \in Nat
ASSUME FilesAssumption == FileStates \subseteq [Dialogs -> Files]

VARIABLES
    req,        \* what each request asks, None until it arrives
    pc,         \* where its handler is
    dialog,     \* the handler's variable of the same name
    answer,     \* what a query was answered
    data,       \* the map s.data
    val,        \* the data of every DialogData
    cacheMd5,   \* the content that cacheMd5 was computed from
    file,       \* the file of each dialog
    todo,       \* dialogs that this round of periodicPersist still visits
    writing,    \* the DialogData that is being written to its file, and is locked
    crashes,
    saved,      \* history: every value saved under a dialog and a key
    last,       \* history: what the dialog should hold, the files' content at a start
    loaders,    \* history: the handlers that loaded a dialog since the start
    outdated    \* history: DialogData whose file another one has written since they read it

vars == <<req, pc, dialog, answer, data, val, cacheMd5, file, todo, writing, crashes,
          saved, last, loaders, outdated>>
handlers == <<req, pc, dialog, answer>>
memory == <<data, val, cacheMd5>>
persister == <<todo, writing, crashes>>
history == <<saved, last, loaders, outdated>>

Request ==
    [action : {"query_tool_memory", "other"}, dlg : Dialogs, key : Keys,
     value : {NoValue}] \cup
    [action : {"save_tool_memory"}, dlg : Dialogs, key : Keys, value : Values]

NewData == [k \in Keys |-> NoValue]
\* What a file that can be read and parsed holds
Parsed(f) == IF f \in Contents THEN f ELSE NewData

Init ==
    /\ req = [r \in Reqs |-> None]
    /\ pc = [r \in Reqs |-> "unsent"]
    /\ dialog = [r \in Reqs |-> None]
    /\ answer = [r \in Reqs |-> NoValue]
    /\ data = [d \in Dialogs |-> None]
    /\ val = [r \in Reqs |-> NewData]
    /\ cacheMd5 = [r \in Reqs |-> Unsaved]
    /\ file \in FileStates
    /\ todo = {}
    /\ writing = None
    /\ crashes = 0
    /\ saved = [d \in Dialogs |-> [k \in Keys |-> {Parsed(file[d])[k]} \ {NoValue}]]
    /\ last = [d \in Dialogs |-> Parsed(file[d])]
    /\ loaders = [d \in Dialogs |-> {}]
    /\ outdated = {}

GoTo(r, where) == pc' = [pc EXCEPT ![r] = where]

\* Nobody holds dialog.mu of the object o: only persistDialogData keeps it for long
Unlocked(o) == writing # o

-----------------------------------------------------------------------------
(* memoryHandler *)

\* A request arrives; one that cannot be decoded, or names no dialog or no key, is refused
Receive(r) ==
    /\ pc[r] = "unsent"
    /\ \/ /\ \E q \in Request : req' = [req EXCEPT ![r] = q]
          /\ GoTo(r, "start")
       \/ GoTo(r, "refused") /\ UNCHANGED req
    /\ UNCHANGED <<dialog, answer, memory, file, persister, history>>

\* getOrCreateDialogData: the entry of the map, under the read lock
Lookup(r) ==
    LET o == data[req[r].dlg] IN
    /\ pc[r] = "start"
    /\ dialog' = [dialog EXCEPT ![r] = o]
    /\ GoTo(r, IF o = None THEN "load" ELSE "serve")
    /\ loaders' = IF o = None THEN [loaders EXCEPT ![req[r].dlg] = @ \cup {r}] ELSE loaders
    /\ UNCHANGED <<req, answer, memory, file, persister, saved, last, outdated>>

\* Mutant: the file name does not depend on the dialog
LoadAnyFile(r) ==
    \E f \in {file[d] : d \in Dialogs} :
    /\ pc[r] = "load"
    /\ val' = [val EXCEPT ![r] = Parsed(f)]
    /\ cacheMd5' = [cacheMd5 EXCEPT ![r] = IF f \in Contents THEN f ELSE Unsaved]
    /\ outdated' = outdated \ {r}
    /\ GoTo(r, "insert")
    /\ UNCHANGED <<req, dialog, answer, data, file, persister, saved, last, loaders>>

\* ... or a new object with what the file holds, empty if it cannot be read or parsed
Load(r) ==
    LET f == file[req[r].dlg] IN
    /\ pc[r] = "load"
    /\ val' = [val EXCEPT ![r] = Parsed(f)]
    /\ cacheMd5' = [cacheMd5 EXCEPT ![r] = IF f \in Contents THEN f ELSE Unsaved]
    /\ outdated' = outdated \ {r}
    /\ GoTo(r, "insert")
    /\ UNCHANGED <<req, dialog, answer, data, file, persister, saved, last, loaders>>

\* ... which is put in the map under the read lock, whatever is there by now
Insert(r) ==
    /\ pc[r] = "insert"
    /\ data' = [data EXCEPT ![req[r].dlg] = r]
    /\ dialog' = [dialog EXCEPT ![r] = r]
    /\ GoTo(r, "serve")
    /\ UNCHANGED <<req, answer, val, cacheMd5, file, persister, history>>

\* Mutant: the whole map is returned in place of the value
QueryAll(r) ==
    /\ pc[r] = "serve"
    /\ req[r].action = "query_tool_memory"
    /\ Unlocked(dialog[r])
    /\ answer' = [answer EXCEPT ![r] = val[dialog[r]]]
    /\ GoTo(r, "done")
    /\ UNCHANGED <<req, dialog, memory, file, persister, history>>

\* query_tool_memory: answer with the value of the key
Query(r) ==
    /\ pc[r] = "serve"
    /\ req[r].action = "query_tool_memory"
    /\ Unlocked(dialog[r])
    /\ answer' = [answer EXCEPT ![r] = val[dialog[r]][req[r].key]]
    /\ GoTo(r, "done")
    /\ UNCHANGED <<req, dialog, memory, file, persister, history>>

\* Mutant: a key keeps its first value
SaveFirst(r) ==
    LET q == req[r] IN
    /\ pc[r] = "serve"
    /\ q.action = "save_tool_memory"
    /\ Unlocked(dialog[r])
    /\ val' = [val EXCEPT ![dialog[r]][q.key] = IF @ = NoValue THEN q.value ELSE @]
    /\ saved' = [saved EXCEPT ![q.dlg][q.key] = @ \cup {q.value}]
    /\ last' = [last EXCEPT ![q.dlg][q.key] = q.value]
    /\ GoTo(r, "done")
    /\ UNCHANGED <<req, dialog, answer, data, cacheMd5, file, persister, loaders,
                   outdated>>

\* save_tool_memory: set the value and answer 200
Save(r) ==
    LET q == req[r] IN
    /\ pc[r] = "serve"
    /\ q.action = "save_tool_memory"
    /\ Unlocked(dialog[r])
    /\ val' = [val EXCEPT ![dialog[r]][q.key] = q.value]
    /\ saved' = [saved EXCEPT ![q.dlg][q.key] = @ \cup {q.value}]
    /\ last' = [last EXCEPT ![q.dlg][q.key] = q.value]
    /\ GoTo(r, "done")
    /\ UNCHANGED <<req, dialog, answer, data, cacheMd5, file, persister, loaders,
                   outdated>>

\* Any other action: the object is there by now, nothing is done with it
Ignore(r) ==
    /\ pc[r] = "serve"
    /\ req[r].action = "other"
    /\ GoTo(r, "done")
    /\ UNCHANGED <<req, dialog, answer, memory, file, persister, history>>

-----------------------------------------------------------------------------
(* periodicPersist *)

\* The ticker: a round over the dialogs of the map
Tick ==
    /\ todo = {}
    /\ writing = None
    /\ todo' = {d \in Dialogs : data[d] # None}
    /\ UNCHANGED <<handlers, memory, file, writing, crashes, history>>

\* Mutant: the MD5 is remembered though the file did not open
SkipMarked(d) ==
    /\ d \in todo
    /\ writing = None
    /\ todo' = todo \ {d}
    /\ cacheMd5' = [cacheMd5 EXCEPT ![data[d]] = val[data[d]]]
    /\ UNCHANGED <<handlers, data, val, file, writing, crashes, history>>

\* persistDialogData: the content has the MD5 of the last save, or the file does not open
SkipFile(d) ==
    /\ d \in todo
    /\ writing = None
    /\ todo' = todo \ {d}
    /\ UNCHANGED <<handlers, memory, file, writing, crashes, history>>

\* Mutant: the comparison of the MD5 is the wrong way round
WriteUnchanged(d) ==
    /\ d \in todo
    /\ writing = None
    /\ val[data[d]] = cacheMd5[data[d]]
    /\ writing' = data[d]
    /\ todo' = todo \ {d}
    /\ file' = [file EXCEPT ![d] = Torn]
    /\ UNCHANGED <<handlers, memory, crashes, history>>

\* persistDialogData: lock the object; os.WriteFile truncates the file
WriteBegin(d) ==
    /\ d \in todo
    /\ writing = None
    /\ val[data[d]] # cacheMd5[data[d]]
    /\ writing' = data[d]
    /\ todo' = todo \ {d}
    /\ file' = [file EXCEPT ![d] = Torn]
    /\ UNCHANGED <<handlers, memory, crashes, history>>

\* ... and writes the content
WriteEnd ==
    /\ writing # None
    /\ file' = [file EXCEPT ![req[writing].dlg] = val[writing]]
    /\ cacheMd5' = [cacheMd5 EXCEPT ![writing] = val[writing]]
    /\ writing' = None
    /\ outdated' = (outdated \cup loaders[req[writing].dlg]) \ {writing}
    /\ UNCHANGED <<handlers, data, val, todo, crashes, saved, last, loaders>>

\* ... or fails to, and cacheMd5 stays
WriteFails ==
    /\ writing # None
    /\ writing' = None
    /\ UNCHANGED <<handlers, memory, file, todo, crashes, history>>

-----------------------------------------------------------------------------
(* The whole *)

\* The process ends, killed or by "concurrent map writes" (Insert writes the map under the
\* read lock, and the rounds of periodicPersist read it without any), and starts again
Crash ==
    /\ crashes < MaxCrashes
    /\ crashes' = crashes + 1
    /\ pc' = [r \in Reqs |-> IF pc[r] = "unsent" THEN "unsent" ELSE "done"]
    /\ data' = [d \in Dialogs |-> None]
    /\ todo' = {}
    /\ writing' = None
    /\ last' = [d \in Dialogs |-> Parsed(file[d])]
    /\ loaders' = [d \in Dialogs |-> {}]
    /\ outdated' = {}
    /\ UNCHANGED <<req, dialog, answer, val, cacheMd5, file, saved>>

Handler(r) == Lookup(r) \/ Load(r) \/ Insert(r) \/ Query(r) \/ Save(r) \/ Ignore(r)

Next ==
    \/ \E r \in Reqs : Receive(r) \/ Handler(r)
    \/ \E d \in Dialogs : SkipFile(d) \/ WriteBegin(d)
    \/ Tick \/ WriteEnd \/ WriteFails \/ Crash

Spec == Init /\ [][Next]_vars

\* The ticker ticks, and a file that is tried again and again is written at last
FairSpec ==
    /\ Spec
    /\ WF_vars(Tick)
    /\ \A d \in Dialogs : WF_vars(SkipFile(d)) /\ SF_vars(WriteBegin(d))
    /\ WF_vars(WriteEnd \/ WriteFails) /\ SF_vars(WriteEnd)

-----------------------------------------------------------------------------
(* Properties *)

\* Every variable holds a value of its kind: the state of StorageManager, of its requests
\* and of its directory
TypeOK ==
    /\ req \in [Reqs -> Request \cup {None}]
    /\ pc \in [Reqs -> {"unsent", "refused", "start", "load", "insert", "serve", "done"}]
    /\ dialog \in [Reqs -> Reqs \cup {None}]
    /\ answer \in [Reqs -> Values \cup {NoValue}]
    /\ data \in [Dialogs -> Reqs \cup {None}]
    /\ val \in [Reqs -> Contents]
    /\ cacheMd5 \in [Reqs -> Contents \cup {Unsaved}]
    /\ file \in [Dialogs -> Files]
    /\ todo \subseteq Dialogs
    /\ writing \in Reqs \cup {None}
    /\ crashes \in 0..MaxCrashes
    /\ saved \in [Dialogs -> [Keys -> SUBSET Values]]
    /\ last \in [Dialogs -> Contents]
    /\ loaders \in [Dialogs -> SUBSET Reqs]
    /\ outdated \subseteq Reqs

\* A program is only ever told what was saved under its own dialog and key, through
\* concurrent first requests, torn files and restarts (program/Info.md: each dialog has
\* a file of its own)
AnswersWereSaved ==
    \A r \in Reqs : answer[r] # NoValue => answer[r] \in saved[req[r].dlg][req[r].key]

\* No two handlers loaded the dialog since the process started
Lone(d) == Cardinality(loaders[d]) <= 1

\* A dialog whose first requests did not overlap remembers exactly what was saved last, on
\* top of what its file held when the process started: neither later requests nor a save
\* of the file lose anything
SavesAreKept == \A d \in Dialogs : data[d] # None /\ Lone(d) => val[data[d]] = last[d]

\* The MD5 that lets persistDialogData skip a file is that of what the file holds, with two
\* exceptions: a write of the file that failed halfway, and an object that was read before
\* another object of the same dialog was written.  Such an object is only ever in the map if
\* first requests of the dialog overlapped: it was read beside the one that was written, and
\* put over it.  Its MD5 is then stale, and what it is to save may be skipped
Md5TellsFile ==
    \A d \in Dialogs : data[d] # None =>
        /\ cacheMd5[data[d]] # Unsaved =>
             file[d] \in {cacheMd5[data[d]], Torn} \/ data[d] \in outdated
        /\ data[d] \in outdated => ~Lone(d)

\* What differs from the last save is saved in the end, even if writing fails before, unless
\* the process crashes or an overlapping first request takes the entry away
UnsavedIsPersisted ==
    \A d \in Dialogs : \A r \in Reqs :
        data[d] = r /\ val[r] # cacheMd5[r] ~> data[d] # r \/ val[r] = cacheMd5[r]
=============================================================================
