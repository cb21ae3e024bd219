----------------------------- MODULE DialogFile -----------------------------
(***************************************************************************)
(* The dispatcher together with its dialog file: periodicSave marshals     *)
(* t.dialogs under dialogsMutex, but without the mutexes of the entries,   *)
(* field by field while handlers work on them; the file is written when    *)
(* its MD5 differs from that of the last save, and os.WriteFile first      *)
(* truncates it.  A process that ends, at any moment, is started again and *)
(* loads what the file holds.                                              *)
(***************************************************************************)
EXTENDS Expert

CONSTANT MaxFaults  \* restarts and writes that fail (bounds the behaviour)

ASSUME FaultAssumption == MaxFaults \in Nat
\* nil is no entry
ASSUME NilAssumption == Nil \notin DialogInfo

\* The fields of a DialogInfo that change, in the order in which they are marshalled
Fields == <<"program", "mutil", "firstMutil", "chatHistory">>
Infos == [Dialogs -> DialogInfo \cup {Nil}]

VARIABLES
    file,                    \* what is on disk: nothing, a beginning, or dialogs
    lastSavedDialogInfoMd5,  \* the dialogs whose MD5 it is, Nil for the empty string
    saver,                   \* periodicSave's goroutine
    overlapped,              \* history: some save ran while a handler held a dialog
    lost,                    \* history: a crash or a failure left a beginning of a file
    saved,                   \* history: dialogs that a complete file held
    faults

disk == <<file, lastSavedDialogInfoMd5, saver>>
history == <<overlapped, lost, saved, faults>>
allVars == <<vars, disk, history>>

Idle == [pc |-> "idle", read |-> [d \in Dialogs |-> 0], data |-> [d \in Dialogs |-> Nil]]
File(kind, data) == [kind |-> kind, data |-> data]
NoFile == File("none", Idle.data)

\* What a complete marshalling of t.dialogs would say
Memory == [d \in Dialogs |-> IF dialogs[d] = Nil THEN Nil ELSE info[dialogs[d]]]
Held(data) == {d \in Dialogs : data[d] # Nil}

FileInit ==
    /\ Init
    /\ file = IF Held(Memory) = {} THEN NoFile ELSE File("whole", Memory)
    /\ lastSavedDialogInfoMd5 = IF Held(Memory) = {} THEN Nil ELSE Memory
    /\ saver = Idle
    /\ overlapped = FALSE
    /\ lost = FALSE
    /\ saved = Held(Memory)
    /\ faults = 0

-----------------------------------------------------------------------------
(* saveDialogInfo *)

Marshalling == saver.pc = "marshal"
SomeoneWorks == \E d \in Dialogs : dialogs[d] # Nil /\ lock[dialogs[d]] # Nobody

\* Mutant: mutil keeps the value that it has in the file
StaleField(d, f) ==
    IF f = "mutil" /\ file.kind = "whole" /\ file.data[d] # Nil
    THEN file.data[d][f] ELSE info[dialogs[d]][f]

\* The value of a field, read without the entry's mutex
FieldNow(d, f) == info[dialogs[d]][f]

\* The ticker of periodicSave fires; dialogsMutex is taken
SaveBegin ==
    /\ saver.pc = "idle"
    /\ mapWriter = Nobody
    /\ saver' = [Idle EXCEPT !.pc = "marshal"]
    /\ overlapped' = (overlapped \/ SomeoneWorks)
    /\ UNCHANGED <<vars, file, lastSavedDialogInfoMd5, lost, saved, faults>>

\* json.MarshalIndent reads the next field of a dialog
MarshalField(d) ==
    /\ Marshalling
    /\ dialogs[d] # Nil /\ saver.read[d] < Len(Fields)
    /\ LET f == Fields[saver.read[d] + 1]
           sofar == IF saver.data[d] = Nil THEN NewInfo ELSE saver.data[d]
       IN  saver' = [saver EXCEPT !.read[d] = @ + 1,
                                  !.data[d] = [sofar EXCEPT ![f] = FieldNow(d, f)]]
    /\ UNCHANGED <<vars, file, lastSavedDialogInfoMd5, history>>

\* Mutant: only the names of the dialogs are compared
CompareLoosely ==
    /\ Marshalling
    /\ \A d \in Held(Memory) : saver.read[d] = Len(Fields)
    /\ saver' = IF lastSavedDialogInfoMd5 # Nil /\ Held(saver.data) = Held(lastSavedDialogInfoMd5)
                THEN Idle ELSE [saver EXCEPT !.pc = "open"]
    /\ UNCHANGED <<vars, file, lastSavedDialogInfoMd5, history>>

\* All is marshalled: dialogsMutex is released, and an unchanged MD5 ends the save
CompareMd5 ==
    /\ Marshalling
    /\ \A d \in Held(Memory) : saver.read[d] = Len(Fields)
    /\ saver' = IF saver.data = lastSavedDialogInfoMd5 THEN Idle
                ELSE [saver EXCEPT !.pc = "open"]
    /\ UNCHANGED <<vars, file, lastSavedDialogInfoMd5, history>>

\* os.WriteFile opens the file, which empties it
Truncate ==
    /\ saver.pc = "open"
    /\ saver' = [saver EXCEPT !.pc = "write"]
    /\ file' = File("begun", Idle.data)
    /\ UNCHANGED <<vars, lastSavedDialogInfoMd5, history>>

\* ... and writes it
WriteFile ==
    /\ saver.pc = "write"
    /\ saver' = Idle
    /\ file' = File("whole", saver.data)
    /\ lastSavedDialogInfoMd5' = saver.data
    /\ saved' = saved \cup Held(saver.data)
    /\ UNCHANGED <<vars, overlapped, lost, faults>>

\* It cannot be opened, or cannot be written to its end
WriteFails ==
    /\ saver.pc \in {"open", "write"}
    /\ faults < MaxFaults
    /\ faults' = faults + 1
    /\ saver' = Idle
    /\ lost' = (lost \/ saver.pc = "write")
    /\ UNCHANGED <<vars, file, lastSavedDialogInfoMd5, overlapped, saved>>

Save ==
    \/ SaveBegin \/ CompareMd5 \/ Truncate \/ WriteFile
    \/ \E d \in Dialogs : MarshalField(d)

-----------------------------------------------------------------------------
(* loadDialogInfo *)

\* Mutants: the map holds what was read, not objects; what was read is not put into the map
LoadValues(data) ==
    /\ dialogs' = data
    /\ info' = [o \in Objs |-> NewInfo]
    /\ lastSavedDialogInfoMd5' = data
LoadNothing(data) ==
    /\ dialogs' = [d \in Dialogs |-> Nil]
    /\ info' = [o \in Objs |-> NewInfo]
    /\ lastSavedDialogInfoMd5' = data

\* The entries of a complete file become the map, and their MD5 the last one
Load(data) ==
    /\ dialogs' = [d \in Dialogs |-> IF data[d] = Nil THEN Nil ELSE d]
    /\ info' = [o \in Objs |-> IF o \in Held(data) THEN data[o] ELSE NewInfo]
    /\ lastSavedDialogInfoMd5' = data

\* A missing file, and one that cannot be parsed, leave the map empty
LoadFails ==
    /\ dialogs' = [d \in Dialogs |-> Nil]
    /\ info' = [o \in Objs |-> NewInfo]
    /\ lastSavedDialogInfoMd5' = Nil

\* The process ends, killed or by a panic, and is started again: messages, handlers and
\* locks are gone, and so are the winners that the cache file does not hold
Restart ==
    /\ faults < MaxFaults
    /\ faults' = faults + 1
    /\ IF file.kind = "whole" THEN Load(file.data) ELSE LoadFails
    /\ lost' = (lost \/ file.kind = "begun")
    /\ saver' = Idle
    /\ chan' = [s \in Sources |-> <<>>]
    /\ pc' = [m \in Msgs |-> IF pc[m] = "unsent" THEN "unsent" ELSE "done"]
    /\ dialogx' = [m \in Msgs |-> Nil]
    /\ outer' = [m \in Msgs |-> Nil]
    /\ best' = [m \in Msgs |-> NoIntent]
    /\ hints' = [m \in Msgs |-> FALSE]
    /\ mapWriter' = Nobody
    /\ lock' = [o \in Objs |-> Nobody]
    /\ fatal' = FALSE
    /\ \E kept \in SUBSET Contents :
         IntentCache' = [c \in Contents |-> IF c \in kept THEN IntentCache[c] ELSE NoIntent]
    /\ UNCHANGED <<commandFirst, msg, out, file, overlapped, saved>>

-----------------------------------------------------------------------------
(* The whole *)

\* A step of the dispatcher beside the saver, which holds dialogsMutex while it marshals
Beside(A) ==
    /\ A
    /\ Marshalling => mapWriter' = Nobody
    /\ overlapped' = (overlapped \/ (Marshalling /\ SomeoneWorks'))
    /\ UNCHANGED <<disk, lost, saved, faults>>

FileNext ==
    \/ Beside(Next)
    \/ ~fatal /\ (Save \/ WriteFails)
    \/ Restart

FileSpec == FileInit /\ [][FileNext]_allVars

\* The ticker fires again and again, and the saver is scheduled and gets dialogsMutex at
\* last; nothing is assumed of the handlers
FairFileSpec ==
    /\ FileSpec
    /\ SF_allVars(~fatal /\ SaveBegin)
    /\ WF_allVars(~fatal /\ Save)
-----------------------------------------------------------------------------
(* Properties *)

\* Every variable holds a value of its kind: the dispatcher's, the file and the saver
FileTypeOK ==
    /\ TypeOK
    /\ file \in [kind : {"none", "begun", "whole"}, data : Infos]
    /\ lastSavedDialogInfoMd5 \in Infos \cup {Nil}
    /\ saver \in [pc : {"idle", "marshal", "open", "write"},
                  read : [Dialogs -> 0..Len(Fields)], data : Infos]
    /\ overlapped \in BOOLEAN /\ lost \in BOOLEAN
    /\ saved \subseteq Dialogs
    /\ faults \in 0..MaxFaults

\* A restart never leaves a dialog with both a program and the chat, as long as no save ran
\* while a handler held a dialog: what such a save writes mixes two moments of the dialog,
\* and only then can what is loaded (line 175) be a state that no handler left behind
ExclusionSurvivesRestart == ~overlapped => ProgramExcludesChat

\* A dialog that was once saved is known ever after, over restarts, as long as no write was
\* cut off: the MD5 test, the truncation and the load never drop one by themselves
SavedDialogsSurvive == ~lost => \A d \in saved : dialogs[d] # Nil

\* When the handlers rest, the file comes to say what the memory says, unless they start
\* again, the process is gone, or a write was cut off before (a later save with the MD5 of
\* the last complete one is then skipped)
FileCatchesUp ==
    (\A m \in Msgs : pc[m] \in {"unsent", "done"})
      ~> \/ \E m \in Msgs : pc[m] \notin {"unsent", "done"}
         \/ file = File("whole", Memory)
         \/ fatal \/ lost
=============================================================================
