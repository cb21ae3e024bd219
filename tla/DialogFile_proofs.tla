-------------------------- MODULE DialogFile_proofs --------------------------
(***************************************************************************)
(* Proofs about DialogFile, for any number of dialogs and messages, any    *)
(* number of restarts and failed writes, and any interleaving of the saver *)
(* with the handlers.  They rest on the invariant of the dispatcher, of    *)
(* which a restart keeps all but what depends on the loaded file.          *)
(***************************************************************************)
EXTENDS DialogFile, Expert_proofs

-----------------------------------------------------------------------------
(* The inductive invariant *)

\* What the handlers, the channels and the locks keep, restarts or not
HandlersInv == TypeOK /\ FrameInv /\ QueueInv /\ LockInv /\ TurnInv /\ LoadInv

\* While the saver marshals, the map stands still, and what it has read of an entry is
\* what the entry says, unless some handler held an entry meanwhile
ReadSoFar(d) ==
    /\ dialogs[d] = Nil => saver.read[d] = 0
    /\ saver.read[d] = 0 <=> saver.data[d] = Nil
    /\ ~overlapped => \A i \in 1..saver.read[d] :
                         saver.data[d][Fields[i]] = info[dialogs[d]][Fields[i]]
MarshalInv ==
    Marshalling =>
        /\ mapWriter = Nobody
        /\ ~overlapped => ~SomeoneWorks
        /\ \A d \in Dialogs : ReadSoFar(d)

\* No entry is both with a program and in the chat
Apart(data) ==
    \A d \in Dialogs : data[d] # Nil /\ data[d].program # NoIntent
                          => ~data[d].mutil /\ ~data[d].firstMutil

\* ... neither in memory nor on its way to the disk nor there
ApartInv ==
    ~overlapped =>
        /\ RouteInv
        /\ saver.pc \in {"open", "write"} => Apart(saver.data)
        /\ file.kind = "whole" => Apart(file.data)

\* The dialogs of which a complete file told are in the map and in every later file
InMap == {d \in Dialogs : dialogs[d] # Nil}
KnownInv ==
    /\ saver.pc \in {"open", "write"} => Held(saver.data) \subseteq InMap
    /\ file.kind = "none" => saved = {}
    /\ ~lost =>
          /\ saved \subseteq InMap
          /\ saver.pc \in {"open", "write"} => saved \subseteq Held(saver.data)
          /\ file.kind = "whole" => saved \subseteq Held(file.data)

FileInv == HandlersInv /\ FileTypeOK /\ MarshalInv /\ ApartInv /\ KnownInv

-----------------------------------------------------------------------------
(* Fields and entries *)

\* The four fields that are marshalled
LEMMA FieldFacts ==
    /\ Len(Fields) = 4
    /\ Fields[1] = "program" /\ Fields[2] = "mutil"
    /\ Fields[3] = "firstMutil" /\ Fields[4] = "chatHistory"
BY DEF Fields

\* Reading a field of r into s makes that field the one of r and leaves the others
LEMMA ReadFieldFacts ==
    ASSUME NEW r \in DialogInfo, NEW s \in DialogInfo, NEW i \in 1..4
    PROVE  LET t == [s EXCEPT ![Fields[i]] = r[Fields[i]]]
           IN  /\ t \in DialogInfo
               /\ t[Fields[i]] = r[Fields[i]]
               /\ \A j \in 1..4 : j # i => t[Fields[j]] = s[Fields[j]]
<1>1. i = 1 \/ i = 2 \/ i = 3 \/ i = 4 OBVIOUS
<1>2. CASE i = 1 BY <1>2, FieldFacts DEF DialogInfo
<1>3. CASE i = 2 BY <1>3, FieldFacts DEF DialogInfo
<1>4. CASE i = 3 BY <1>4, FieldFacts DEF DialogInfo
<1>5. CASE i = 4 BY <1>5, FieldFacts DEF DialogInfo
<1> QED BY <1>1, <1>2, <1>3, <1>4, <1>5

\* The dialogs that a complete marshalling of the map would name are those of the map
LEMMA MemoryFacts ==
    ASSUME TypeOK
    PROVE  /\ Memory \in Infos
           /\ Held(Memory) = InMap
           /\ \A d \in Dialogs : dialogs[d] # Nil => Memory[d] = info[dialogs[d]]
<1>1. \A d \in Dialogs : dialogs[d] # Nil => info[dialogs[d]] \in DialogInfo
  BY DEF TypeOK
<1> QED BY <1>1, NilAssumption DEF Memory, Held, InMap, Infos

\* What RouteInv says of the entries that no handler holds
LEMMA Apartness ==
    ASSUME HandlersInv, RouteInv, NEW o \in Objs, lock[o] = Nobody,
           info[o].program # NoIntent
    PROVE  ~info[o].mutil /\ ~info[o].firstMutil
<1>1. ASSUME NEW m \in Msgs, pc[m] = "forward", dialogx[m] = o PROVE FALSE
  <2>1. Owns(m, o) BY <1>1 DEF Owns, Working
  <2> QED BY <2>1, Disjoint DEF HandlersInv, LockInv
<1> QED BY <1>1 DEF RouteInv

-----------------------------------------------------------------------------
(* Steps of the dispatcher *)

\* The dispatcher's step keeps what it needs of its invariant
LEMMA HandlersStep ==
    ASSUME HandlersInv, [Next]_vars
    PROVE  HandlersInv'
<1>1. TypeOK' BY TypeStep DEF HandlersInv
<1>2. FrameInv' BY FrameStep DEF HandlersInv
<1>3. QueueInv' BY QueueStep DEF HandlersInv
<1>4. LockInv' BY LockStep DEF HandlersInv
<1>5. TurnInv' BY TurnStep DEF HandlersInv
<1>6. LoadInv' BY LoadStep DEF HandlersInv
<1> QED BY <1>1, <1>2, <1>3, <1>4, <1>5, <1>6 DEF HandlersInv

\* It writes no entry that is not held, drops none from the map, and adds one only when
\* a handler writes the map
LEMMA MemoryStep ==
    ASSUME HandlersInv, [Next]_vars
    PROVE  /\ \A o \in Objs : lock[o] = Nobody => info'[o] = info[o]
           /\ \A d \in Dialogs : dialogs[d] # Nil => dialogs'[d] # Nil
           /\ mapWriter = Nobody => dialogs' = dialogs
<1> DEFINE Goal == /\ \A o \in Objs : lock[o] = Nobody => info'[o] = info[o]
                   /\ \A d \in Dialogs : dialogs[d] # Nil => dialogs'[d] # Nil
                   /\ mapWriter = Nobody => dialogs' = dialogs
<1>0. TypeOK /\ FrameInv /\ LockInv BY DEF HandlersInv
<1>1. ASSUME NEW m \in Msgs, Step(m) PROVE Goal
  <2>1. ASSUME NEW o \in Objs, lock[o] = Nobody PROVE info'[o] = info[o]
    <3>1. CASE o # dialogx[m] BY <1>0, <1>1, <3>1, OnlyOwnDialog
    <3>2. CASE o = dialogx[m] /\ pc[m] \in Working
      <4>1. Owns(m, o) BY <3>2 DEF Owns
      <4> QED BY <1>0, <2>1, <4>1, Disjoint DEF LockInv
    <3>3. CASE pc[m] \notin Working BY <1>0, <1>1, <3>3, OnlyOwnDialog
    <3> QED BY <3>1, <3>2, <3>3
  <2>2. CASE InsertEnd(m)
    <3>1. mapWriter = m BY <1>0, <2>2 DEF InsertEnd, FrameInv
    <3>2. m # Nil /\ m # Nobody BY Disjoint DEF Objs
    <3>3. dialogs' = [dialogs EXCEPT ![msg[m].dlg] = m] BY <2>2 DEF InsertEnd
    <3> QED BY <1>0, <2>1, <3>1, <3>2, <3>3 DEF TypeOK
  <2>3. CASE ~InsertEnd(m)
    <3>1. dialogs' = dialogs
      BY <1>1, <2>3, Shapes DEF Lookup, LookupThrows, Moving, Returning, Calling, shared
    <3> QED BY <2>1, <3>1
  <2> QED BY <2>2, <2>3
<1>2. ASSUME NEW m \in Msgs, InsertBegin(m) \/ AcquireLock(m) PROVE Goal
  BY <1>2 DEF InsertBegin, AcquireLock
<1>3. ASSUME NEW s \in Sources, Run(s) PROVE Goal BY <1>3 DEF Run, shared
<1>4. ASSUME NEW s \in Sources, NEW m \in Msgs, HandleRequestMessage(s, m) PROVE Goal
  BY <1>4 DEF HandleRequestMessage, shared
<1>5. CASE UNCHANGED vars BY <1>5 DEF vars
<1> QED BY <1>1, <1>2, <1>3, <1>4, <1>5 DEF Next

\* A process that is started again begins with no handler at work
LEMMA HandlersRestart ==
    ASSUME HandlersInv, FileTypeOK, Restart
    PROVE  HandlersInv'
<1>0. TypeOK /\ FrameInv BY DEF HandlersInv
<1>1. /\ chan' = [s \in Sources |-> <<>>]
      /\ pc' = [m \in Msgs |-> IF pc[m] = "unsent" THEN "unsent" ELSE "done"]
      /\ dialogx' = [m \in Msgs |-> Nil] /\ outer' = [m \in Msgs |-> Nil]
      /\ best' = [m \in Msgs |-> NoIntent] /\ hints' = [m \in Msgs |-> FALSE]
      /\ mapWriter' = Nobody /\ lock' = [o \in Objs |-> Nobody] /\ fatal' = FALSE
      /\ commandFirst' = commandFirst /\ msg' = msg /\ out' = out
  BY DEF Restart
<1>2. \A m \in Msgs : pc'[m] \in {"unsent", "done"} BY <1>1
<1>3. TypeOK'
  <2>1. dialogs' \in [Dialogs -> Objs \cup {Nil}] /\ info' \in [Objs -> DialogInfo]
    <3>1. NewInfo \in DialogInfo BY EmptySeq DEF NewInfo, DialogInfo
    <3>2. CASE file.kind = "whole"
      <4>1. \A d \in Held(file.data) : file.data[d] \in DialogInfo
        BY DEF FileTypeOK, Infos, Held
      <4>2. /\ dialogs' = [d \in Dialogs |-> IF file.data[d] = Nil THEN Nil ELSE d]
            /\ info' = [o \in Objs |-> IF o \in Held(file.data) THEN file.data[o]
                                       ELSE NewInfo]
        BY <3>2 DEF Restart, Load
      <4> QED BY <3>1, <4>1, <4>2 DEF Objs
    <3>3. CASE file.kind # "whole" BY <3>1, <3>3 DEF Restart, LoadFails
    <3> QED BY <3>2, <3>3
  <2>2. IntentCache' \in [Contents -> Intents \cup {NoIntent}]
    <3>1. PICK kept \in SUBSET Contents :
            IntentCache' = [c \in Contents |-> IF c \in kept THEN IntentCache[c]
                                               ELSE NoIntent]
      BY DEF Restart
    <3> QED BY <1>0, <3>1 DEF TypeOK
  <2>3. chan' \in [Sources -> Seq(Msgs)] BY <1>1, EmptySeq
  <2>4. pc' \in [Msgs -> PCs] BY <1>1 DEF PCs
  <2> QED BY <1>0, <1>1, <2>1, <2>2, <2>3, <2>4 DEF TypeOK
<1>4. FrameInv' BY <1>0, <1>1, <1>2, Disjoint DEF FrameInv, Working
<1>5. QueueInv' BY <1>1 DEF QueueInv
<1>6. LockInv' BY <1>1, <1>2, Disjoint DEF LockInv, Owns, Working, Objs
<1>7. TurnInv' BY <1>2 DEF TurnInv, TurnOK, Turn
<1>8. LoadInv' BY <1>2 DEF LoadInv
<1> QED BY <1>3, <1>4, <1>5, <1>6, <1>7, <1>8 DEF HandlersInv

-----------------------------------------------------------------------------
(* Types *)

\* A field more of an entry that is read leaves the saver with a prefix of a DialogInfo
LEMMA MarshalFacts ==
    ASSUME TypeOK, FileTypeOK, NEW d \in Dialogs, MarshalField(d)
    PROVE  /\ dialogs[d] \in Objs
           /\ saver.read[d] + 1 \in 1..4
           /\ \E t \in DialogInfo :
                 /\ saver' = [saver EXCEPT !.read[d] = @ + 1, !.data[d] = t]
                 /\ t[Fields[saver.read[d] + 1]] = info[dialogs[d]][Fields[saver.read[d] + 1]]
                 /\ \A j \in 1..4 : j # saver.read[d] + 1 /\ saver.data[d] # Nil
                                       => t[Fields[j]] = saver.data[d][Fields[j]]
<1> DEFINE sofar == IF saver.data[d] = Nil THEN NewInfo ELSE saver.data[d]
           r == info[dialogs[d]]
           i == saver.read[d] + 1
           t == [sofar EXCEPT ![Fields[i]] = r[Fields[i]]]
<1>1. dialogs[d] \in Objs BY DEF MarshalField, TypeOK
<1>2. saver.read[d] \in 0..4 /\ saver.read[d] < 4
  BY FieldFacts DEF MarshalField, FileTypeOK
<1>3. i \in 1..4 BY <1>2
<1>4. r \in DialogInfo BY <1>1 DEF TypeOK
<1>5. sofar \in DialogInfo
  <2>1. NewInfo \in DialogInfo BY EmptySeq DEF NewInfo, DialogInfo
  <2> QED BY <2>1 DEF FileTypeOK, Infos
<1>6. saver' = [saver EXCEPT !.read[d] = @ + 1, !.data[d] = t]
  BY DEF MarshalField, FieldNow
<1>7. /\ t \in DialogInfo
      /\ t[Fields[i]] = r[Fields[i]]
      /\ \A j \in 1..4 : j # i => t[Fields[j]] = sofar[Fields[j]]
  <2> HIDE DEF i, r, sofar
  <2> QED BY ZenonT(60), <1>3, <1>4, <1>5, ReadFieldFacts
<1> HIDE DEF t
<1> QED BY <1>1, <1>3, <1>6, <1>7

\* Every step of the dispatcher, the saver and the file keeps every type
LEMMA FileTypeStep ==
    ASSUME HandlersInv, FileTypeOK, [FileNext]_allVars, TypeOK'
    PROVE  FileTypeOK'
<1> USE FieldFacts
<1>0. TypeOK BY DEF HandlersInv
<1>1. Idle \in [pc : {"idle", "marshal", "open", "write"},
                read : [Dialogs -> 0..Len(Fields)], data : Infos]
  BY DEF Idle, Infos
<1>2. CASE Beside(Next)
  BY <1>2 DEF Beside, FileTypeOK, disk, SomeoneWorks
<1>3. CASE SaveBegin
  <2>1. saver' = [Idle EXCEPT !.pc = "marshal"] BY <1>3 DEF SaveBegin
  <2>2. saver' \in [pc : {"idle", "marshal", "open", "write"},
                    read : [Dialogs -> 0..Len(Fields)], data : Infos]
    BY <1>1, <2>1
  <2> QED BY <1>3, <2>2 DEF SaveBegin, FileTypeOK, SomeoneWorks
<1>4. ASSUME NEW d \in Dialogs, MarshalField(d) PROVE FileTypeOK'
  <2>1. PICK t \in DialogInfo : saver' = [saver EXCEPT !.read[d] = @ + 1, !.data[d] = t]
    BY <1>0, <1>4, MarshalFacts
  <2>2. saver.read[d] + 1 \in 1..4 BY <1>0, <1>4, MarshalFacts
  <2>3. [saver.read EXCEPT ![d] = @ + 1] \in [Dialogs -> 0..Len(Fields)]
    BY <2>2 DEF FileTypeOK
  <2>4. [saver.data EXCEPT ![d] = t] \in Infos BY DEF FileTypeOK, Infos
  <2>5. saver' \in [pc : {"idle", "marshal", "open", "write"},
                    read : [Dialogs -> 0..Len(Fields)], data : Infos]
    BY <2>1, <2>3, <2>4 DEF FileTypeOK
  <2> QED BY <1>4, <2>5 DEF MarshalField, FileTypeOK, history
<1>5. CASE CompareMd5
  <2>1. saver' = Idle \/ saver' = [saver EXCEPT !.pc = "open"] BY <1>5 DEF CompareMd5
  <2>2. saver' \in [pc : {"idle", "marshal", "open", "write"},
                    read : [Dialogs -> 0..Len(Fields)], data : Infos]
    BY <1>1, <2>1 DEF FileTypeOK
  <2> QED BY <1>5, <2>2 DEF CompareMd5, FileTypeOK, history
<1>6. CASE Truncate
  <2>1. file' \in [kind : {"none", "begun", "whole"}, data : Infos]
    BY <1>6 DEF Truncate, File, Idle, Infos
  <2>2. saver' \in [pc : {"idle", "marshal", "open", "write"},
                    read : [Dialogs -> 0..Len(Fields)], data : Infos]
    BY <1>6 DEF Truncate, FileTypeOK
  <2> QED BY <1>6, <2>1, <2>2 DEF Truncate, FileTypeOK, history
<1>7. CASE WriteFile
  BY <1>1, <1>7 DEF WriteFile, FileTypeOK, File, Held
<1>8. CASE WriteFails
  BY <1>1, <1>8, FaultAssumption DEF WriteFails, FileTypeOK
<1>9. CASE Restart
  <2>1. lastSavedDialogInfoMd5' \in Infos \cup {Nil}
    BY <1>9 DEF Restart, Load, LoadFails, FileTypeOK
  <2> QED BY <1>1, <1>9, <2>1, FaultAssumption DEF Restart, FileTypeOK
<1>10. CASE UNCHANGED allVars BY <1>10 DEF allVars, disk, history, FileTypeOK
<1> QED BY <1>2, <1>3, <1>4, <1>5, <1>6, <1>7, <1>8, <1>9, <1>10 DEF FileNext, Save

-----------------------------------------------------------------------------
(* The saver beside the handlers *)

\* What was read of the entries stays true of them while no handler holds one
LEMMA MarshalStep ==
    ASSUME HandlersInv, FileTypeOK, MarshalInv, [FileNext]_allVars
    PROVE  MarshalInv'
<1>0. TypeOK BY DEF HandlersInv
<1>1. CASE Beside(Next)
  <2>0. saver' = saver BY <1>1 DEF Beside, disk
  <2> SUFFICES ASSUME Marshalling PROVE MarshalInv'
    BY <2>0 DEF MarshalInv, Marshalling
  <2>1. mapWriter' = Nobody /\ saver' = saver BY <1>1, <2>0 DEF Beside
  <2>2. overlapped' = (overlapped \/ (Marshalling /\ SomeoneWorks')) BY <1>1 DEF Beside
  <2>3. Next BY <1>1 DEF Beside
  <2>4. /\ dialogs' = dialogs
        /\ \A o \in Objs : lock[o] = Nobody => info'[o] = info[o]
    BY <2>3, MemoryStep DEF MarshalInv
  <2>5. ASSUME NEW d \in Dialogs PROVE ReadSoFar(d)'
    <3>1. ReadSoFar(d) BY DEF MarshalInv
    <3>2. ASSUME ~overlapped, dialogs[d] # Nil PROVE info'[dialogs[d]] = info[dialogs[d]]
      <4>1. lock[dialogs[d]] = Nobody BY <3>2 DEF MarshalInv, SomeoneWorks
      <4> QED BY <1>0, <2>4, <3>2, <4>1 DEF TypeOK
    <3>3. ~overlapped' => ~overlapped BY <2>2
    <3>4. CASE dialogs[d] = Nil
      <4>1. saver.read[d] = 0 BY <3>1, <3>4 DEF ReadSoFar
      <4> QED BY <2>1, <2>4, <3>1, <4>1 DEF ReadSoFar
    <3>5. CASE dialogs[d] # Nil
      BY <2>1, <2>4, <3>1, <3>2, <3>3, <3>5 DEF ReadSoFar
    <3> QED BY <3>4, <3>5
  <2>6. ~overlapped' => ~SomeoneWorks' BY <2>2
  <2> QED BY <2>1, <2>5, <2>6 DEF MarshalInv
<1>2. CASE SaveBegin
  <2>1. /\ mapWriter' = Nobody /\ saver'.pc = "marshal"
        /\ \A d \in Dialogs : saver'.read[d] = 0 /\ saver'.data[d] = Nil
        /\ overlapped' = (overlapped \/ SomeoneWorks)
        /\ dialogs' = dialogs /\ lock' = lock /\ info' = info
    BY <1>2 DEF SaveBegin, vars, Idle
  <2>2. SomeoneWorks' = SomeoneWorks BY <2>1 DEF SomeoneWorks
  <2>3. ASSUME NEW d \in Dialogs PROVE ReadSoFar(d)'
    <3>1. \A i \in 1..saver'.read[d] : FALSE BY <2>1
    <3> QED BY <2>1, <3>1 DEF ReadSoFar
  <2>4. ~overlapped' => ~SomeoneWorks' BY <2>1, <2>2
  <2> QED BY <2>1, <2>3, <2>4 DEF MarshalInv
<1>3. ASSUME NEW e \in Dialogs, MarshalField(e) PROVE MarshalInv'
  <2>1. PICK t \in DialogInfo :
          /\ saver' = [saver EXCEPT !.read[e] = @ + 1, !.data[e] = t]
          /\ t[Fields[saver.read[e] + 1]] = info[dialogs[e]][Fields[saver.read[e] + 1]]
          /\ \A j \in 1..4 : j # saver.read[e] + 1 /\ saver.data[e] # Nil
                                => t[Fields[j]] = saver.data[e][Fields[j]]
    BY <1>0, <1>3, MarshalFacts
  <2>2. dialogs[e] \in Objs /\ saver.read[e] + 1 \in 1..4
    BY <1>0, <1>3, MarshalFacts
  <2>3. /\ dialogs' = dialogs /\ lock' = lock /\ info' = info /\ mapWriter' = mapWriter
        /\ overlapped' = overlapped /\ Marshalling
    BY <1>3 DEF MarshalField, vars, history
  <2>4. SomeoneWorks' = SomeoneWorks BY <2>3 DEF SomeoneWorks
  <2>5. /\ saver'.read = [saver.read EXCEPT ![e] = @ + 1]
        /\ saver'.data = [saver.data EXCEPT ![e] = t]
    BY <2>1 DEF FileTypeOK
  <2>6. saver.read \in [Dialogs -> 0..4] /\ saver.data \in [Dialogs -> DialogInfo \cup {Nil}]
    BY FieldFacts DEF FileTypeOK, Infos
  <2>7. ASSUME NEW d \in Dialogs PROVE ReadSoFar(d)'
    <3>1. ReadSoFar(d) BY <2>3 DEF MarshalInv
    <3>2. CASE d # e
      <4>1. saver'.read[d] = saver.read[d] /\ saver'.data[d] = saver.data[d]
        BY <2>5, <2>6, <3>2
      <4> QED BY <2>3, <3>1, <4>1 DEF ReadSoFar
    <3>3. CASE d = e
      <4>1. saver'.read[e] = saver.read[e] + 1 /\ saver'.data[e] = t
        BY <2>5, <2>6
      <4>2. t # Nil BY NilAssumption
      <4>3. dialogs[e] # Nil BY <2>2, Disjoint
      <4>4. ASSUME ~overlapped, NEW i \in 1..(saver.read[e] + 1)
            PROVE  t[Fields[i]] = info[dialogs[e]][Fields[i]]
        <5>1. CASE i = saver.read[e] + 1 BY <2>1, <5>1
        <5>2. CASE i # saver.read[e] + 1
          <6>1. i \in 1..saver.read[e] /\ i \in 1..4 /\ saver.read[e] # 0
            BY <2>2, <2>6, <5>2
          <6>2. saver.data[e] # Nil BY <3>1, <3>3, <6>1 DEF ReadSoFar
          <6>3. saver.data[e][Fields[i]] = info[dialogs[e]][Fields[i]]
            BY <3>1, <3>3, <4>4, <6>1 DEF ReadSoFar
          <6> QED BY <2>1, <5>2, <6>1, <6>2, <6>3
        <5> QED BY <5>1, <5>2
      <4>5. saver.read[e] + 1 # 0 BY <2>2
      <4> QED BY <2>3, <3>3, <4>1, <4>2, <4>3, <4>4, <4>5 DEF ReadSoFar
    <3> QED BY <3>2, <3>3
  <2> QED BY <2>3, <2>4, <2>7 DEF MarshalInv
<1>4. CASE CompareMd5 \/ Truncate \/ WriteFile \/ WriteFails \/ Restart
  <2>1. saver'.pc \in {"idle", "open", "write"}
    BY <1>4 DEF CompareMd5, Truncate, WriteFile, WriteFails, Restart, Idle, FileTypeOK
  <2> QED BY <2>1 DEF MarshalInv, Marshalling
<1>5. CASE UNCHANGED allVars
  BY <1>5 DEF allVars, vars, disk, history, MarshalInv, Marshalling, SomeoneWorks, ReadSoFar
<1> QED BY <1>1, <1>2, <1>3, <1>4, <1>5 DEF FileNext, Save

\* When everything is read, the saver holds an entry for each dialog of the map, and, if
\* no handler held one, what no handler can have left half done
LEMMA ReadWhole ==
    ASSUME HandlersInv, FileTypeOK, MarshalInv, CompareMd5
    PROVE  /\ Held(saver.data) = InMap
           /\ ~overlapped /\ RouteInv => Apart(saver.data)
<1>0. TypeOK /\ Marshalling BY DEF HandlersInv, CompareMd5
<1>1. \A d \in Dialogs : dialogs[d] # Nil => saver.read[d] = 4
  BY <1>0, MemoryFacts, FieldFacts DEF CompareMd5, InMap
<1>2. ASSUME NEW d \in Dialogs PROVE saver.data[d] # Nil <=> dialogs[d] # Nil
  <2>1. ReadSoFar(d) BY <1>0 DEF MarshalInv
  <2> QED BY <1>1, <2>1 DEF ReadSoFar
<1>3. ASSUME ~overlapped, RouteInv, NEW d \in Dialogs, saver.data[d] # Nil,
             saver.data[d].program # NoIntent
      PROVE  ~saver.data[d].mutil /\ ~saver.data[d].firstMutil
  <2>1. ReadSoFar(d) BY <1>0 DEF MarshalInv
  <2>2. dialogs[d] # Nil /\ dialogs[d] \in Objs BY <1>0, <1>2, <1>3 DEF TypeOK
  <2>3. 1 \in 1..saver.read[d] /\ 2 \in 1..saver.read[d] /\ 3 \in 1..saver.read[d]
    BY <1>1, <2>2
  <2>4. \A i \in 1..saver.read[d] :
          saver.data[d][Fields[i]] = info[dialogs[d]][Fields[i]]
    BY <1>3, <2>1 DEF ReadSoFar
  <2>5. /\ saver.data[d].program = info[dialogs[d]].program
        /\ saver.data[d].mutil = info[dialogs[d]].mutil
        /\ saver.data[d].firstMutil = info[dialogs[d]].firstMutil
    BY <2>3, <2>4, FieldFacts
  <2>6. lock[dialogs[d]] = Nobody BY <1>0, <1>3, <2>2 DEF MarshalInv, SomeoneWorks
  <2> QED BY <1>3, <2>2, <2>5, <2>6, Apartness
<1> QED BY <1>2, <1>3 DEF Held, InMap, Apart

\* No file, no save under way and no memory mixes the two, unless a save met a handler
LEMMA ApartStep ==
    ASSUME HandlersInv, FileTypeOK, MarshalInv, ApartInv, [FileNext]_allVars
    PROVE  ApartInv'
<1>0. TypeOK /\ FrameInv /\ QueueInv /\ LockInv /\ TurnInv BY DEF HandlersInv
<1>1. ASSUME info' = info, pc' = pc, dialogx' = dialogx, RouteInv PROVE RouteInv'
  BY <1>1 DEF RouteInv
<1>2. CASE Beside(Next)
  <2>1. RouteInv => RouteInv' BY <1>0, <1>2, RouteStep DEF Beside
  <2>2. overlapped => overlapped' BY <1>2 DEF Beside
  <2>3. saver' = saver /\ file' = file BY <1>2 DEF Beside, disk
  <2> QED BY <2>1, <2>2, <2>3 DEF ApartInv
<1>3. CASE \/ SaveBegin \/ Truncate \/ WriteFile \/ WriteFails \/ CompareMd5
           \/ \E d \in Dialogs : MarshalField(d)
  <2>0. /\ UNCHANGED vars
        /\ overlapped' = overlapped \/ overlapped' = (overlapped \/ SomeoneWorks)
    BY <1>3 DEF SaveBegin, Truncate, WriteFile, WriteFails, CompareMd5, MarshalField, history
  <2>10. info' = info /\ pc' = pc /\ dialogx' = dialogx BY <2>0 DEF vars
  <2>11. overlapped => overlapped' BY <2>0
  <2>1. info' = info /\ pc' = pc /\ dialogx' = dialogx /\ (overlapped => overlapped')
    BY <2>10, <2>11
  <2>2. RouteInv => RouteInv' BY <1>1, <2>1
  <2>3. CASE SaveBegin \/ \E d \in Dialogs : MarshalField(d)
    <3>1. file' = file /\ saver'.pc = "marshal"
      BY <2>3 DEF SaveBegin, MarshalField, Marshalling, FileTypeOK, Idle
    <3> QED BY <2>1, <2>2, <3>1 DEF ApartInv
  <2>4. CASE CompareMd5
    <3>1. file' = file /\ (saver' = Idle \/ saver' = [saver EXCEPT !.pc = "open"])
      BY <2>4 DEF CompareMd5
    <3>2. saver'.pc = "idle" \/ saver'.data = saver.data
      BY <3>1 DEF Idle, FileTypeOK
    <3>3. ~overlapped => Apart(saver.data) BY <2>4, ReadWhole DEF ApartInv
    <3> QED BY <2>1, <2>2, <3>1, <3>2, <3>3 DEF ApartInv
  <2>5. CASE Truncate
    <3>1. file'.kind = "begun" /\ saver'.data = saver.data /\ saver.pc = "open"
      BY <2>5 DEF Truncate, File, FileTypeOK
    <3> QED BY <2>1, <2>2, <3>1 DEF ApartInv
  <2>6. CASE WriteFile
    <3>1. file'.data = saver.data /\ saver'.pc = "idle" /\ saver.pc = "write"
      BY <2>6 DEF WriteFile, File, Idle
    <3> QED BY <2>1, <2>2, <3>1 DEF ApartInv
  <2>7. CASE WriteFails
    <3>1. file' = file /\ saver'.pc = "idle" BY <2>7 DEF WriteFails, Idle
    <3> QED BY <2>1, <2>2, <3>1 DEF ApartInv
  <2> QED BY <1>3, <2>3, <2>4, <2>5, <2>6, <2>7
<1>4. CASE Restart
  <2>1. saver'.pc = "idle" /\ file' = file /\ overlapped' = overlapped
    BY <1>4 DEF Restart, Idle
  <2>2. ASSUME ~overlapped, NEW o \in Objs, info'[o].program # NoIntent
        PROVE  ~info'[o].mutil /\ ~info'[o].firstMutil
    <3>1. NewInfo.program = NoIntent BY DEF NewInfo
    <3>2. CASE file.kind = "whole"
      <4>1. info'[o] = IF o \in Held(file.data) THEN file.data[o] ELSE NewInfo
        BY <1>4, <3>2 DEF Restart, Load
      <4> QED BY <2>2, <3>1, <3>2, <4>1 DEF ApartInv, Apart, Held
    <3>3. CASE file.kind # "whole"
      BY <1>4, <2>2, <3>1, <3>3 DEF Restart, LoadFails
    <3> QED BY <3>2, <3>3
  <2>3. ~overlapped => RouteInv' BY <2>2 DEF RouteInv
  <2> QED BY <2>1, <2>3 DEF ApartInv
<1>5. CASE UNCHANGED allVars
  <2>1. /\ info' = info /\ pc' = pc /\ dialogx' = dialogx
        /\ saver' = saver /\ file' = file /\ overlapped' = overlapped
    BY <1>5 DEF allVars, vars, local, disk, history
  <2> QED BY <1>1, <2>1 DEF ApartInv
<1> QED BY <1>2, <1>3, <1>4, <1>5 DEF FileNext, Save

\* A dialog that reached the disk is in the map, or a write was cut off
LEMMA KnownStep ==
    ASSUME HandlersInv, FileTypeOK, MarshalInv, KnownInv, [FileNext]_allVars
    PROVE  KnownInv'
<1>1. CASE Beside(Next)
  <2>1. InMap \subseteq InMap' BY <1>1, MemoryStep DEF Beside, InMap
  <2>2. saver' = saver /\ file' = file /\ saved' = saved /\ lost' = lost
    BY <1>1 DEF Beside, disk
  <2> QED BY <2>1, <2>2 DEF KnownInv
<1>2. CASE \/ SaveBegin \/ Truncate \/ WriteFile \/ WriteFails \/ CompareMd5
           \/ \E d \in Dialogs : MarshalField(d)
  <2>1. dialogs' = dialogs
    BY <1>2 DEF SaveBegin, Truncate, WriteFile, WriteFails, CompareMd5, MarshalField, vars
  <2>2. InMap' = InMap BY <2>1 DEF InMap
  <2>3. CASE SaveBegin \/ \E d \in Dialogs : MarshalField(d)
    <3>1. file' = file /\ saver'.pc = "marshal" /\ saved' = saved /\ lost' = lost
      BY <2>3 DEF SaveBegin, MarshalField, Marshalling, FileTypeOK, Idle, history
    <3> QED BY <2>2, <3>1 DEF KnownInv
  <2>4. CASE CompareMd5
    <3>1. /\ file' = file /\ saved' = saved /\ lost' = lost
          /\ saver' = Idle \/ saver' = [saver EXCEPT !.pc = "open"]
      BY <2>4 DEF CompareMd5, history
    <3>2. saver'.pc = "idle" \/ saver'.data = saver.data
      BY <3>1 DEF Idle, FileTypeOK
    <3>3. Held(saver.data) = InMap BY <2>4, ReadWhole
    <3> QED BY <2>2, <3>1, <3>2, <3>3 DEF KnownInv
  <2>5. CASE Truncate
    <3>1. /\ file'.kind = "begun" /\ saver'.data = saver.data /\ saver.pc = "open"
          /\ saved' = saved /\ lost' = lost
      BY <2>5 DEF Truncate, File, FileTypeOK, history
    <3> QED BY <2>2, <3>1 DEF KnownInv
  <2>6. CASE WriteFile
    <3>1. /\ file'.data = saver.data /\ file'.kind = "whole"
          /\ saver'.pc = "idle" /\ saver.pc = "write"
          /\ saved' = saved \cup Held(saver.data) /\ lost' = lost
      BY <2>6 DEF WriteFile, File, Idle
    <3> QED BY <2>2, <3>1 DEF KnownInv
  <2>7. CASE WriteFails
    <3>1. /\ file' = file /\ saver'.pc = "idle" /\ saved' = saved
          /\ lost' = (lost \/ saver.pc = "write")
      BY <2>7 DEF WriteFails, Idle
    <3> QED BY <2>2, <3>1 DEF KnownInv
  <2> QED BY <1>2, <2>3, <2>4, <2>5, <2>6, <2>7
<1>3. CASE Restart
  <2>1. /\ saver'.pc = "idle" /\ file' = file /\ saved' = saved
        /\ lost' = (lost \/ file.kind = "begun")
    BY <1>3 DEF Restart, Idle
  <2>2. CASE file.kind = "whole"
    <3>1. dialogs' = [d \in Dialogs |-> IF file.data[d] = Nil THEN Nil ELSE d]
      BY <1>3, <2>2 DEF Restart, Load
    <3>2. Held(file.data) = InMap' BY <3>1, Disjoint DEF Held, InMap, Objs
    <3> QED BY <2>1, <2>2, <3>2 DEF KnownInv
  <2>3. CASE file.kind = "none" BY <2>1, <2>3 DEF KnownInv
  <2>4. CASE file.kind = "begun" BY <2>1, <2>4 DEF KnownInv
  <2> QED BY <2>2, <2>3, <2>4 DEF FileTypeOK
<1>4. CASE UNCHANGED allVars
  <2>1. /\ dialogs' = dialogs /\ saver' = saver /\ file' = file
        /\ saved' = saved /\ lost' = lost
    BY <1>4 DEF allVars, vars, disk, history
  <2>2. InMap' = InMap BY <2>1 DEF InMap
  <2> QED BY <2>1, <2>2 DEF KnownInv
<1> QED BY <1>1, <1>2, <1>3, <1>4 DEF FileNext, Save

-----------------------------------------------------------------------------
(* The theorems *)

\* The first process begins with what its file says
LEMMA InitFileInv == FileInit => FileInv
<1> SUFFICES ASSUME FileInit PROVE FileInv OBVIOUS
<1>1. IInv BY InitIInv DEF FileInit
<1>2. HandlersInv BY <1>1 DEF IInv, HandlersInv
<1>3. /\ TypeOK /\ RouteInv /\ Memory \in Infos /\ Held(Memory) = InMap
      /\ \A d \in Dialogs : dialogs[d] # Nil => Memory[d] = info[dialogs[d]]
  BY <1>1, MemoryFacts DEF IInv
<1>4. /\ saver = Idle /\ overlapped = FALSE /\ lost = FALSE
      /\ saved = InMap /\ faults = 0
      /\ \/ InMap = {} /\ file = NoFile /\ lastSavedDialogInfoMd5 = Nil
         \/ InMap # {} /\ file = File("whole", Memory) /\ lastSavedDialogInfoMd5 = Memory
  BY <1>3 DEF FileInit
<1>5. Idle.data \in Infos /\ Idle.pc = "idle" /\ Idle.read \in [Dialogs -> 0..Len(Fields)]
  BY FieldFacts DEF Idle, Infos
<1>6. FileTypeOK
  <2>1. file \in [kind : {"none", "begun", "whole"}, data : Infos]
    BY <1>3, <1>4, <1>5 DEF NoFile, File
  <2>2. saver \in [pc : {"idle", "marshal", "open", "write"},
                   read : [Dialogs -> 0..Len(Fields)], data : Infos]
    BY <1>4, FieldFacts DEF Idle, Infos
  <2>3. saved \subseteq Dialogs BY <1>4 DEF InMap
  <2>4. faults \in 0..MaxFaults BY <1>4, FaultAssumption
  <2> QED BY <1>3, <1>4, <2>1, <2>2, <2>3, <2>4 DEF FileTypeOK
<1>7. MarshalInv BY <1>4, <1>5 DEF MarshalInv, Marshalling
<1>8. Apart(Memory)
  <2> SUFFICES ASSUME NEW d \in Dialogs, Memory[d] # Nil, Memory[d].program # NoIntent
               PROVE  ~Memory[d].mutil /\ ~Memory[d].firstMutil
    BY DEF Apart
  <2>1. dialogs[d] # Nil /\ dialogs[d] \in Objs BY <1>3 DEF Held, InMap, TypeOK
  <2>2. lock[dialogs[d]] = Nobody BY <2>1 DEF FileInit, Init
  <2> QED BY <1>2, <1>3, <2>1, <2>2, Apartness
<1>9. ApartInv BY <1>3, <1>4, <1>5, <1>8 DEF ApartInv, NoFile, File
<1>10. KnownInv BY <1>3, <1>4, <1>5 DEF KnownInv, NoFile, File
<1> QED BY <1>2, <1>6, <1>7, <1>9, <1>10 DEF FileInv

\* The invariant holds in every state, over restarts and failed writes
THEOREM FileInvariance == FileSpec => []FileInv
<1>1. ASSUME FileInv, [FileNext]_allVars PROVE FileInv'
  <2>1. HandlersInv /\ FileTypeOK /\ MarshalInv /\ ApartInv /\ KnownInv
    BY <1>1 DEF FileInv
  <2>2. HandlersInv'
    <3>1. CASE Restart BY <2>1, <3>1, HandlersRestart
    <3>2. CASE ~Restart
      <4>1. [Next]_vars
        BY <1>1, <3>2 DEF FileNext, Beside, Save, SaveBegin, CompareMd5, Truncate,
                          WriteFile, WriteFails, MarshalField, allVars
      <4> QED BY <2>1, <4>1, HandlersStep
    <3> QED BY <3>1, <3>2
  <2>3. TypeOK' BY <2>2 DEF HandlersInv
  <2>4. FileTypeOK' BY <1>1, <2>1, <2>3, FileTypeStep
  <2>5. MarshalInv' BY <1>1, <2>1, MarshalStep
  <2>6. ApartInv' BY <1>1, <2>1, ApartStep
  <2>7. KnownInv' BY <1>1, <2>1, KnownStep
  <2> QED BY <2>2, <2>4, <2>5, <2>6, <2>7 DEF FileInv
<1> QED BY <1>1, InitFileInv, PTL DEF FileSpec

\* Every variable of the dispatcher, of the saver and of the disk keeps its type
THEOREM FileTypeCorrect == FileSpec => []FileTypeOK
<1>1. FileInv => FileTypeOK BY DEF FileInv
<1> QED BY <1>1, FileInvariance, PTL

\* No restart puts a dialog with a program back into the chat, if no save met a handler
THEOREM ExclusionSurvives == FileSpec => []ExclusionSurvivesRestart
<1>1. FileInv => ExclusionSurvivesRestart
  BY Apartness DEF FileInv, ApartInv, ExclusionSurvivesRestart, ProgramExcludesChat
<1> QED BY <1>1, FileInvariance, PTL

\* A dialog that a complete file once held is known ever after, if no write was cut off
THEOREM SavedSurvive == FileSpec => []SavedDialogsSurvive
<1>1. FileInv => SavedDialogsSurvive BY DEF FileInv, KnownInv, InMap, SavedDialogsSurvive
<1> QED BY <1>1, FileInvariance, PTL

\* No two handlers are inside one DialogInfo, restarts and the saver included
THEOREM MutexOverRestarts == FileSpec => []MutualExclusion
<1>1. FileInv => MutualExclusion
  BY Exclusion DEF FileInv, HandlersInv, MutualExclusion
<1> QED BY <1>1, FileInvariance, PTL
=============================================================================
