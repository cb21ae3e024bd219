---------------------------- MODULE ChatLLM_proofs ----------------------------
(***************************************************************************)
(* Proofs about ChatLLM, for any number of dialogs, turns and faults and   *)
(* every limit on the messages of a chat.                                  *)
(***************************************************************************)
EXTENDS ChatLLM, SequenceTheorems, TLAPS

-----------------------------------------------------------------------------
(* The inductive invariant *)

Loading == {"load", "store", "storing"}
Talking == {"read", "write", "first", "second", "final", "readAnswer", "writeAnswer"}

\* The chats that are in use were stored by a turn that looked them up
Stored(o, at) == o \in Turns /\ at[o] \in Talking \cup {"done"}

\* The variables have their types, and are defined where they are used
FrameInv ==
    /\ file = [d \in Dialogs |-> file[d]]
    /\ saver \in [pc : {"idle", "open", "write"}, at : Dialogs \cup {Nil},
                  llm : Turns \cup {Nil}, data : Seq(Message), said : Seq(Message)]
    /\ \A t \in Turns : AtWork(t) => dialog[t] \in Dialogs

\* A chat belongs to one dialog: that of the turn that stored it, of the turns that talk
\* to it, and of the file that it is saved to
OwnInv ==
    /\ \A d \in Dialogs : LLMChats[d] # Nil => Stored(LLMChats[d], pc) /\ dialog[LLMChats[d]] = d
    /\ \A t \in Turns : pc[t] \in {"store", "storing"} => llm[t] = t
    /\ \A t \in Turns : pc[t] \in Talking => Stored(llm[t], pc) /\ dialog[llm[t]] = dialog[t]
    /\ saver.pc # "idle" => /\ saver.at \in Dialogs
                            /\ Stored(saver.llm, pc) /\ dialog[saver.llm] = saver.at

\* Where no two turns met, one turn is at work, and what it and the saver talk about is
\* the chat in the map
AloneOK(d) ==
    /\ \A t, u \in Turns : AtWork(t) /\ AtWork(u) /\ dialog[t] = d /\ dialog[u] = d => t = u
    /\ \A t \in Turns : dialog[t] = d =>
          /\ pc[t] \in Loading => LLMChats[d] = Nil
          /\ pc[t] \in Talking => LLMChats[d] = llm[t]
    /\ saver.pc # "idle" /\ saver.at = d => LLMChats[d] = saver.llm
AloneInv == \A d \in Dialogs \ met : AloneOK(d)

\* No conversation is longer than the limit
LimitInv ==
    /\ \A t \in Turns : Len(chat[t].Messages) <= MessagesLenLimit
    /\ \A d \in Dialogs : Whole(d) => Len(file[d]) <= MessagesLenLimit
    /\ Len(saver.data) <= MessagesLenLimit

\* The conversation ends with the question of t; or goes on with answers to it
EndsWith(m, t) == Len(m) > 0 /\ m[Len(m)] = Line("user", t)
Asks(m, t) ==
    \E i \in 1..Len(m) : /\ m[i] = Line("user", t)
                         /\ \A j \in i + 1..Len(m) : m[j] = Line("assistant", t)

\* Where no two turns met, the turn knows the conversation as it is
TurnOK(t) ==
    /\ pc[t] \in {"store", "storing"} =>
          /\ chat[t].Messages = IF Whole(dialog[t]) THEN file[dialog[t]] ELSE <<>>
          /\ said[dialog[t]] = Lasting(dialog[t])
    /\ pc[t] \in {"write", "writeAnswer"} => held[t] = chat[llm[t]].Messages
    /\ pc[t] \in {"first", "second", "final", "readAnswer", "writeAnswer"} =>
          EndsWith(chat[llm[t]].Messages, t)
    /\ pc[t] = "second" => EndsWith(request[t], t)
    /\ pc[t] = "final" => Asks(request[t], t)
TurnInv == \A t \in Turns : AtWork(t) /\ dialog[t] \notin met => TurnOK(t)

\* Its conversation is in order, in memory, in the file and on the way there
OrderOK(d) ==
    /\ LLMChats[d] # Nil => InOrder(chat[LLMChats[d]].Messages)
    /\ Whole(d) => InOrder(file[d])
    /\ saver.pc # "idle" /\ saver.at = d => InOrder(saver.data)
OrderInv == \A d \in Dialogs \ met : OrderOK(d)

\* k was all that was said at some moment of s
Begins(k, s) == \E n \in 0..Len(s) : k = SubSeq(s, 1, n)

\* The chat, its file and the saver hold the newest lines of what was said, each as of its time
PastOK(d) ==
    /\ LLMChats[d] # Nil => chat[LLMChats[d]].Messages = Cut(said[d])
    /\ Whole(d) => file[d] = Cut(kept[d]) /\ Begins(kept[d], said[d])
    /\ saver.pc # "idle" /\ saver.at = d =>
          saver.data = Cut(saver.said) /\ Begins(saver.said, said[d])
PastInv == \A d \in Dialogs \ met : PastOK(d)

IInv == /\ TypeOK /\ FrameInv /\ OwnInv /\ AloneInv /\ LimitInv /\ TurnInv /\ OrderInv
        /\ PastInv

-----------------------------------------------------------------------------
(* Conversations *)

\* What deleteOldMessage leaves of a conversation of at most the limit and one more line
LEMMA SayFacts ==
    ASSUME NEW m \in Seq(Message), NEW x \in Message, Len(m) <= MessagesLenLimit
    PROVE  /\ Cut(Append(m, x)) \in Seq(Message)
           /\ Len(m) < MessagesLenLimit => Cut(Append(m, x)) = Append(m, x)
           /\ Len(m) = MessagesLenLimit =>
                 /\ Len(Cut(Append(m, x))) = Len(m)
                 /\ \A i \in 1..Len(m) : Cut(Append(m, x))[i] = Append(m, x)[i + 1]
<1> DEFINE a == Append(m, x)
<1>1. /\ a \in Seq(Message) /\ Len(a) = Len(m) + 1
      /\ Len(m) \in Nat /\ MessagesLenLimit \in Nat \ {0}
  BY LimitAssumption
<1>2. CASE Len(m) < MessagesLenLimit
  <2>1. ~(Len(a) > MessagesLenLimit) BY <1>1, <1>2
  <2> QED BY <2>1, <1>1, <1>2 DEF Cut
<1>3. CASE Len(m) = MessagesLenLimit
  <2>1. Len(a) > MessagesLenLimit /\ Len(a) - MessagesLenLimit + 1 = 2 BY <1>1, <1>3
  <2>2. Cut(a) = SubSeq(a, 2, Len(a)) BY <2>1 DEF Cut
  <2> HIDE DEF a
  <2>3. /\ SubSeq(a, 2, Len(a)) \in Seq(Message)
        /\ Len(SubSeq(a, 2, Len(a))) = Len(m)
        /\ \A i \in 1..Len(m) : SubSeq(a, 2, Len(a))[i] = a[i + 1]
    BY <1>1
  <2> QED BY <2>2, <2>3, <1>3 DEF a
<1> QED BY <1>1, <1>2, <1>3

\* The line that is said is the last one
LEMMA SayLast ==
    ASSUME NEW m \in Seq(Message), NEW x \in Message, Len(m) <= MessagesLenLimit
    PROVE  LET c == Cut(Append(m, x)) IN /\ Len(c) > 0 /\ c[Len(c)] = x
                                         /\ Len(c) <= MessagesLenLimit
<1>1. Len(m) \in Nat /\ MessagesLenLimit \in Nat \ {0} BY LimitAssumption
<1>2. /\ Len(Append(m, x)) = Len(m) + 1 /\ Append(m, x)[Len(m) + 1] = x
  OBVIOUS
<1>3. CASE Len(m) < MessagesLenLimit BY <1>1, <1>2, <1>3, SayFacts
<1>4. CASE Len(m) = MessagesLenLimit
  <2>1. Len(m) \in 1..Len(m) BY <1>1, <1>4
  <2>2. Len(Cut(Append(m, x))) = Len(m) BY <1>4, SayFacts
  <2>3. Cut(Append(m, x))[Len(m)] = Append(m, x)[Len(m) + 1] BY <1>4, <2>1, SayFacts
  <2> QED BY <1>1, <1>2, <1>4, <2>2, <2>3
<1> QED BY <1>1, <1>3, <1>4

\* A question may follow anything, an answer its question
LEMMA SayInOrder ==
    ASSUME NEW m \in Seq(Message), NEW x \in Message, Len(m) <= MessagesLenLimit,
           InOrder(m), x.who = "assistant" => EndsWith(m, x.of)
    PROVE  InOrder(Cut(Append(m, x)))
<1> DEFINE a == Append(m, x)
<1>1. Len(m) \in Nat /\ Len(a) = Len(m) + 1 /\ a \in Seq(Message) OBVIOUS
<1>2. ASSUME NEW i \in 2..Len(a), a[i].who = "assistant"
      PROVE  a[i - 1] = Line("user", a[i].of)
  <2>1. CASE i = Len(m) + 1
    <3>1. a[i] = x BY <2>1
    <3>2. EndsWith(m, x.of) BY <1>2, <3>1
    <3>3. a[i - 1] = m[Len(m)] BY <2>1, <3>2 DEF EndsWith
    <3> QED BY <3>1, <3>2, <3>3 DEF EndsWith
  <2>2. CASE i # Len(m) + 1
    <3>1. i \in 2..Len(m) BY <1>1, <2>2
    <3>2. a[i] = m[i] /\ a[i - 1] = m[i - 1] BY <3>1
    <3> QED BY <1>2, <3>1, <3>2 DEF InOrder
  <2> QED BY <2>1, <2>2
<1>3. CASE Len(m) < MessagesLenLimit
  <2>1. Cut(a) = a BY <1>3, SayFacts
  <2> QED BY <2>1, <1>2 DEF InOrder
<1>4. CASE Len(m) = MessagesLenLimit
  <2>1. Len(Cut(a)) = Len(m) /\ \A i \in 1..Len(m) : Cut(a)[i] = a[i + 1]
    BY <1>4, SayFacts
  <2> SUFFICES ASSUME NEW i \in 2..Len(m), Cut(a)[i].who = "assistant"
               PROVE  Cut(a)[i - 1] = Line("user", Cut(a)[i].of)
    BY <2>1 DEF InOrder
  <2> HIDE DEF a
  <2>2. i \in 1..Len(m) /\ i - 1 \in 1..Len(m) /\ i + 1 \in 2..Len(a) /\ (i - 1) + 1 = (i + 1) - 1
    BY <1>1
  <2>3. Cut(a)[i] = a[i + 1] /\ Cut(a)[i - 1] = a[(i + 1) - 1] BY <2>1, <2>2
  <2> QED BY <1>2, <2>2, <2>3
<1> QED BY <1>1, <1>3, <1>4, LimitAssumption

\* What deleteOldMessage leaves is the newest lines
LEMMA CutFacts ==
    ASSUME NEW s \in Seq(Message)
    PROVE  /\ Cut(s) \in Seq(Message) /\ Newest(Cut(s), s)
           /\ Cut(<<>>) = <<>>
<1>1. MessagesLenLimit \in Nat \ {0} /\ Len(s) \in Nat BY LimitAssumption
<1>4. Cut(<<>>) = <<>> BY <1>1 DEF Cut
<1>2. CASE Len(s) > MessagesLenLimit
  <2> DEFINE c == SubSeq(s, Len(s) - MessagesLenLimit + 1, Len(s))
  <2>1. c \in Seq(Message) /\ Len(c) = MessagesLenLimit BY <1>1, <1>2
  <2>2. Cut(s) = c BY <1>2 DEF Cut
  <2>3. c = SubSeq(s, Len(s) - Len(c) + 1, Len(s)) BY <2>1
  <2> HIDE DEF c
  <2>4. Newest(c, s) BY <1>2, <2>1, <2>3 DEF Newest
  <2> QED BY <1>4, <2>1, <2>2, <2>4
<1>3. CASE ~(Len(s) > MessagesLenLimit)
  <2>1. Cut(s) = s BY <1>3 DEF Cut
  <2>2. SubSeq(s, 1, Len(s)) = s OBVIOUS
  <2>3. Len(s) - Len(s) + 1 = 1 BY <1>1
  <2>4. Newest(s, s) BY <1>3, <2>2, <2>3 DEF Newest
  <2> QED BY <1>4, <2>1, <2>4
<1> QED BY <1>2, <1>3

\* It makes no difference whether old lines were cut before
LEMMA CutTwice ==
    ASSUME NEW s \in Seq(Message), NEW x \in Message
    PROVE  Cut(Append(Cut(s), x)) = Cut(Append(s, x))
<1> DEFINE L == MessagesLenLimit
           a == Append(s, x)
<1>1. L \in Nat \ {0} /\ Len(s) \in Nat BY LimitAssumption
<1>2. a \in Seq(Message) /\ Len(a) = Len(s) + 1
      /\ (\A i \in 1..Len(s) : a[i] = s[i]) /\ a[Len(s) + 1] = x
  OBVIOUS
<1>3. CASE ~(Len(s) > L) BY <1>3 DEF Cut
<1>4. CASE Len(s) > L
  <2> DEFINE c == SubSeq(s, Len(s) - L + 1, Len(s))
             b == Append(c, x)
             p == SubSeq(b, 2, Len(b))
             q == SubSeq(a, Len(a) - L + 1, Len(a))
  <2>1. /\ c \in Seq(Message) /\ Len(c) = L
        /\ \A i \in 1..L : c[i] = s[Len(s) - L + i]
    BY <1>1, <1>4
  <2>2. Cut(s) = c BY <1>4 DEF Cut
  <2> HIDE DEF c
  <2>3. /\ b \in Seq(Message) /\ Len(b) = L + 1
        /\ (\A i \in 1..L : b[i] = c[i]) /\ b[L + 1] = x
    BY <1>1, <2>1
  <2> HIDE DEF b, a
  <2>4. Len(b) > L /\ Len(b) - L + 1 = 2 /\ Len(a) > L BY <1>1, <1>2, <1>4, <2>3
  <2>5. Cut(b) = p /\ Cut(a) = q BY <2>4 DEF Cut
  <2>6. p \in Seq(Message) /\ Len(p) = L /\ \A i \in 1..L : p[i] = b[i + 1]
    BY <1>1, <2>3
  <2>7. q \in Seq(Message) /\ Len(q) = L /\ \A i \in 1..L : q[i] = a[Len(a) - L + i]
    BY <1>1, <1>2, <1>4
  <2> HIDE DEF p, q
  <2>8. ASSUME NEW i \in 1..L PROVE p[i] = q[i]
    <3>1. CASE i = L
      <4>1. Len(a) - L + L = Len(s) + 1 BY <1>1, <1>2
      <4> QED BY <1>2, <2>3, <2>6, <2>7, <2>8, <3>1, <4>1
    <3>2. CASE i # L
      <4>1. /\ i + 1 \in 1..L /\ Len(s) - L + (i + 1) \in 1..Len(s)
            /\ Len(a) - L + i = Len(s) - L + (i + 1)
        BY <1>1, <1>2, <1>4, <3>2
      <4>2. p[i] = s[Len(s) - L + (i + 1)] BY <2>1, <2>3, <2>6, <4>1
      <4>3. q[i] = a[Len(s) - L + (i + 1)] BY <2>7, <4>1
      <4> QED BY <1>2, <4>1, <4>2, <4>3
    <3> QED BY <3>1, <3>2
  <2>9. p = q BY <2>6, <2>7, <2>8, SeqEqual
  <2> QED BY <2>2, <2>5, <2>9 DEF b, a
<1> QED BY <1>3, <1>4

\* What is said now begins what is said later
LEMMA BeginsFacts ==
    ASSUME NEW s \in Seq(Message)
    PROVE  /\ Begins(s, s)
           /\ \A k, x : x \in Message /\ Begins(k, s) => Begins(k, Append(s, x))
<1>1. Len(s) \in 0..Len(s) /\ SubSeq(s, 1, Len(s)) = s OBVIOUS
<1>2. ASSUME NEW k, NEW x \in Message, Begins(k, s) PROVE Begins(k, Append(s, x))
  <2> DEFINE a == Append(s, x)
  <2>1. PICK n \in 0..Len(s) : k = SubSeq(s, 1, n) BY <1>2 DEF Begins
  <2>2. a \in Seq(Message) /\ Len(a) = Len(s) + 1 /\ \A i \in 1..Len(s) : a[i] = s[i]
    OBVIOUS
  <2> DEFINE p == SubSeq(s, 1, n)
             q == SubSeq(a, 1, n)
  <2> HIDE DEF a
  <2>3. n \in 0..Len(a) /\ n \in Nat /\ n <= Len(s) BY <2>2
  <2>4. p \in Seq(Message) /\ Len(p) = n /\ \A i \in 1..n : p[i] = s[i] BY <2>3
  <2>5. q \in Seq(Message) /\ Len(q) = n /\ \A i \in 1..n : q[i] = a[i] BY <2>2, <2>3
  <2>6. \A i \in 1..n : p[i] = q[i] BY <2>2, <2>3, <2>4, <2>5
  <2> HIDE DEF p, q
  <2>7. p = q BY <2>4, <2>5, <2>6, SeqEqual
  <2> QED BY <2>1, <2>3, <2>7 DEF Begins, a, p, q
<1> QED BY <1>1, <1>2 DEF Begins

-----------------------------------------------------------------------------
(* Types *)

\* Lines and chats are of their types
LEMMA KindFacts ==
    /\ \A t \in Turns : Line("user", t) \in Message /\ Line("assistant", t) \in Message
    /\ \A m \in Seq(Message), x \in Message : Cut(Append(m, x)) \in Seq(Message)
    /\ NewLLMChat \in OpenaiChatLLM
    /\ \A o \in OpenaiChatLLM, m \in Seq(Message) :
          /\ o.Messages \in Seq(Message)
          /\ [o EXCEPT !.Messages = m] \in OpenaiChatLLM
          /\ [o EXCEPT !.LastSavedContentMd5 = m] \in OpenaiChatLLM
<1>1. \A t \in Turns : Line("user", t) \in Message /\ Line("assistant", t) \in Message
  BY DEF Line, Message
<1>2. ASSUME NEW m \in Seq(Message), NEW x \in Message PROVE Cut(Append(m, x)) \in Seq(Message)
  <2> DEFINE a == Append(m, x)
  <2>1. a \in Seq(Message) /\ Len(a) \in Nat /\ MessagesLenLimit \in Nat \ {0}
    BY LimitAssumption
  <2> HIDE DEF a
  <2>2. Cut(a) \in Seq(Message) BY <2>1 DEF Cut
  <2> QED BY <2>2 DEF a
<1>3. NewLLMChat \in OpenaiChatLLM
  BY DEF NewLLMChat, OpenaiChatLLM
<1>4. ASSUME NEW o \in OpenaiChatLLM, NEW m \in Seq(Message)
      PROVE  /\ o.Messages \in Seq(Message)
             /\ [o EXCEPT !.Messages = m] \in OpenaiChatLLM
             /\ [o EXCEPT !.LastSavedContentMd5 = m] \in OpenaiChatLLM
  BY DEF OpenaiChatLLM
<1> QED BY <1>1, <1>2, <1>3, <1>4

\* What a fault does to its counter
LEMMA FaultFacts == ASSUME faults \in 0..MaxFaults, Fault PROVE faults' \in 0..MaxFaults
BY FaultAssumption DEF Fault

\* Every step keeps every type
LEMMA TypeStep ==
    ASSUME TypeOK, FrameInv, OwnInv, [Next]_vars
    PROVE  TypeOK'
<1> USE DEF TypeOK, handlers, chats, disk, GoTo, At, PCs
<1>1. ASSUME NEW t \in Turns, HandleExpertRequestMessage(t) PROVE TypeOK'
  <2>1. pc' \in [Turns -> PCs] BY <1>1 DEF HandleExpertRequestMessage
  <2>2. dialog' \in [Turns -> Dialogs \cup {Nil}] BY <1>1 DEF HandleExpertRequestMessage
  <2>3. met' \subseteq Dialogs BY <1>1 DEF HandleExpertRequestMessage
  <2> QED BY <1>1, <2>1, <2>2, <2>3 DEF HandleExpertRequestMessage
<1>2. ASSUME NEW t \in Turns, Lookup(t) PROVE TypeOK'
  <2>1. dialog[t] \in Dialogs BY <1>2 DEF Lookup, FrameInv, AtWork
  <2>2. LLMChats[dialog[t]] \in Turns \cup {Nil} BY <2>1
  <2> QED BY <1>2, <2>2 DEF Lookup
<1>3. ASSUME NEW t \in Turns, LookupThrows(t) PROVE TypeOK'
  BY <1>3 DEF LookupThrows
<1>4. ASSUME NEW t \in Turns, LoadOrNew(t) PROVE TypeOK'
  <2>1. dialog[t] \in Dialogs BY <1>4 DEF LoadOrNew, FrameInv, AtWork
  <2>2. Restored(dialog[t]) \in OpenaiChatLLM
    BY <2>1, KindFacts DEF Restored, OpenaiChatLLM
  <2>3. said' \in [Dialogs -> Seq(Message)]
    <3>1. Lasting(dialog[t]) \in Seq(Message) BY <2>1 DEF Lasting
    <3> QED BY <1>4, <3>1 DEF LoadOrNew
  <2> QED BY <1>4, <2>2, <2>3 DEF LoadOrNew
<1>5. ASSUME NEW t \in Turns, StoreBegin(t) PROVE TypeOK'
  BY <1>5 DEF StoreBegin
<1>6. ASSUME NEW t \in Turns, StoreEnd(t) PROVE TypeOK'
  BY <1>6 DEF StoreEnd
<1>7. ASSUME NEW t \in Turns, ReadMessages(t) PROVE TypeOK'
  <2>1. llm[t] \in Turns BY <1>7 DEF ReadMessages, OwnInv, Stored, Talking
  <2>2. chat[llm[t]].Messages \in Seq(Message) BY <2>1 DEF OpenaiChatLLM
  <2>3. pc' \in [Turns -> PCs] /\ held' \in [Turns -> Seq(Message)]
    BY <1>7, <2>2 DEF ReadMessages
  <2> QED BY <1>7, <2>3 DEF ReadMessages
<1>8. ASSUME NEW t \in Turns, NEW who \in {"user", "assistant"}, Say(t, who), pc' \in [Turns -> PCs],
             pc[t] \in Talking
      PROVE  TypeOK'
  <2>1. llm[t] \in Turns BY <1>8 DEF OwnInv, Stored
  <2>2. Cut(Append(held[t], Line(who, t))) \in Seq(Message) BY KindFacts
  <2>3. chat' \in [Turns -> OpenaiChatLLM]
    <3>1. [chat[llm[t]] EXCEPT !.Messages = Cut(Append(held[t], Line(who, t)))] \in OpenaiChatLLM
      BY <2>1, <2>2, KindFacts
    <3> QED BY <1>8, <3>1 DEF Say
  <2>4. said' \in [Dialogs -> Seq(Message)]
    <3>1. dialog[t] \in Dialogs BY <1>8 DEF FrameInv, AtWork, Talking
    <3>3. Line(who, t) \in Message BY KindFacts
    <3>2. Append(said[dialog[t]], Line(who, t)) \in Seq(Message) BY <3>1, <3>3
    <3> QED BY <1>8, <3>1, <3>2 DEF Say
  <2> QED BY <1>8, <2>3, <2>4 DEF Say
<1>9. ASSUME NEW t \in Turns, WriteQuestion(t) PROVE TypeOK'
  BY <1>8, <1>9 DEF WriteQuestion, Talking
<1>10. ASSUME NEW t \in Turns, WriteAnswer(t) PROVE TypeOK'
  BY <1>8, <1>10 DEF WriteAnswer, Talking
<1>11. ASSUME NEW t \in Turns, FirstRequest(t) PROVE TypeOK'
  <2>1. llm[t] \in Turns BY <1>11 DEF FirstRequest, OwnInv, Stored, Talking
  <2>2. chat[llm[t]].Messages \in Seq(Message) BY <2>1 DEF OpenaiChatLLM
  <2>3. pc' \in [Turns -> PCs] /\ request' \in [Turns -> Seq(Message)]
    BY <1>11, <2>2 DEF FirstRequest
  <2> QED BY <1>11, <2>3 DEF FirstRequest
<1>12. ASSUME NEW t \in Turns, SecondRequest(t) PROVE TypeOK'
  <2>1. Append(request[t], Line("assistant", t)) \in Seq(Message) BY KindFacts
  <2> QED BY <1>12, <2>1 DEF SecondRequest
<1>13. ASSUME NEW t \in Turns, FinalRequest(t) PROVE TypeOK'
  <2>1. faults' \in 0..MaxFaults /\ failed' \subseteq Turns
    BY <1>13, FaultFacts DEF FinalRequest
  <2>2. reply' \in [Turns -> {"none", "useless", "user", "demand"}] BY <1>13 DEF FinalRequest
  <2>3. pc' \in [Turns -> PCs] /\ request' \in [Turns -> Seq(Message)]
    BY <1>13 DEF FinalRequest
  <2> QED BY <1>13, <2>1, <2>2, <2>3 DEF FinalRequest
<1>14. ASSUME NEW t \in Turns, RequestFails(t) PROVE TypeOK'
  <2>1. faults' \in 0..MaxFaults /\ failed' \subseteq Turns
    <3>1. Fault \/ UNCHANGED faults BY <1>14 DEF RequestFails
    <3>2. failed' = failed \cup {t} BY <1>14 DEF RequestFails
    <3> QED BY <3>1, <3>2, FaultFacts
  <2>2. pc' \in [Turns -> PCs] BY <1>14 DEF RequestFails
  <2>3. request' \in [Turns -> Seq(Message)] BY <1>14 DEF RequestFails
  <2> QED BY <1>14, <2>1, <2>2, <2>3 DEF RequestFails
<1>15. ASSUME NEW d \in Dialogs, SaveChat(d) PROVE TypeOK'
  BY <1>15 DEF SaveChat
<1>16. CASE SaveThrows BY <1>16 DEF SaveThrows
<1>17. CASE Truncate
  <2>1. \A d \in Dialogs : file'[d] = file[d] \/ file'[d] = Begun
    BY <1>17 DEF Truncate, FrameInv
  <2> QED BY <1>17, <2>1 DEF Truncate, FrameInv
<1>18. CASE WriteFile
  <2>1. saver.data \in Seq(Message) /\ saver.llm \in Turns
    BY <1>18 DEF WriteFile, FrameInv, OwnInv, Stored
  <2>2. \A d \in Dialogs : file'[d] = file[d] \/ file'[d] = saver.data
    BY <1>18 DEF WriteFile, FrameInv
  <2>3. chat' \in [Turns -> OpenaiChatLLM]
    <3>1. [chat[saver.llm] EXCEPT !.LastSavedContentMd5 = saver.data] \in OpenaiChatLLM
      BY <2>1, KindFacts
    <3> QED BY <1>18, <3>1 DEF WriteFile
  <2>4. kept' \in [Dialogs -> Seq(Message)]
    <3>1. saver.said \in Seq(Message) BY DEF FrameInv
    <3> QED BY <1>18, <3>1 DEF WriteFile
  <2> QED BY <1>18, <2>1, <2>2, <2>3, <2>4 DEF WriteFile, IdleSaver
<1>19. CASE WriteFails BY <1>19, FaultFacts DEF WriteFails, IdleSaver
<1>20. CASE Restart
  <2>1. pc' \in [Turns -> PCs] /\ failed' \subseteq Turns /\ LLMChats' \in [Dialogs -> Turns \cup {Nil}]
    BY <1>20 DEF Restart
  <2> QED BY <1>20, <2>1, FaultFacts DEF Restart, IdleSaver
<1>21. CASE UNCHANGED vars BY <1>21 DEF vars
<1> HIDE DEF TypeOK
<1> QED
  BY <1>1, <1>2, <1>3, <1>4, <1>5, <1>6, <1>7, <1>9, <1>10, <1>11, <1>12, <1>13, <1>14, <1>15,
     <1>16, <1>17, <1>18, <1>19, <1>20, <1>21
  DEF Next, Step, Request, Save

-----------------------------------------------------------------------------
(* Chats and their dialogs *)

\* A step of a turn moves that turn alone
LEMMA OneMoves ==
    ASSUME TypeOK, NEW t \in Turns, Step(t) \/ Request(t)
    PROVE  /\ pc' = [pc EXCEPT ![t] = pc'[t]] /\ dialog' = dialog /\ met' = met
           /\ AtWork(t) /\ pc'[t] # "unsent"
           /\ pc[t] \in Talking => pc'[t] \in Talking \cup {"done"}
           /\ file' = file /\ saver' = saver /\ kept' = kept
<1> USE DEF TypeOK, At, GoTo, AtWork, Talking, chats, disk
<1>1. CASE Lookup(t) BY <1>1 DEF Lookup
<1>2. CASE LoadOrNew(t) BY <1>2 DEF LoadOrNew
<1>3. CASE StoreBegin(t) BY <1>3 DEF StoreBegin
<1>4. CASE StoreEnd(t) BY <1>4 DEF StoreEnd
<1>5. CASE ReadMessages(t) BY <1>5 DEF ReadMessages
<1>6. CASE WriteQuestion(t) BY <1>6 DEF WriteQuestion, Say
<1>7. CASE WriteAnswer(t) BY <1>7 DEF WriteAnswer, Say
<1>8. CASE FirstRequest(t) BY <1>8 DEF FirstRequest
<1>9. CASE SecondRequest(t) BY <1>9 DEF SecondRequest
<1>10. CASE FinalRequest(t) BY <1>10 DEF FinalRequest
<1>11. CASE RequestFails(t) BY <1>11 DEF RequestFails
<1> QED
  BY <1>1, <1>2, <1>3, <1>4, <1>5, <1>6, <1>7, <1>8, <1>9, <1>10, <1>11 DEF Step, Request

\* What else happens leaves the turns where they are, or starts one, or ends them all
Rest == Save \/ SaveThrows \/ WriteFails \/ UNCHANGED vars
     \/ \E t \in Turns : LookupThrows(t)
LEMMA RestFacts ==
    ASSUME Rest
    PROVE  UNCHANGED <<pc, dialog, llm, held, request, LLMChats, said, met>>
<1> USE DEF handlers, chats, disk
<1>1. ASSUME NEW d \in Dialogs, SaveChat(d)
      PROVE  UNCHANGED <<pc, dialog, llm, held, request, LLMChats, said, met>>
  BY <1>1 DEF SaveChat
<1>2. CASE Truncate BY <1>2 DEF Truncate
<1>3. CASE WriteFile BY <1>3 DEF WriteFile
<1>4. CASE SaveThrows BY <1>4 DEF SaveThrows
<1>5. CASE WriteFails BY <1>5 DEF WriteFails
<1>6. CASE UNCHANGED vars BY <1>6 DEF vars
<1>7. ASSUME NEW t \in Turns, LookupThrows(t)
      PROVE  UNCHANGED <<pc, dialog, llm, held, request, LLMChats, said, met>>
  BY <1>7 DEF LookupThrows
<1> QED BY <1>1, <1>2, <1>3, <1>4, <1>5, <1>6, <1>7 DEF Rest, Save

\* A stored chat stays stored, under its dialog
LEMMA StoredStep ==
    ASSUME TypeOK, [Next]_vars
    PROVE  \A o : Stored(o, pc) => Stored(o, pc') /\ dialog'[o] = dialog[o]
<1> SUFFICES ASSUME NEW o, Stored(o, pc)
             PROVE  Stored(o, pc') /\ dialog'[o] = dialog[o]
  OBVIOUS
<1>1. ASSUME NEW t \in Turns, HandleExpertRequestMessage(t)
      PROVE  Stored(o, pc') /\ dialog'[o] = dialog[o]
  <2>1. o # t BY <1>1 DEF HandleExpertRequestMessage, Stored, Talking
  <2>2. pc'[o] = pc[o] /\ dialog'[o] = dialog[o]
    BY <1>1, <2>1 DEF HandleExpertRequestMessage, TypeOK, GoTo, Stored
  <2> QED BY <2>2 DEF Stored
<1>2. ASSUME NEW t \in Turns, Step(t) \/ Request(t)
      PROVE  Stored(o, pc') /\ dialog'[o] = dialog[o]
  <2>1. CASE o = t BY <1>2, <2>1, OneMoves DEF Stored, AtWork
  <2>2. CASE o # t
    <3>1. pc'[o] = pc[o] BY <1>2, <2>2, OneMoves DEF TypeOK, Stored
    <3> QED BY <1>2, <3>1, OneMoves DEF Stored
  <2> QED BY <2>1, <2>2
<1>3. CASE Rest BY <1>3, RestFacts DEF Stored
<1>4. CASE Restart
  <2>1. dialog' = dialog /\ pc' = [t \in Turns |-> IF AtWork(t) THEN "done" ELSE pc[t]]
    BY <1>4 DEF Restart
  <2>2. pc'[o] \in {pc[o], "done"} BY <2>1 DEF Stored
  <2> QED BY <2>1, <2>2 DEF Stored
<1> QED BY <1>1, <1>2, <1>3, <1>4 DEF Next, Rest

\* Every step keeps the frame
LEMMA FrameStep ==
    ASSUME TypeOK, FrameInv, OwnInv, [Next]_vars
    PROVE  FrameInv'
<1>1. file' = [d \in Dialogs |-> file'[d]]
  <2>1. CASE Truncate BY <2>1 DEF Truncate, FrameInv
  <2>2. CASE WriteFile BY <2>2 DEF WriteFile, FrameInv
  <2>3. file' = file \/ Truncate \/ WriteFile
    <3>1. ASSUME NEW t \in Turns, HandleExpertRequestMessage(t) PROVE file' = file
      BY <3>1 DEF HandleExpertRequestMessage, disk
    <3>2. ASSUME NEW t \in Turns, LookupThrows(t) PROVE file' = file
      BY <3>2 DEF LookupThrows, disk
    <3>3. ASSUME NEW d \in Dialogs, SaveChat(d) PROVE file' = file BY <3>3 DEF SaveChat
    <3>4. SaveThrows \/ WriteFails \/ Restart \/ UNCHANGED vars => file' = file
      BY DEF SaveThrows, WriteFails, Restart, vars, disk
    <3> QED BY <3>1, <3>2, <3>3, <3>4, OneMoves DEF Next, Save
  <2> QED BY <2>1, <2>2, <2>3 DEF FrameInv
<1>2. saver' \in [pc : {"idle", "open", "write"}, at : Dialogs \cup {Nil},
                  llm : Turns \cup {Nil}, data : Seq(Message), said : Seq(Message)]
  <2> DEFINE T == [pc : {"idle", "open", "write"}, at : Dialogs \cup {Nil},
                   llm : Turns \cup {Nil}, data : Seq(Message), said : Seq(Message)]
  <2>1. saver \in T BY DEF FrameInv
  <2>2. IdleSaver \in T BY DEF IdleSaver
  <2>3. ASSUME NEW t \in Turns, HandleExpertRequestMessage(t) PROVE saver' = saver
    BY <2>3 DEF HandleExpertRequestMessage, disk
  <2>4. ASSUME NEW t \in Turns, LookupThrows(t) PROVE saver' = saver
    BY <2>4 DEF LookupThrows, disk
  <2>5. ASSUME NEW d \in Dialogs, SaveChat(d) PROVE saver' \in T
    <3>1. LLMChats[d] \in Turns BY <2>5 DEF SaveChat, TypeOK
    <3>2. chat[LLMChats[d]].Messages \in Seq(Message) BY <3>1 DEF TypeOK, OpenaiChatLLM
    <3>3. said[d] \in Seq(Message) BY DEF TypeOK
    <3> QED BY <2>5, <3>1, <3>2, <3>3 DEF SaveChat
  <2>6. ASSUME Truncate PROVE saver' \in T BY <2>1, <2>6 DEF Truncate
  <2>7. WriteFile \/ WriteFails \/ Restart => saver' = IdleSaver
    BY DEF WriteFile, WriteFails, Restart
  <2>8. SaveThrows \/ UNCHANGED vars => saver' = saver BY DEF SaveThrows, vars, disk
  <2> HIDE DEF T
  <2>9. ASSUME NEW t \in Turns, Step(t) \/ Request(t) PROVE saver' = saver BY <2>9, OneMoves
  <2>10. saver' \in T
    BY <2>1, <2>2, <2>3, <2>4, <2>5, <2>6, <2>7, <2>8, <2>9 DEF Next, Save
  <2> QED BY <2>10 DEF T
<1>3. ASSUME NEW u \in Turns, AtWork(u)' PROVE dialog'[u] \in Dialogs
  <2>1. ASSUME NEW t \in Turns, HandleExpertRequestMessage(t) PROVE dialog'[u] \in Dialogs
    <3>1. CASE u = t
      <4>1. \/ pc' = [pc EXCEPT ![t] = "done"]
            \/ \E d \in Dialogs : dialog' = [dialog EXCEPT ![t] = d]
        BY <2>1 DEF HandleExpertRequestMessage, GoTo
      <4> QED BY <1>3, <3>1, <4>1 DEF TypeOK, AtWork
    <3>2. CASE u # t
      <4>1. pc'[u] = pc[u] /\ dialog'[u] = dialog[u]
        BY <2>1, <3>2 DEF HandleExpertRequestMessage, GoTo, TypeOK
      <4> QED BY <1>3, <4>1 DEF FrameInv, AtWork
    <3> QED BY <3>1, <3>2
  <2>2. ASSUME NEW t \in Turns, Step(t) \/ Request(t) PROVE dialog'[u] \in Dialogs
    <3>1. dialog' = dialog /\ pc' = [pc EXCEPT ![t] = pc'[t]] /\ AtWork(t) BY <2>2, OneMoves
    <3>2. AtWork(u)
      <4>1. CASE u = t BY <3>1, <4>1
      <4>2. CASE u # t
        <5>1. pc'[u] = pc[u] BY <3>1, <4>2 DEF TypeOK
        <5> QED BY <1>3, <5>1 DEF AtWork
      <4> QED BY <4>1, <4>2
    <3> QED BY <3>1, <3>2 DEF FrameInv
  <2>3. CASE Rest BY <1>3, <2>3, RestFacts DEF FrameInv, AtWork
  <2>4. CASE Restart BY <1>3, <2>4 DEF Restart, FrameInv, AtWork
  <2> QED BY <2>1, <2>2, <2>3, <2>4 DEF Next, Rest
<1> QED BY <1>1, <1>2, <1>3 DEF FrameInv

\* Every step keeps chats apart
LEMMA OwnStep ==
    ASSUME TypeOK, FrameInv, OwnInv, [Next]_vars
    PROVE  OwnInv'
<1>1. ASSUME NEW d \in Dialogs, LLMChats'[d] # Nil
      PROVE  Stored(LLMChats'[d], pc') /\ dialog'[LLMChats'[d]] = d
  <2>1. CASE LLMChats'[d] = LLMChats[d] BY <1>1, <2>1, StoredStep DEF OwnInv
  <2>2. ASSUME NEW t \in Turns, StoreEnd(t), LLMChats'[d] # LLMChats[d]
        PROVE  Stored(LLMChats'[d], pc') /\ dialog'[LLMChats'[d]] = d
    <3>1. LLMChats'[d] = t /\ dialog[t] = d /\ dialog' = dialog
      BY <2>2 DEF StoreEnd, TypeOK
    <3>2. pc'[t] = "read" BY <2>2 DEF StoreEnd, At, GoTo, TypeOK
    <3> QED BY <3>1, <3>2 DEF Stored, Talking
  <2>3. ASSUME NEW t \in Turns, HandleExpertRequestMessage(t) PROVE LLMChats' = LLMChats
    BY <2>3 DEF HandleExpertRequestMessage, chats
  <2>4. ASSUME NEW t \in Turns, Step(t) \/ Request(t), ~StoreEnd(t) PROVE LLMChats' = LLMChats
    BY <2>4 DEF Step, Request, Lookup, LoadOrNew, StoreBegin, ReadMessages, WriteQuestion,
       WriteAnswer, Say, FirstRequest, SecondRequest, FinalRequest, RequestFails, chats
  <2>5. CASE Restart BY <1>1, <2>5 DEF Restart
  <2> QED BY <2>1, <2>2, <2>3, <2>4, <2>5, RestFacts DEF Next, Rest
<1>2. ASSUME NEW u \in Turns, pc'[u] \in {"store", "storing"} PROVE llm'[u] = u
  <2>1. ASSUME NEW t \in Turns, HandleExpertRequestMessage(t) PROVE llm'[u] = u
    <3>1. pc[u] = pc'[u] /\ llm' = llm
      BY <1>2, <2>1 DEF HandleExpertRequestMessage, GoTo, TypeOK
    <3> QED BY <1>2, <3>1 DEF OwnInv
  <2>2. ASSUME NEW t \in Turns, Step(t) \/ Request(t), u # t PROVE llm'[u] = u
    <3>1. pc[u] = pc'[u] BY <2>2, OneMoves DEF TypeOK
    <3>2. llm'[u] = llm[u]
      BY <2>2 DEF Step, Request, Lookup, LoadOrNew, StoreBegin, StoreEnd, ReadMessages,
         WriteQuestion, WriteAnswer, Say, FirstRequest, SecondRequest, FinalRequest,
         RequestFails, TypeOK
    <3> QED BY <1>2, <3>1, <3>2 DEF OwnInv
  <2>3. CASE LoadOrNew(u) BY <2>3 DEF LoadOrNew, TypeOK
  <2>4. CASE StoreBegin(u) BY <2>4 DEF StoreBegin, At, OwnInv
  <2>5. ASSUME Step(u) \/ Request(u), ~LoadOrNew(u), ~StoreBegin(u) PROVE FALSE
    BY <1>2, <2>5 DEF Step, Request, Lookup, StoreEnd, ReadMessages, WriteQuestion,
       WriteAnswer, FirstRequest, SecondRequest, FinalRequest, RequestFails, At, GoTo, TypeOK
  <2>6. CASE Rest BY <1>2, <2>6, RestFacts DEF OwnInv
  <2>7. CASE Restart BY <1>2, <2>7 DEF Restart, AtWork
  <2> QED BY <2>1, <2>2, <2>3, <2>4, <2>5, <2>6, <2>7 DEF Next, Rest
<1>3. ASSUME NEW u \in Turns, pc'[u] \in Talking
      PROVE  Stored(llm'[u], pc') /\ dialog'[llm'[u]] = dialog'[u]
  <2>1. ASSUME pc[u] \in Talking, llm'[u] = llm[u], dialog'[u] = dialog[u]
        PROVE  Stored(llm'[u], pc') /\ dialog'[llm'[u]] = dialog'[u]
    <3>1. Stored(llm[u], pc) /\ dialog[llm[u]] = dialog[u] BY <2>1 DEF OwnInv
    <3>2. Stored(llm[u], pc') /\ dialog'[llm[u]] = dialog[llm[u]] BY <3>1, StoredStep
    <3> QED BY <2>1, <3>1, <3>2 DEF Stored
  <2>2. ASSUME NEW t \in Turns, HandleExpertRequestMessage(t)
        PROVE  pc[u] \in Talking /\ llm'[u] = llm[u] /\ dialog'[u] = dialog[u]
    <3>1. u # t BY <1>3, <2>2 DEF HandleExpertRequestMessage, GoTo, TypeOK, Talking
    <3> QED BY <1>3, <2>2, <3>1 DEF HandleExpertRequestMessage, GoTo, TypeOK
  <2>3. ASSUME NEW t \in Turns, Step(t) \/ Request(t), u # t
        PROVE  pc[u] \in Talking /\ llm'[u] = llm[u] /\ dialog'[u] = dialog[u]
    <3>1. pc[u] = pc'[u] /\ dialog' = dialog BY <2>3, OneMoves DEF TypeOK
    <3>2. llm'[u] = llm[u]
      BY <2>3 DEF Step, Request, Lookup, LoadOrNew, StoreBegin, StoreEnd, ReadMessages,
         WriteQuestion, WriteAnswer, Say, FirstRequest, SecondRequest, FinalRequest,
         RequestFails, TypeOK
    <3> QED BY <1>3, <3>1, <3>2
  <2>4. CASE Lookup(u)
    <3>1. dialog[u] \in Dialogs /\ dialog' = dialog BY <2>4 DEF Lookup, At, FrameInv, AtWork
    <3>2. llm'[u] = LLMChats[dialog[u]] /\ LLMChats[dialog[u]] # Nil
      BY <1>3, <2>4 DEF Lookup, At, GoTo, TypeOK, Talking
    <3>3. Stored(llm'[u], pc) /\ dialog[llm'[u]] = dialog[u] BY <3>1, <3>2 DEF OwnInv
    <3>4. Stored(llm'[u], pc') BY <3>2, <3>3, StoredStep DEF Stored
    <3> QED BY <3>1, <3>3, <3>4
  <2>5. CASE StoreEnd(u)
    <3>1. pc[u] = "storing" /\ pc'[u] = "read" /\ llm' = llm /\ dialog' = dialog
      BY <2>5 DEF StoreEnd, At, GoTo, TypeOK
    <3>2. llm'[u] = u BY <3>1 DEF OwnInv
    <3> QED BY <3>1, <3>2 DEF Stored, Talking
  <2>6. ASSUME Step(u) \/ Request(u), ~Lookup(u), ~StoreEnd(u)
        PROVE  pc[u] \in Talking /\ llm'[u] = llm[u] /\ dialog'[u] = dialog[u]
    BY <1>3, <2>6 DEF Step, Request, LoadOrNew, StoreBegin, ReadMessages, WriteQuestion,
       WriteAnswer, Say, FirstRequest, SecondRequest, FinalRequest, RequestFails, At, GoTo,
       TypeOK, Talking
  <2>7. CASE Rest BY <1>3, <2>1, <2>7, RestFacts
  <2>8. Restart => FALSE BY <1>3 DEF Restart, AtWork, Talking
  <2> QED BY <2>1, <2>2, <2>3, <2>4, <2>5, <2>6, <2>7, <2>8 DEF Next, Rest
<1>4. ASSUME saver'.pc # "idle"
      PROVE  saver'.at \in Dialogs /\ Stored(saver'.llm, pc') /\ dialog'[saver'.llm] = saver'.at
  <2>1. ASSUME saver.pc # "idle", saver'.at = saver.at, saver'.llm = saver.llm
        PROVE  saver'.at \in Dialogs /\ Stored(saver'.llm, pc') /\ dialog'[saver'.llm] = saver'.at
    <3>1. saver.at \in Dialogs /\ Stored(saver.llm, pc) /\ dialog[saver.llm] = saver.at
      BY <2>1 DEF OwnInv
    <3>2. Stored(saver.llm, pc') /\ dialog'[saver.llm] = dialog[saver.llm] BY <3>1, StoredStep
    <3> QED BY <2>1, <3>1, <3>2 DEF Stored
  <2>2. ASSUME NEW d \in Dialogs, SaveChat(d)
        PROVE  saver'.at \in Dialogs /\ Stored(saver'.llm, pc') /\ dialog'[saver'.llm] = saver'.at
    <3>1. /\ saver'.at = d /\ saver'.llm = LLMChats[d] /\ LLMChats[d] # Nil
          /\ pc' = pc /\ dialog' = dialog
      BY <2>2 DEF SaveChat, handlers
    <3>2. Stored(LLMChats[d], pc) /\ dialog[LLMChats[d]] = d BY <3>1 DEF OwnInv
    <3> QED BY <3>1, <3>2 DEF Stored
  <2>3. CASE Truncate BY <1>4, <2>1, <2>3 DEF Truncate, FrameInv
  <2>4. WriteFile \/ WriteFails \/ Restart => FALSE
    BY <1>4 DEF WriteFile, WriteFails, Restart, IdleSaver
  <2>5. ASSUME NEW t \in Turns, HandleExpertRequestMessage(t) PROVE saver' = saver
    BY <2>5 DEF HandleExpertRequestMessage, disk
  <2>6. ASSUME NEW t \in Turns, LookupThrows(t) PROVE saver' = saver
    BY <2>6 DEF LookupThrows, disk
  <2>7. SaveThrows \/ UNCHANGED vars => saver' = saver BY DEF SaveThrows, vars, disk
  <2> QED BY <1>4, <2>1, <2>2, <2>3, <2>4, <2>5, <2>6, <2>7, OneMoves DEF Next, Save
<1> QED BY <1>1, <1>2, <1>3, <1>4 DEF OwnInv, Stored

-----------------------------------------------------------------------------
(* Dialogs in which no two turns meet *)

\* Every step keeps such a dialog with one turn and one chat
LEMMA AloneStep ==
    ASSUME TypeOK, FrameInv, OwnInv, AloneInv, [Next]_vars
    PROVE  AloneInv'
<1> USE NamesAssumption
<1> SUFFICES ASSUME NEW d \in Dialogs, d \notin met' PROVE AloneOK(d)'
  BY DEF AloneInv
<1> DEFINE Lone == \A t, u \in Turns : AtWork(t) /\ AtWork(u) /\ dialog[t] = d /\ dialog[u] = d => t = u
           Known(u) == /\ pc[u] \in Loading => LLMChats[d] = Nil
                       /\ pc[u] \in Talking => LLMChats[d] = llm[u]
           Saving == saver.pc # "idle" /\ saver.at = d => LLMChats[d] = saver.llm
<1>1. ASSUME d \notin met PROVE Lone /\ (\A u \in Turns : dialog[u] = d => Known(u)) /\ Saving
  BY <1>1 DEF AloneInv, AloneOK
<1>2. ASSUME NEW t \in Turns, HandleExpertRequestMessage(t) PROVE AloneOK(d)'
  <2>1. pc[t] = "unsent" /\ LLMChats' = LLMChats /\ llm' = llm /\ saver' = saver
    BY <1>2 DEF HandleExpertRequestMessage, chats, disk
  <2>2. /\ pc'[t] \in {"done", "lookup"}
        /\ \A u \in Turns : u # t => pc'[u] = pc[u] /\ dialog'[u] = dialog[u]
    BY <1>2 DEF HandleExpertRequestMessage, GoTo, TypeOK
  <2>3. /\ d \notin met
        /\ AtWork(t)' /\ dialog'[t] = d => \A u \in Turns : ~(dialog[u] = d /\ AtWork(u))
    <3>1. CASE pc' = [pc EXCEPT ![t] = "done"] /\ met' = met
      BY <2>2, <3>1 DEF AtWork, TypeOK
    <3>2. ASSUME NEW e \in Dialogs, dialog' = [dialog EXCEPT ![t] = e],
                 met' = met \cup {x \in {e} : \E u \in Turns : dialog[u] = x /\ AtWork(u)}
          PROVE  /\ d \notin met
                 /\ AtWork(t)' /\ dialog'[t] = d => \A u \in Turns : ~(dialog[u] = d /\ AtWork(u))
      <4>1. dialog'[t] = e BY <3>2 DEF TypeOK
      <4> QED BY <3>2, <4>1
    <3> QED BY <1>2, <3>1, <3>2 DEF HandleExpertRequestMessage, GoTo
  <2>4. Lone'
    <3> SUFFICES ASSUME NEW v \in Turns, NEW u \in Turns, AtWork(v)', AtWork(u)',
                        dialog'[v] = d, dialog'[u] = d
                 PROVE  v = u
      OBVIOUS
    <3>1. CASE v = t \/ u = t BY <2>2, <2>3, <3>1 DEF AtWork
    <3>2. CASE v # t /\ u # t BY <1>1, <2>2, <2>3, <3>2 DEF AtWork
    <3> QED BY <3>1, <3>2
  <2>5. ASSUME NEW u \in Turns, dialog'[u] = d PROVE Known(u)'
    BY <1>1, <2>1, <2>2, <2>3, <2>5 DEF Loading, Talking
  <2>6. Saving' BY <1>1, <2>1, <2>3
  <2> QED BY <2>4, <2>5, <2>6 DEF AloneOK
<1>3. ASSUME NEW t \in Turns, Step(t) \/ Request(t) PROVE AloneOK(d)'
  <2>1. /\ \A u \in Turns : u # t => pc'[u] = pc[u]
        /\ dialog' = dialog /\ d \notin met /\ AtWork(t) /\ saver' = saver
    BY <1>3, OneMoves DEF TypeOK
  <2>2. \A u \in Turns : AtWork(u)' => AtWork(u) BY <2>1 DEF AtWork
  <2>3. Lone' BY <1>1, <2>1, <2>2
  <2>4. CASE StoreEnd(t)
    <3>1. /\ pc[t] = "storing" /\ pc'[t] = "read" /\ llm' = llm /\ llm[t] = t
          /\ LLMChats' = [LLMChats EXCEPT ![dialog[t]] = t] /\ dialog[t] \in Dialogs
      BY <2>1, <2>4 DEF StoreEnd, At, GoTo, TypeOK, OwnInv, FrameInv
    <3>2. CASE dialog[t] = d
      <4>1. LLMChats'[d] = t /\ LLMChats[d] = Nil
        BY <1>1, <2>1, <3>1, <3>2 DEF TypeOK, Loading
      <4>2. ASSUME NEW u \in Turns, dialog'[u] = d PROVE Known(u)'
        <5>1. CASE u = t BY <3>1, <4>1, <5>1 DEF Loading
        <5>2. CASE u # t
          <6>1. ~AtWork(u) BY <1>1, <2>1, <3>2, <4>2, <5>2
          <6> QED BY <2>1, <5>2, <6>1 DEF AtWork, Loading, Talking
        <5> QED BY <5>1, <5>2
      <4>3. Saving' BY <1>1, <2>1, <4>1 DEF OwnInv, Stored
      <4> QED BY <2>3, <4>2, <4>3 DEF AloneOK
    <3>3. CASE dialog[t] # d
      <4>1. LLMChats'[d] = LLMChats[d] BY <3>1, <3>3 DEF TypeOK
      <4>2. ASSUME NEW u \in Turns, dialog'[u] = d PROVE Known(u)'
        BY <1>1, <2>1, <3>1, <3>3, <4>1, <4>2
      <4> QED BY <1>1, <2>1, <2>3, <4>1, <4>2 DEF AloneOK
    <3> QED BY <3>2, <3>3
  <2>5. CASE Lookup(t)
    <3>1. LLMChats' = LLMChats /\ \A u \in Turns : u # t => llm'[u] = llm[u]
      BY <2>5 DEF Lookup, chats, TypeOK
    <3>2. dialog[t] = d => Known(t)'
      BY <2>5, <3>1 DEF Lookup, At, GoTo, TypeOK, Loading, Talking
    <3>3. ASSUME NEW u \in Turns, dialog'[u] = d PROVE Known(u)'
      BY <1>1, <2>1, <3>1, <3>2, <3>3
    <3> QED BY <1>1, <2>1, <2>3, <3>1, <3>3 DEF AloneOK
  <2>6. CASE ~StoreEnd(t) /\ ~Lookup(t)
    <3>1. LLMChats' = LLMChats /\ \A u \in Turns : u # t => llm'[u] = llm[u]
      BY <1>3, <2>6 DEF Step, Request, LoadOrNew, StoreBegin, ReadMessages, WriteQuestion,
         WriteAnswer, Say, FirstRequest, SecondRequest, FinalRequest, RequestFails, chats, TypeOK
    <3>2. /\ pc'[t] \in Loading => pc[t] \in Loading
          /\ pc'[t] \in Talking => pc[t] \in Talking /\ llm'[t] = llm[t]
      BY <1>3, <2>6 DEF Step, Request, LoadOrNew, StoreBegin, ReadMessages, WriteQuestion,
         WriteAnswer, Say, FirstRequest, SecondRequest, FinalRequest, RequestFails, At, GoTo,
         TypeOK, Loading, Talking
    <3>3. ASSUME NEW u \in Turns, dialog'[u] = d PROVE Known(u)'
      BY <1>1, <2>1, <3>1, <3>2, <3>3
    <3> QED BY <1>1, <2>1, <2>3, <3>1, <3>3 DEF AloneOK
  <2> QED BY <2>4, <2>5, <2>6
<1>4. CASE Rest
  <2>1. UNCHANGED <<pc, dialog, llm, held, request, LLMChats, said, met>> BY <1>4, RestFacts
  <2>2. Lone' /\ \A u \in Turns : dialog'[u] = d => Known(u)' BY <1>1, <2>1 DEF AtWork
  <2>3. Saving'
    <3>1. ASSUME NEW e \in Dialogs, SaveChat(e) PROVE Saving'
      BY <2>1, <3>1 DEF SaveChat
    <3>2. CASE Truncate BY <1>1, <2>1, <3>2 DEF Truncate, FrameInv
    <3>3. WriteFile \/ WriteFails => saver'.pc = "idle"
      BY DEF WriteFile, WriteFails, IdleSaver
    <3>4. ASSUME NEW t \in Turns, LookupThrows(t) PROVE saver' = saver
      BY <3>4 DEF LookupThrows, disk
    <3>5. SaveThrows \/ UNCHANGED vars => saver' = saver BY DEF SaveThrows, vars, disk
    <3> QED BY <1>1, <1>4, <2>1, <3>1, <3>2, <3>3, <3>4, <3>5 DEF Rest, Save
  <2> QED BY <2>2, <2>3 DEF AloneOK
<1>5. CASE Restart
  <2>1. (\A u \in Turns : ~AtWork(u)') /\ saver'.pc = "idle"
    BY <1>5 DEF Restart, AtWork, IdleSaver
  <2> QED BY <2>1 DEF AloneOK, AtWork, Loading, Talking
<1> QED BY <1>2, <1>3, <1>4, <1>5 DEF Next, Rest

-----------------------------------------------------------------------------
(* What a step does to conversations, files and the saver *)

\* The messages of a chat change when it is loaded and when one of its turns says something
LEMMA MessagesStep ==
    ASSUME TypeOK, FrameInv, OwnInv, [Next]_vars, NEW o \in Turns
    PROVE  \/ chat'[o].Messages = chat[o].Messages
           \/ LoadOrNew(o)
           \/ \E t \in Turns : llm[t] = o /\ (WriteQuestion(t) \/ WriteAnswer(t))
<1>1. ASSUME NEW t \in Turns, Step(t) \/ Request(t), ~LoadOrNew(t), ~WriteQuestion(t), ~WriteAnswer(t)
      PROVE  chat' = chat
  BY <1>1 DEF Step, Request, Lookup, StoreBegin, StoreEnd, ReadMessages, FirstRequest,
     SecondRequest, FinalRequest, RequestFails, chats
<1>2. ASSUME NEW t \in Turns, LoadOrNew(t), t # o PROVE chat'[o] = chat[o]
  BY <1>2 DEF LoadOrNew, TypeOK
<1>3. ASSUME NEW t \in Turns, WriteQuestion(t) \/ WriteAnswer(t), llm[t] # o
      PROVE  chat'[o] = chat[o]
  BY <1>3 DEF WriteQuestion, WriteAnswer, Say, TypeOK
<1>4. ASSUME NEW t \in Turns, HandleExpertRequestMessage(t) \/ LookupThrows(t) PROVE chat' = chat
  BY <1>4 DEF HandleExpertRequestMessage, LookupThrows, chats
<1>5. CASE WriteFile
  BY <1>5 DEF WriteFile, TypeOK, OpenaiChatLLM
<1>6. ASSUME NEW d \in Dialogs, SaveChat(d) PROVE chat' = chat BY <1>6 DEF SaveChat, chats
<1>7. Truncate \/ SaveThrows \/ WriteFails \/ Restart \/ UNCHANGED vars => chat' = chat
  BY DEF Truncate, SaveThrows, WriteFails, Restart, vars, chats
<1> QED BY <1>1, <1>2, <1>3, <1>4, <1>5, <1>6, <1>7 DEF Next, Save

\* A file stays, is emptied, or gets what the saver holds for it
LEMMA FileStep ==
    ASSUME TypeOK, FrameInv, OwnInv, [Next]_vars, NEW d \in Dialogs
    PROVE  \/ file'[d] = file[d] /\ kept'[d] = kept[d]
           \/ /\ saver.pc # "idle" /\ saver.at = d
              /\ file'[d] = Begun \/ (file'[d] = saver.data /\ kept'[d] = saver.said)
<1>1. ASSUME NEW t \in Turns, HandleExpertRequestMessage(t) \/ LookupThrows(t) PROVE file' = file /\ kept' = kept
  BY <1>1 DEF HandleExpertRequestMessage, LookupThrows, disk
<1>2. ASSUME NEW t \in Turns, Step(t) \/ Request(t) PROVE file' = file /\ kept' = kept BY <1>2, OneMoves
<1>3. ASSUME NEW e \in Dialogs, SaveChat(e) PROVE file' = file /\ kept' = kept BY <1>3 DEF SaveChat
<1>4. SaveThrows \/ WriteFails \/ Restart \/ UNCHANGED vars => file' = file /\ kept' = kept
  BY DEF SaveThrows, WriteFails, Restart, vars, disk
<1>5. CASE Truncate BY <1>5 DEF Truncate, FrameInv
<1>6. CASE WriteFile BY <1>6 DEF WriteFile, FrameInv, TypeOK
<1> QED BY <1>1, <1>2, <1>3, <1>4, <1>5, <1>6 DEF Next, Save

\* The saver goes on with what it has, or takes the messages of a chat in the map
LEMMA SaverStep ==
    ASSUME TypeOK, FrameInv, OwnInv, [Next]_vars
    PROVE  \/ saver'.pc = "idle" /\ saver'.data = <<>>
           \/ /\ saver'.data = saver.data /\ saver'.said = saver.said /\ saver'.at = saver.at
              /\ (saver.pc = "idle" <=> saver'.pc = "idle")
           \/ /\ saver'.at \in Dialogs /\ LLMChats[saver'.at] # Nil
              /\ saver'.data = chat[LLMChats[saver'.at]].Messages
              /\ saver'.said = said[saver'.at]
              /\ chat' = chat /\ LLMChats' = LLMChats /\ said' = said
<1>1. ASSUME NEW t \in Turns, HandleExpertRequestMessage(t) \/ LookupThrows(t) PROVE saver' = saver
  BY <1>1 DEF HandleExpertRequestMessage, LookupThrows, disk
<1>2. ASSUME NEW t \in Turns, Step(t) \/ Request(t) PROVE saver' = saver BY <1>2, OneMoves
<1>3. ASSUME NEW e \in Dialogs, SaveChat(e)
      PROVE  /\ saver'.at \in Dialogs /\ LLMChats[saver'.at] # Nil
             /\ saver'.data = chat[LLMChats[saver'.at]].Messages
             /\ saver'.said = said[saver'.at]
             /\ chat' = chat /\ LLMChats' = LLMChats /\ said' = said
  BY <1>3 DEF SaveChat, chats
<1>4. SaveThrows \/ UNCHANGED vars => saver' = saver BY DEF SaveThrows, vars, disk
<1>5. WriteFile \/ WriteFails \/ Restart => saver'.pc = "idle" /\ saver'.data = <<>>
  BY DEF WriteFile, WriteFails, Restart, IdleSaver
<1>6. ASSUME Truncate
      PROVE  /\ saver'.data = saver.data /\ saver'.said = saver.said /\ saver'.at = saver.at
             /\ saver.pc # "idle" /\ saver'.pc # "idle"
  BY <1>6 DEF Truncate, FrameInv
<1> QED BY <1>1, <1>2, <1>3, <1>4, <1>5, <1>6 DEF Next, Save

\* What was said grows by the lines of its turns, or starts over from what the file has
LEMMA SaidStep ==
    ASSUME TypeOK, FrameInv, OwnInv, [Next]_vars, NEW d \in Dialogs
    PROVE  \/ said'[d] = said[d]
           \/ \E t \in Turns : LoadOrNew(t) /\ dialog[t] = d /\ said'[d] = Lasting(d)
           \/ \E t \in Turns : WriteQuestion(t) /\ dialog[t] = d
                               /\ said'[d] = Append(said[d], Line("user", t))
           \/ \E t \in Turns : WriteAnswer(t) /\ dialog[t] = d
                               /\ said'[d] = Append(said[d], Line("assistant", t))
<1>1. ASSUME NEW t \in Turns, LoadOrNew(t)
      PROVE  IF dialog[t] = d THEN said'[d] = Lasting(d) ELSE said'[d] = said[d]
  BY <1>1 DEF LoadOrNew, TypeOK
<1>2. ASSUME NEW t \in Turns, NEW who, Say(t, who)
      PROVE  said'[d] = IF dialog[t] = d THEN Append(said[d], Line(who, t)) ELSE said[d]
  BY <1>2 DEF Say, TypeOK
<1>3. ASSUME NEW t \in Turns, WriteQuestion(t)
      PROVE  said'[d] = IF dialog[t] = d THEN Append(said[d], Line("user", t)) ELSE said[d]
  BY <1>2, <1>3 DEF WriteQuestion
<1>4. ASSUME NEW t \in Turns, WriteAnswer(t)
      PROVE  said'[d] = IF dialog[t] = d THEN Append(said[d], Line("assistant", t)) ELSE said[d]
  BY <1>2, <1>4 DEF WriteAnswer
<1>5. ASSUME NEW t \in Turns, Step(t) \/ Request(t), ~LoadOrNew(t), ~WriteQuestion(t), ~WriteAnswer(t)
      PROVE  said' = said
  BY <1>5 DEF Step, Request, Lookup, StoreBegin, StoreEnd, ReadMessages, FirstRequest,
     SecondRequest, FinalRequest, RequestFails, chats
<1>6. ASSUME NEW t \in Turns, HandleExpertRequestMessage(t) PROVE said' = said
  BY <1>6 DEF HandleExpertRequestMessage, chats
<1>7. Rest => said' = said BY RestFacts
<1>8. Restart => said' = said BY DEF Restart
<1> QED BY <1>1, <1>3, <1>4, <1>5, <1>6, <1>7, <1>8 DEF Next, Rest

\* What deleteOldMessage leaves is within the limit
LEMMA CutLimit == ASSUME NEW m \in Seq(Message) PROVE Len(Cut(m)) <= MessagesLenLimit
<1>1. MessagesLenLimit \in Nat \ {0} /\ Len(m) \in Nat BY LimitAssumption
<1>2. CASE Len(m) > MessagesLenLimit
  <2>1. Len(SubSeq(m, Len(m) - MessagesLenLimit + 1, Len(m))) = MessagesLenLimit
    BY <1>1, <1>2
  <2> QED BY <1>1, <1>2, <2>1 DEF Cut
<1>3. CASE ~(Len(m) > MessagesLenLimit) BY <1>1, <1>3 DEF Cut
<1> QED BY <1>2, <1>3

\* What a turn says is within the limit, and is said to its chat
LEMMA SaidFacts ==
    ASSUME TypeOK, OwnInv, NEW t \in Turns, NEW who \in {"user", "assistant"}, Say(t, who),
           pc[t] \in Talking
    PROVE  /\ llm[t] \in Turns
           /\ chat'[llm[t]].Messages = Cut(Append(held[t], Line(who, t)))
           /\ Len(chat'[llm[t]].Messages) <= MessagesLenLimit
<1>1. llm[t] \in Turns BY DEF OwnInv, Stored
<1>2. chat'[llm[t]].Messages = Cut(Append(held[t], Line(who, t)))
  BY <1>1 DEF Say, TypeOK, OpenaiChatLLM
<1>3. Append(held[t], Line(who, t)) \in Seq(Message)
  <2>1. held[t] \in Seq(Message) /\ Line(who, t) \in Message BY KindFacts DEF TypeOK
  <2> QED BY <2>1
<1> QED BY <1>1, <1>2, <1>3, CutLimit

\* Every step keeps conversations within the limit
LEMMA LimitStep ==
    ASSUME TypeOK, FrameInv, OwnInv, LimitInv, [Next]_vars
    PROVE  LimitInv'
<1>1. ASSUME NEW o \in Turns PROVE Len(chat'[o].Messages) <= MessagesLenLimit
  <2>1. CASE chat'[o].Messages = chat[o].Messages BY <2>1 DEF LimitInv
  <2>2. CASE LoadOrNew(o)
    <3>1. dialog[o] \in Dialogs /\ chat'[o] = Restored(dialog[o])
      BY <2>2 DEF LoadOrNew, FrameInv, At, AtWork, TypeOK
    <3>2. Restored(dialog[o]).Messages = IF Whole(dialog[o]) THEN file[dialog[o]] ELSE <<>>
      BY DEF Restored, Whole, NewLLMChat
    <3>3. Len(<<>>) <= MessagesLenLimit BY LimitAssumption
    <3> QED BY <3>1, <3>2, <3>3 DEF LimitInv
  <2>3. ASSUME NEW t \in Turns, llm[t] = o, WriteQuestion(t) \/ WriteAnswer(t)
        PROVE  Len(chat'[o].Messages) <= MessagesLenLimit
    BY <2>3, SaidFacts DEF WriteQuestion, WriteAnswer, At, Talking
  <2> QED BY <2>1, <2>2, <2>3, MessagesStep
<1>2. ASSUME NEW d \in Dialogs, Whole(d)' PROVE Len(file'[d]) <= MessagesLenLimit
  BY <1>2, FileStep DEF LimitInv, Whole
<1>3. Len(saver'.data) <= MessagesLenLimit
  <2>1. CASE saver'.data = <<>> BY <2>1, LimitAssumption
  <2>2. CASE saver'.data = saver.data BY <2>2 DEF LimitInv
  <2>3. ASSUME saver'.at \in Dialogs, LLMChats[saver'.at] # Nil,
               saver'.data = chat[LLMChats[saver'.at]].Messages
        PROVE  Len(saver'.data) <= MessagesLenLimit
    BY <2>3 DEF LimitInv, TypeOK
  <2> QED BY <2>1, <2>2, <2>3, SaverStep
<1> QED BY <1>1, <1>2, <1>3 DEF LimitInv

\* A turn leaves the chats of other dialogs alone
LEMMA OthersChat ==
    ASSUME TypeOK, OwnInv, NEW t \in Turns, Step(t) \/ Request(t), NEW o \in Turns,
           dialog[o] # dialog[t]
    PROVE  chat'[o] = chat[o]
<1>1. CASE LoadOrNew(t) BY <1>1 DEF LoadOrNew, TypeOK
<1>2. ASSUME WriteQuestion(t) \/ WriteAnswer(t) PROVE chat'[o] = chat[o]
  <2>1. dialog[llm[t]] = dialog[t]
    BY <1>2 DEF OwnInv, WriteQuestion, WriteAnswer, At, Talking
  <2> QED BY <1>2, <2>1 DEF WriteQuestion, WriteAnswer, Say, TypeOK
<1>3. ASSUME ~LoadOrNew(t), ~WriteQuestion(t), ~WriteAnswer(t) PROVE chat' = chat
  BY <1>3 DEF Step, Request, Lookup, StoreBegin, StoreEnd, ReadMessages, FirstRequest,
     SecondRequest, FinalRequest, RequestFails, chats
<1> QED BY <1>1, <1>2, <1>3

\* A turn that is alone in its dialog says its line to the conversation as it is
LEMMA SaidAlone ==
    ASSUME TypeOK, FrameInv, OwnInv, AloneInv, LimitInv, TurnInv,
           NEW t \in Turns, dialog[t] \notin met, NEW who \in {"user", "assistant"}, Say(t, who),
           pc[t] \in {"write", "writeAnswer"}, who = "assistant" => pc[t] = "writeAnswer"
    PROVE  LET m == chat[llm[t]].Messages IN
           /\ llm[t] \in Turns /\ m \in Seq(Message) /\ Len(m) <= MessagesLenLimit
           /\ Line(who, t) \in Message
           /\ chat'[llm[t]].Messages = Cut(Append(m, Line(who, t)))
           /\ who = "assistant" => EndsWith(m, t)
<1>1. TurnOK(t) BY DEF TurnInv, AtWork
<1>2. held[t] = chat[llm[t]].Messages /\ (who = "assistant" => EndsWith(chat[llm[t]].Messages, t))
  BY <1>1 DEF TurnOK
<1>3. llm[t] \in Turns /\ chat'[llm[t]].Messages = Cut(Append(held[t], Line(who, t)))
  BY SaidFacts DEF Talking
<1>4. chat[llm[t]].Messages \in Seq(Message) /\ Len(chat[llm[t]].Messages) <= MessagesLenLimit
  BY <1>3 DEF TypeOK, OpenaiChatLLM, LimitInv
<1>5. Line(who, t) \in Message BY KindFacts
<1> QED BY <1>2, <1>3, <1>4, <1>5

\* A question at the end may be followed by one answer
LEMMA AsksFacts ==
    ASSUME NEW m \in Seq(Message), NEW t \in Turns, EndsWith(m, t)
    PROVE  Asks(m, t) /\ Asks(Append(m, Line("assistant", t)), t)
<1>1. Len(m) \in Nat /\ Len(m) \in 1..Len(m) /\ m[Len(m)] = Line("user", t) BY DEF EndsWith
<1>2. Asks(m, t)
  <2>1. \A j \in Len(m) + 1..Len(m) : m[j] = Line("assistant", t) BY <1>1
  <2> QED BY <1>1, <2>1 DEF Asks
<1>3. Asks(Append(m, Line("assistant", t)), t)
  <2> DEFINE x == Line("assistant", t)
             a == Append(m, x)
  <2> HIDE DEF x
  <2>1. Len(a) = Len(m) + 1 /\ a[Len(m)] = m[Len(m)] /\ a[Len(m) + 1] = x BY <1>1
  <2> HIDE DEF a
  <2>2. Len(m) \in 1..Len(a) /\ \A j \in Len(m) + 1..Len(a) : a[j] = x BY <1>1, <2>1
  <2>3. Asks(a, t) BY <1>1, <2>1, <2>2 DEF Asks, x
  <2> QED BY <2>3 DEF a, x
<1> QED BY <1>2, <1>3

\* Every step of another turn, and of the saver, leaves what a turn knows of its conversation
LEMMA TurnStep ==
    ASSUME TypeOK, FrameInv, OwnInv, AloneInv, LimitInv, TurnInv, [Next]_vars
    PROVE  TurnInv'
<1> SUFFICES ASSUME NEW u \in Turns, AtWork(u)', dialog'[u] \notin met' PROVE TurnOK(u)'
  BY DEF TurnInv
<1>1. ASSUME pc'[u] = pc[u], dialog'[u] = dialog[u], llm'[u] = llm[u], held'[u] = held[u],
             request'[u] = request[u], dialog[u] \notin met,
             pc[u] \in {"store", "storing"} =>
                 /\ chat'[u].Messages = chat[u].Messages /\ file'[dialog[u]] = file[dialog[u]]
                 /\ said'[dialog[u]] = said[dialog[u]] /\ kept'[dialog[u]] = kept[dialog[u]],
             pc[u] \in Talking => chat'[llm[u]].Messages = chat[llm[u]].Messages
      PROVE  TurnOK(u)'
  <2>1. TurnOK(u) BY <1>1 DEF TurnInv, AtWork
  <2>2. (pc[u] \in {"store", "storing"} =>
          /\ chat[u].Messages = IF Whole(dialog[u]) THEN file[dialog[u]] ELSE <<>>
          /\ said[dialog[u]] = Lasting(dialog[u]))'
    BY <1>1, <2>1 DEF TurnOK, Whole, Lasting
  <2>3. (pc[u] \in {"write", "writeAnswer"} => held[u] = chat[llm[u]].Messages)'
    BY <1>1, <2>1 DEF TurnOK, Talking
  <2>4. (pc[u] \in {"first", "second", "final", "readAnswer", "writeAnswer"} =>
          EndsWith(chat[llm[u]].Messages, u))'
    BY <1>1, <2>1 DEF TurnOK, Talking
  <2>5. (pc[u] = "second" => EndsWith(request[u], u))' /\ (pc[u] = "final" => Asks(request[u], u))'
    BY <1>1, <2>1 DEF TurnOK
  <2> QED BY <2>2, <2>3, <2>4, <2>5 DEF TurnOK
<1>2. ASSUME NEW t \in Turns, HandleExpertRequestMessage(t) PROVE TurnOK(u)'
  <2>1. CASE u = t
    <3>1. pc'[u] \in {"lookup", "done"}
      BY <1>2, <2>1 DEF HandleExpertRequestMessage, GoTo, TypeOK
    <3> QED BY <3>1 DEF TurnOK
  <2>2. CASE u # t
    <3>1. /\ pc'[u] = pc[u] /\ dialog'[u] = dialog[u] /\ llm' = llm /\ held' = held
          /\ request' = request /\ chat' = chat /\ file' = file /\ said' = said /\ kept' = kept
      BY <1>2, <2>2 DEF HandleExpertRequestMessage, GoTo, TypeOK, chats, disk
    <3>2. dialog[u] \notin met BY <1>2, <3>1 DEF HandleExpertRequestMessage
    <3> QED BY <1>1, <3>1, <3>2
  <2> QED BY <2>1, <2>2
<1>3. ASSUME NEW t \in Turns, Step(t) \/ Request(t), t # u PROVE TurnOK(u)'
  <2>1. /\ pc'[u] = pc[u] /\ dialog' = dialog /\ met' = met /\ file' = file /\ AtWork(t)
        /\ kept' = kept
    BY <1>3, OneMoves DEF TypeOK
  <2>2. llm'[u] = llm[u] /\ held'[u] = held[u] /\ request'[u] = request[u]
    BY <1>3 DEF Step, Request, Lookup, LoadOrNew, StoreBegin, StoreEnd, ReadMessages,
       WriteQuestion, WriteAnswer, Say, FirstRequest, SecondRequest, FinalRequest,
       RequestFails, TypeOK
  <2>3. dialog[t] # dialog[u]
    <3>1. AtWork(u) /\ dialog[u] \in Dialogs /\ dialog[u] \notin met
      BY <2>1 DEF AtWork, FrameInv
    <3> QED BY <1>3, <2>1, <3>1 DEF AloneInv, AloneOK
  <2>4. chat'[u] = chat[u] BY <1>3, <2>3, OthersChat
  <2>5. pc[u] \in Talking => chat'[llm[u]] = chat[llm[u]]
    BY <1>3, <2>3, OthersChat DEF OwnInv, Stored
  <2>6. said'[dialog[u]] = said[dialog[u]]
    <3>1. dialog[u] \in Dialogs BY <2>1 DEF AtWork, FrameInv
    <3>2. LoadOrNew(t) => said'[dialog[u]] = said[dialog[u]]
      BY <2>3, <3>1 DEF LoadOrNew, TypeOK
    <3>3. WriteQuestion(t) \/ WriteAnswer(t) => said'[dialog[u]] = said[dialog[u]]
      BY <2>3, <3>1 DEF WriteQuestion, WriteAnswer, Say, TypeOK
    <3>4. \/ LoadOrNew(t) \/ WriteQuestion(t) \/ WriteAnswer(t)
          \/ said' = said
      BY <1>3 DEF Step, Request, Lookup, StoreBegin, StoreEnd, ReadMessages, FirstRequest,
         SecondRequest, FinalRequest, RequestFails, chats
    <3> QED BY <3>2, <3>3, <3>4
  <2> QED BY <1>1, <2>1, <2>2, <2>4, <2>5, <2>6
<1>4. ASSUME Step(u) \/ Request(u) PROVE TurnOK(u)'
  <2>1. /\ dialog' = dialog /\ met' = met /\ file' = file /\ kept' = kept /\ AtWork(u) /\ dialog[u] \notin met
        /\ dialog[u] \in Dialogs
    BY <1>4, OneMoves DEF FrameInv
  <2>2. TurnOK(u) BY <2>1 DEF TurnInv
  <2> USE DEF At, GoTo, chats
  <2>3. CASE Lookup(u)
    <3>1. pc'[u] \in {"load", "read"} BY <2>3 DEF Lookup, TypeOK
    <3> QED BY <3>1 DEF TurnOK
  <2>4. CASE LoadOrNew(u)
    <3>1. pc'[u] = "store" /\ chat'[u] = Restored(dialog[u]) BY <2>4 DEF LoadOrNew, TypeOK
    <3>2. Restored(dialog[u]).Messages = IF Whole(dialog[u]) THEN file[dialog[u]] ELSE <<>>
      BY DEF Restored, Whole, NewLLMChat
    <3>3. said'[dialog[u]] = Lasting(dialog[u]) BY <2>1, <2>4 DEF LoadOrNew, TypeOK
    <3> QED BY <2>1, <3>1, <3>2, <3>3 DEF TurnOK, Whole, Lasting
  <2>5. CASE StoreBegin(u)
    <3>1. pc[u] = "store" /\ pc'[u] = "storing" /\ chat' = chat /\ said' = said
      BY <2>5 DEF StoreBegin, TypeOK
    <3> QED BY <2>1, <2>2, <3>1 DEF TurnOK, Whole, Lasting
  <2>6. CASE StoreEnd(u)
    <3>1. pc'[u] = "read" BY <2>6 DEF StoreEnd, TypeOK
    <3> QED BY <3>1 DEF TurnOK
  <2>7. CASE ReadMessages(u)
    <3>1. /\ \/ pc[u] = "read" /\ pc'[u] = "write"
             \/ pc[u] = "readAnswer" /\ pc'[u] = "writeAnswer"
          /\ chat' = chat /\ llm' = llm /\ held'[u] = chat[llm[u]].Messages
      BY <2>7 DEF ReadMessages, TypeOK
    <3>2. pc'[u] = "writeAnswer" => EndsWith(chat'[llm'[u]].Messages, u) BY <2>2, <3>1 DEF TurnOK
    <3> QED BY <3>1, <3>2 DEF TurnOK
  <2>8. CASE WriteQuestion(u)
    <3>1. pc[u] = "write" /\ pc'[u] = "first" /\ llm' = llm /\ Say(u, "user")
      BY <2>8 DEF WriteQuestion, Say, TypeOK
    <3>2. EndsWith(chat'[llm[u]].Messages, u) BY <2>1, <3>1, SaidAlone, SayLast DEF EndsWith
    <3> QED BY <3>1, <3>2 DEF TurnOK
  <2>9. CASE WriteAnswer(u)
    <3>1. pc'[u] = "done" BY <2>9 DEF WriteAnswer, TypeOK
    <3> QED BY <3>1 DEF AtWork
  <2>10. CASE FirstRequest(u)
    <3>1. /\ pc[u] = "first" /\ pc'[u] \in {"second", "final"} /\ chat' = chat /\ llm' = llm
          /\ request'[u] = chat[llm[u]].Messages
      BY <2>10 DEF FirstRequest, TypeOK
    <3>2. EndsWith(chat[llm[u]].Messages, u) BY <2>2, <3>1 DEF TurnOK
    <3>3. chat[llm[u]].Messages \in Seq(Message)
      BY <3>1 DEF OwnInv, Stored, Talking, TypeOK, OpenaiChatLLM
    <3>4. Asks(chat[llm[u]].Messages, u) BY <3>2, <3>3, AsksFacts
    <3> QED BY <3>1, <3>2, <3>4 DEF TurnOK
  <2>11. CASE SecondRequest(u)
    <3>1. /\ pc[u] = "second" /\ pc'[u] = "final" /\ chat' = chat /\ llm' = llm
          /\ request'[u] = Append(request[u], Line("assistant", u))
      BY <2>11 DEF SecondRequest, TypeOK
    <3>2. EndsWith(chat[llm[u]].Messages, u) /\ EndsWith(request[u], u) BY <2>2, <3>1 DEF TurnOK
    <3>3. Asks(request'[u], u) BY <3>1, <3>2, AsksFacts DEF TypeOK
    <3> QED BY <3>1, <3>2, <3>3 DEF TurnOK
  <2>12. CASE FinalRequest(u)
    <3>1. pc[u] = "final" /\ pc'[u] = "readAnswer" /\ chat' = chat /\ llm' = llm
      BY <2>12 DEF FinalRequest, TypeOK
    <3>2. EndsWith(chat[llm[u]].Messages, u) BY <2>2, <3>1 DEF TurnOK
    <3> QED BY <3>1, <3>2 DEF TurnOK
  <2>13. CASE RequestFails(u)
    <3>1. pc'[u] = "done" BY <2>13 DEF RequestFails, TypeOK
    <3> QED BY <3>1 DEF AtWork
  <2> QED
    BY <1>4, <2>3, <2>4, <2>5, <2>6, <2>7, <2>8, <2>9, <2>10, <2>11, <2>12, <2>13
    DEF Step, Request
<1>5. CASE Rest
  <2>1. UNCHANGED <<pc, dialog, llm, held, request, LLMChats, said, met>> BY <1>5, RestFacts
  <2>2. \A o \in Turns : chat'[o].Messages = chat[o].Messages
    <3>1. CASE WriteFile BY <3>1 DEF WriteFile, TypeOK, OpenaiChatLLM
    <3>2. ASSUME NEW d \in Dialogs, SaveChat(d) PROVE chat' = chat BY <3>2 DEF SaveChat, chats
    <3>3. ASSUME NEW t \in Turns, LookupThrows(t) PROVE chat' = chat
      BY <3>3 DEF LookupThrows, chats
    <3>4. Truncate \/ SaveThrows \/ WriteFails \/ UNCHANGED vars => chat' = chat
      BY DEF Truncate, SaveThrows, WriteFails, vars, chats
    <3> QED BY <1>5, <3>1, <3>2, <3>3, <3>4 DEF Rest, Save
  <2>3. dialog[u] \in Dialogs /\ dialog[u] \notin met BY <2>1 DEF FrameInv, AtWork
  <2>4. ASSUME pc[u] \in {"store", "storing"}
        PROVE  file'[dialog[u]] = file[dialog[u]] /\ kept'[dialog[u]] = kept[dialog[u]]
    <3>1. LLMChats[dialog[u]] = Nil BY <2>3, <2>4 DEF AloneInv, AloneOK, Loading
    <3>2. ~(saver.pc # "idle" /\ saver.at = dialog[u])
      BY <2>3, <3>1, NamesAssumption DEF AloneInv, AloneOK, OwnInv, Stored
    <3> QED BY <2>3, <3>2, FileStep
  <2>5. pc[u] \in Talking => chat'[llm[u]].Messages = chat[llm[u]].Messages
    BY <2>2 DEF OwnInv, Stored
  <2> QED BY <1>1, <2>1, <2>2, <2>3, <2>4, <2>5
<1>6. CASE Restart BY <1>6 DEF Restart, AtWork
<1> QED BY <1>2, <1>3, <1>4, <1>5, <1>6 DEF Next, Rest

\* What becomes of the conversation of such a dialog: it stays, its turn says a line, or it
\* is taken from the file when nobody saves it
LEMMA ConversationStep ==
    ASSUME TypeOK, FrameInv, OwnInv, AloneInv, LimitInv, TurnInv, [Next]_vars,
           NEW d \in Dialogs, d \notin met', LLMChats'[d] # Nil
    PROVE  LET m == chat[LLMChats[d]].Messages
               n == chat'[LLMChats'[d]].Messages
           IN  /\ d \notin met
               /\ \/ /\ LLMChats[d] # Nil /\ n = m /\ said'[d] = said[d]
                  \/ /\ LLMChats[d] # Nil /\ file' = file /\ saver' = saver
                     /\ m \in Seq(Message) /\ Len(m) <= MessagesLenLimit
                     /\ \E x \in Message : /\ n = Cut(Append(m, x))
                                           /\ said'[d] = Append(said[d], x)
                                           /\ x.who = "assistant" => EndsWith(m, x.of)
                  \/ /\ file' = file /\ saver' = saver
                     /\ saver.pc = "idle" \/ saver.at # d
                     /\ n = IF Whole(d) THEN file[d] ELSE <<>>
                     /\ said'[d] = said[d] /\ said[d] = Lasting(d)
<1> DEFINE m == chat[LLMChats[d]].Messages
           n == chat'[LLMChats'[d]].Messages
<1>1. d \notin met
  <2>1. met \subseteq met'
    <3>1. ASSUME NEW t \in Turns, HandleExpertRequestMessage(t) PROVE met \subseteq met'
      BY <3>1 DEF HandleExpertRequestMessage
    <3>2. Restart => met' = met BY DEF Restart
    <3> QED BY <3>1, <3>2, OneMoves, RestFacts DEF Next, Rest
  <2> QED BY <2>1
<1>2. CASE \E t \in Turns : StoreEnd(t) /\ dialog[t] = d
  <2>1. PICK t \in Turns : StoreEnd(t) /\ dialog[t] = d BY <1>2
  <2>2. /\ pc[t] = "storing" /\ LLMChats'[d] = t /\ chat' = chat /\ file' = file /\ saver' = saver
        /\ said' = said
    BY <2>1 DEF StoreEnd, At, TypeOK, disk
  <2>3. LLMChats[d] = Nil BY <1>1, <2>1, <2>2 DEF AloneInv, AloneOK, Loading
  <2>4. saver.pc = "idle" \/ saver.at # d
    BY <1>1, <2>3, NamesAssumption DEF AloneInv, AloneOK, OwnInv, Stored
  <2>5. /\ chat[t].Messages = IF Whole(d) THEN file[d] ELSE <<>>
        /\ said[d] = Lasting(d)
    BY <1>1, <2>1, <2>2 DEF TurnInv, TurnOK, AtWork
  <2> QED BY <1>1, <2>2, <2>4, <2>5
<1>3. CASE ~\E t \in Turns : StoreEnd(t) /\ dialog[t] = d
  <2>1. LLMChats'[d] = LLMChats[d]
    <3>1. ASSUME NEW t \in Turns, HandleExpertRequestMessage(t) PROVE LLMChats' = LLMChats
      BY <3>1 DEF HandleExpertRequestMessage, chats
    <3>2. ASSUME NEW t \in Turns, Step(t) \/ Request(t), ~StoreEnd(t) PROVE LLMChats' = LLMChats
      BY <3>2 DEF Step, Request, Lookup, LoadOrNew, StoreBegin, ReadMessages, WriteQuestion,
         WriteAnswer, Say, FirstRequest, SecondRequest, FinalRequest, RequestFails, chats
    <3>3. ASSUME NEW t \in Turns, StoreEnd(t), dialog[t] # d PROVE LLMChats'[d] = LLMChats[d]
      BY <3>3 DEF StoreEnd, TypeOK
    <3>4. ~Restart BY DEF Restart
    <3> QED BY <1>3, <3>1, <3>2, <3>3, <3>4, RestFacts DEF Next, Rest
  <2>2. LLMChats[d] # Nil /\ Stored(LLMChats[d], pc) /\ dialog[LLMChats[d]] = d
    BY <2>1 DEF OwnInv
  <2>3. CASE ~\E t \in Turns : dialog[t] = d /\ (WriteQuestion(t) \/ WriteAnswer(t))
    <3>1. LLMChats[d] \in Turns /\ ~LoadOrNew(LLMChats[d])
      BY <2>2 DEF Stored, LoadOrNew, At, Talking
    <3>2. ASSUME NEW t \in Turns, llm[t] = LLMChats[d], WriteQuestion(t) \/ WriteAnswer(t)
          PROVE  FALSE
      <4>1. pc[t] \in {"write", "writeAnswer"} BY <3>2 DEF WriteQuestion, WriteAnswer, At
      <4>2. dialog[t] = d BY <2>2, <3>2, <4>1 DEF OwnInv, Talking
      <4> QED BY <2>3, <3>2, <4>2
    <3>3. n = m BY <2>1, <3>1, <3>2, MessagesStep
    <3>4. ASSUME NEW t \in Turns, LoadOrNew(t), dialog[t] = d PROVE FALSE
      BY <1>1, <2>2, <3>4 DEF LoadOrNew, At, AloneInv, AloneOK, Loading
    <3>5. said'[d] = said[d] BY <2>3, <3>4, SaidStep
    <3> QED BY <1>1, <2>2, <3>3, <3>5
  <2>4. CASE \E t \in Turns : dialog[t] = d /\ (WriteQuestion(t) \/ WriteAnswer(t))
    <3>1. PICK t \in Turns : dialog[t] = d /\ (WriteQuestion(t) \/ WriteAnswer(t)) BY <2>4
    <3>2. pc[t] \in {"write", "writeAnswer"} /\ file' = file /\ saver' = saver
      BY <3>1 DEF WriteQuestion, WriteAnswer, Say, At, disk
    <3>3. llm[t] = LLMChats[d] BY <1>1, <3>1, <3>2 DEF AloneInv, AloneOK, Talking
    <3>4. CASE WriteQuestion(t)
      <4>1. /\ m \in Seq(Message) /\ Len(m) <= MessagesLenLimit
            /\ Line("user", t) \in Message /\ n = Cut(Append(m, Line("user", t)))
        BY <1>1, <2>1, <3>1, <3>2, <3>3, <3>4, SaidAlone DEF WriteQuestion
      <4>2. Line("user", t).who # "assistant" BY DEF Line
      <4>3. said'[d] = Append(said[d], Line("user", t))
        BY <3>1, <3>4 DEF WriteQuestion, Say, TypeOK
      <4> QED BY <1>1, <2>2, <3>2, <4>1, <4>2, <4>3
    <3>5. CASE WriteAnswer(t)
      <4>1. pc[t] = "writeAnswer" /\ Say(t, "assistant") BY <3>5 DEF WriteAnswer, At
      <4>2. /\ m \in Seq(Message) /\ Len(m) <= MessagesLenLimit
            /\ Line("assistant", t) \in Message /\ n = Cut(Append(m, Line("assistant", t)))
            /\ EndsWith(m, t)
        BY <1>1, <2>1, <3>1, <3>2, <3>3, <4>1, SaidAlone
      <4>3. Line("assistant", t).of = t BY DEF Line
      <4>4. said'[d] = Append(said[d], Line("assistant", t)) BY <3>1, <4>1 DEF Say, TypeOK
      <4> QED BY <1>1, <2>2, <3>2, <4>2, <4>3, <4>4
    <3> QED BY <3>1, <3>4, <3>5
  <2> QED BY <2>3, <2>4
<1> QED BY <1>2, <1>3

\* Every step keeps the conversation in order, in memory, in the file and on the way there
LEMMA OrderStep ==
    ASSUME TypeOK, FrameInv, OwnInv, AloneInv, LimitInv, TurnInv, OrderInv, [Next]_vars
    PROVE  OrderInv'
<1> SUFFICES ASSUME NEW d \in Dialogs, d \notin met' PROVE OrderOK(d)'
  BY DEF OrderInv
<1>1. d \notin met
  <2>1. ASSUME NEW t \in Turns, HandleExpertRequestMessage(t) PROVE met \subseteq met'
    BY <2>1 DEF HandleExpertRequestMessage
  <2>2. Restart => met' = met BY DEF Restart
  <2> QED BY <2>1, <2>2, OneMoves, RestFacts DEF Next, Rest
<1>2. OrderOK(d) BY <1>1 DEF OrderInv
<1>3. ASSUME LLMChats'[d] # Nil PROVE InOrder(chat'[LLMChats'[d]].Messages)
  <2> DEFINE m == chat[LLMChats[d]].Messages
             n == chat'[LLMChats'[d]].Messages
  <2>1. CASE LLMChats[d] # Nil /\ n = m BY <1>2, <2>1 DEF OrderOK
  <2>2. ASSUME LLMChats[d] # Nil, m \in Seq(Message), Len(m) <= MessagesLenLimit,
               NEW x \in Message, n = Cut(Append(m, x)),
               x.who = "assistant" => EndsWith(m, x.of)
        PROVE  InOrder(n)
    BY <1>2, <2>2, SayInOrder DEF OrderOK
  <2>3. CASE n = IF Whole(d) THEN file[d] ELSE <<>>
    BY <1>2, <2>3 DEF OrderOK, InOrder
  <2> HIDE DEF m, n
  <2>4. InOrder(n) BY <1>3, <2>1, <2>2, <2>3, ConversationStep DEF m, n
  <2> QED BY <2>4 DEF n
<1>4. ASSUME Whole(d)' PROVE InOrder(file'[d])
  BY <1>2, <1>4, FileStep DEF OrderOK, Whole
<1>5. ASSUME saver'.pc # "idle", saver'.at = d PROVE InOrder(saver'.data)
  BY <1>2, <1>5, SaverStep DEF OrderOK
<1> QED BY <1>3, <1>4, <1>5 DEF OrderOK, Whole

\* Every step keeps the chat, the file and the saver at the newest lines of what was said
LEMMA PastStep ==
    ASSUME TypeOK, FrameInv, OwnInv, AloneInv, LimitInv, TurnInv, PastInv, [Next]_vars
    PROVE  PastInv'
<1> SUFFICES ASSUME NEW d \in Dialogs, d \notin met' PROVE PastOK(d)' BY DEF PastInv
<1>1. d \notin met
  <2>1. ASSUME NEW t \in Turns, HandleExpertRequestMessage(t) PROVE met \subseteq met'
    BY <2>1 DEF HandleExpertRequestMessage
  <2>2. Restart => met' = met BY DEF Restart
  <2> QED BY <2>1, <2>2, OneMoves, RestFacts DEF Next, Rest
<1>2. PastOK(d) /\ AloneOK(d) BY <1>1 DEF PastInv, AloneInv
<1>3. /\ said[d] \in Seq(Message) /\ kept[d] \in Seq(Message) /\ saver.said \in Seq(Message)
  BY DEF TypeOK, FrameInv
\* The chat
<1>4. ASSUME LLMChats'[d] # Nil PROVE chat'[LLMChats'[d]].Messages = Cut(said'[d])
  <2> DEFINE m == chat[LLMChats[d]].Messages
             n == chat'[LLMChats'[d]].Messages
  <2>1. CASE LLMChats[d] # Nil /\ n = m /\ said'[d] = said[d] BY <1>2, <2>1 DEF PastOK
  <2>2. ASSUME LLMChats[d] # Nil, NEW x \in Message, n = Cut(Append(m, x)),
               said'[d] = Append(said[d], x)
        PROVE  n = Cut(said'[d])
    <3>1. m = Cut(said[d]) BY <1>2, <2>2 DEF PastOK
    <3> QED BY <1>3, <2>2, <3>1, CutTwice
  <2>3. CASE n = (IF Whole(d) THEN file[d] ELSE <<>>) /\ said'[d] = said[d] /\ said[d] = Lasting(d)
    BY <1>2, <1>3, <2>3, CutFacts DEF PastOK, Lasting
  <2> HIDE DEF m, n
  <2>4. n = Cut(said'[d])
    <3>1. \/ LLMChats[d] # Nil /\ n = m /\ said'[d] = said[d]
          \/ LLMChats[d] # Nil /\ \E x \in Message : n = Cut(Append(m, x)) /\ said'[d] = Append(said[d], x)
          \/ n = (IF Whole(d) THEN file[d] ELSE <<>>) /\ said'[d] = said[d] /\ said[d] = Lasting(d)
      BY <1>4, ConversationStep DEF m, n
    <3> QED BY <2>1, <2>2, <2>3, <3>1 DEF n, m
  <2> QED BY <2>4 DEF n
\* What was said before: it grows, or starts over from the file when nobody saves it
<1>5. \/ \A k : Begins(k, said[d]) => Begins(k, said'[d])
      \/ /\ file' = file /\ kept' = kept /\ saver' = saver /\ said'[d] = Lasting(d)
         /\ saver.pc = "idle" \/ saver.at # d
  <2>1. CASE said'[d] = said[d] BY <2>1
  <2>2. ASSUME NEW t \in Turns, LoadOrNew(t), dialog[t] = d, said'[d] = Lasting(d)
        PROVE  /\ file' = file /\ kept' = kept /\ saver' = saver /\ said'[d] = Lasting(d)
               /\ saver.pc = "idle" \/ saver.at # d
    <3>1. LLMChats[d] = Nil BY <1>2, <2>2 DEF LoadOrNew, At, AloneOK, Loading
    <3>2. saver.pc = "idle" \/ saver.at # d
      BY <1>2, <3>1, NamesAssumption DEF AloneOK, OwnInv, Stored
    <3> QED BY <2>2, <3>2 DEF LoadOrNew, disk
  <2>3. ASSUME NEW x \in Message, said'[d] = Append(said[d], x)
        PROVE  \A k : Begins(k, said[d]) => Begins(k, said'[d])
    BY <1>3, <2>3, BeginsFacts
  <2>4. \A t \in Turns : Line("user", t) \in Message /\ Line("assistant", t) \in Message
    BY KindFacts
  <2> QED BY <2>1, <2>2, <2>3, <2>4, SaidStep
\* The file
<1>6. ASSUME Whole(d)' PROVE file'[d] = Cut(kept'[d]) /\ Begins(kept'[d], said'[d])
  <2>1. CASE \A k : Begins(k, said[d]) => Begins(k, said'[d])
    BY <1>2, <1>6, <2>1, FileStep DEF PastOK, Whole
  <2>2. CASE file' = file /\ kept' = kept /\ said'[d] = Lasting(d)
    <3>1. Whole(d) BY <1>6, <2>2 DEF Whole
    <3>2. said'[d] = kept[d] BY <2>2, <3>1 DEF Lasting
    <3> QED BY <1>2, <1>3, <2>2, <3>1, <3>2, BeginsFacts DEF PastOK
  <2> QED BY <1>5, <2>1, <2>2
\* The saver
<1>7. ASSUME saver'.pc # "idle", saver'.at = d
      PROVE  saver'.data = Cut(saver'.said) /\ Begins(saver'.said, said'[d])
  <2>1. CASE \A k : Begins(k, said[d]) => Begins(k, said'[d])
    <3>1. CASE /\ saver'.data = saver.data /\ saver'.said = saver.said
               /\ saver'.at = saver.at /\ saver.pc # "idle"
      BY <1>2, <1>7, <2>1, <3>1 DEF PastOK
    <3>2. CASE /\ LLMChats[d] # Nil /\ saver'.data = chat[LLMChats[d]].Messages
               /\ saver'.said = said[d] /\ said' = said
      BY <1>2, <1>3, <3>2, BeginsFacts DEF PastOK
    <3> QED BY <1>7, <3>1, <3>2, SaverStep
  <2>2. CASE saver' = saver /\ (saver.pc = "idle" \/ saver.at # d) BY <1>7, <2>2
  <2> QED BY <1>5, <2>1, <2>2
<1> QED BY <1>4, <1>6, <1>7 DEF PastOK, Whole

-----------------------------------------------------------------------------
(* Theorems *)

\* At first there is no chat, and no file
LEMMA InitInv == Init => IInv
<1> SUFFICES ASSUME Init PROVE IInv
  OBVIOUS
<1>1. TypeOK
  <2>1. 0 \in 0..MaxFaults BY FaultAssumption
  <2>2. <<>> \in Seq(Message) /\ NewLLMChat \in OpenaiChatLLM BY KindFacts
  <2>3. held \in [Turns -> Seq(Message)] /\ request \in [Turns -> Seq(Message)]
    BY <2>2 DEF Init
  <2>4. chat \in [Turns -> OpenaiChatLLM] BY <2>2 DEF Init
  <2>5. /\ pc \in [Turns -> PCs] /\ dialog \in [Turns -> Dialogs \cup {Nil}]
        /\ llm \in [Turns -> Turns \cup {Nil}] /\ LLMChats \in [Dialogs -> Turns \cup {Nil}]
        /\ reply \in [Turns -> {"none", "useless", "user", "demand"}]
    BY DEF Init, PCs
  <2>6. said \in [Dialogs -> Seq(Message)] /\ kept \in [Dialogs -> Seq(Message)]
    BY <2>2 DEF Init
  <2> QED BY <2>1, <2>3, <2>4, <2>5, <2>6 DEF Init, TypeOK, IdleSaver
<1>2. FrameInv BY DEF Init, FrameInv, IdleSaver, AtWork
<1>3. OwnInv BY DEF Init, OwnInv, IdleSaver, Talking
<1>4. AloneInv BY DEF Init, AloneInv, AloneOK, IdleSaver, AtWork, Loading, Talking
<1>5. LimitInv
  <2>1. Len(<<>>) <= MessagesLenLimit BY LimitAssumption
  <2> QED BY <2>1 DEF Init, LimitInv, NewLLMChat, Whole, IdleSaver
<1>6. TurnInv /\ OrderInv /\ PastInv
  BY DEF Init, TurnInv, OrderInv, OrderOK, PastInv, PastOK, AtWork, Whole, IdleSaver
<1> QED BY <1>1, <1>2, <1>3, <1>4, <1>5, <1>6 DEF IInv

\* The inductive invariant holds: it ties the conversation in memory to the turn that goes
\* on with it and to the file that it was taken from or is written to
THEOREM Invariance == Spec => []IInv
<1>1. IInv /\ [Next]_vars => IInv'
  BY TypeStep, FrameStep, OwnStep, AloneStep, LimitStep, TurnStep, OrderStep, PastStep DEF IInv
<1> QED BY <1>1, InitInv, PTL DEF Spec

\* Every variable of the chat holds a value of its kind
THEOREM TypeCorrectness == Spec => []TypeOK
<1>1. IInv => TypeOK BY DEF IInv
<1> QED BY <1>1, Invariance, PTL

\* Where turns come one after the other the conversation stays in order, in memory and in
\* the file, and the model is asked last for the question of this very turn
THEOREM ConversationsKeepOrder == Spec => []ConversationInOrder
<1>1. ASSUME IInv PROVE ConversationInOrder
  <2> SUFFICES ASSUME NEW d \in Dialogs \ met
               PROVE  /\ LLMChats[d] # Nil => InOrder(chat[LLMChats[d]].Messages)
                      /\ Whole(d) => InOrder(file[d])
                      /\ \A t \in Turns : pc[t] = "final" /\ dialog[t] = d => Asks(request[t], t)
    BY DEF ConversationInOrder, Asks
  <2>1. OrderOK(d) BY <1>1 DEF IInv, OrderInv
  <2>2. ASSUME NEW t \in Turns, pc[t] = "final", dialog[t] = d PROVE Asks(request[t], t)
    BY <1>1, <2>2 DEF IInv, TurnInv, TurnOK, AtWork
  <2> QED BY <2>1, <2>2 DEF OrderOK
<1> QED BY <1>1, Invariance, PTL

\* There no line is lost but those older than the last MessagesLenLimit, for every limit and
\* however many lines were said: memory holds the newest lines of all that was said, the file
\* the newest of what was said at an earlier moment, and a restart goes on from there
THEOREM OnlyOldLinesAreLost == Spec => []OnlyOldLinesGo
<1>1. ASSUME IInv PROVE OnlyOldLinesGo
  <2> SUFFICES ASSUME NEW d \in Dialogs \ met
               PROVE  /\ LLMChats[d] # Nil => Newest(chat[LLMChats[d]].Messages, said[d])
                      /\ Whole(d) => Newest(file[d], kept[d]) /\ Begins(kept[d], said[d])
    BY DEF OnlyOldLinesGo, Begins
  <2>1. PastOK(d) /\ said[d] \in Seq(Message) /\ kept[d] \in Seq(Message)
    BY <1>1 DEF IInv, PastInv, TypeOK
  <2> QED BY <2>1, CutFacts DEF PastOK
<1> QED BY <1>1, Invariance, PTL
=============================================================================
