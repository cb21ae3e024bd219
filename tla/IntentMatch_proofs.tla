-------------------------- MODULE IntentMatch_proofs --------------------------
(***************************************************************************)
(* Proofs about IntentMatch, for any number of intents, contents and       *)
(* calls, whatever the matchers answer and whatever vaildMinScore is.      *)
(***************************************************************************)
EXTENDS IntentMatch, FiniteSetTheorems, TLAPS

-----------------------------------------------------------------------------
(* Scores *)

\* Scores are natural numbers, the empty name's is 0
LEMMA ScoreFacts ==
    ASSUME NEW k \in Calls, asked[k] \in Questions
    PROVE  /\ \A i \in Intents : Says(k, i) \in Nat /\ ScoreOf(k, i) = Says(k, i)
           /\ ScoreOf(k, NoIntent) = 0
           /\ \A i \in Intents \cup {NoIntent} : ScoreOf(k, i) \in Nat
<1>1. asked[k][1] \in Contents /\ asked[k][2] \in Attachments BY QuestionAssumption
<1>2. Score[asked[k][1]] \in [Attachments -> [Intents -> Nat]] BY <1>1, ScoreAssumption
<1>3. Score[asked[k][1]][asked[k][2]] \in [Intents -> Nat] BY <1>1, <1>2
<1>4. \A i \in Intents : Says(k, i) \in Nat BY <1>3 DEF Says
<1>5. NoIntent \notin Intents BY NamesAssumption
<1> QED BY <1>4, <1>5 DEF ScoreOf

\* If any matcher answered, the possible intentions hold one with the highest score
LEMMA TopThreeFacts ==
    ASSUME NEW k \in Calls, asked[k] \in Questions,
           NEW S \in SUBSET Intents, NEW T \in TopThree(k, S),
           NEW b \in S, \A i \in S : Says(k, i) <= Says(k, b)
    PROVE  \E i \in T : Says(k, i) = Says(k, b)
<1>1. T \in SUBSET S /\ \A i \in T, j \in S \ T : Says(k, i) >= Says(k, j)
  BY DEF TopThree
<1>2. CASE b \in T
  BY <1>2
<1>3. CASE b \notin T
  <2>1. T # {}
    <3> SUFFICES ASSUME T = {} PROVE FALSE OBVIOUS
    <3>1. Cardinality(T) = 0 BY FS_EmptySet
    <3>2. T = S BY <3>1 DEF TopThree
    <3> QED BY <3>2
  <2>2. PICK i \in T : TRUE BY <2>1
  <2>3. i \in Intents /\ b \in Intents /\ i \in S BY <1>1
  <2>4. Says(k, i) >= Says(k, b) /\ Says(k, i) <= Says(k, b) BY <1>1, <1>3, <2>2, <2>3
  <2>5. Says(k, i) \in Nat /\ Says(k, b) \in Nat BY <2>3, ScoreFacts
  <2> QED BY <2>2, <2>4, <2>5
<1> QED BY <1>2, <1>3

-----------------------------------------------------------------------------
(* The inductive invariant *)

\* What a cache or a hit may say of a content
Won(c, i) == \E j \in Calls : EarnedBy(j, c, i)

\* A cache that says only what some call earned
Earned(f) == \A c \in Contents : f[c] # Absent => Won(c, f[c])

\* What a call knows: the best of the matchers that answered, and what follows of it
CallOK(k) ==
    /\ pc[k] \in {"unused", "miss", "none"} => best[k] = NoIntent /\ matched[k] = {}
    /\ pc[k] \in {"matching", "caching", "won"} =>
         /\ best[k] # NoIntent => best[k] \in matched[k]
         /\ \A i \in matched[k] : Says(k, i) <= ScoreOf(k, best[k])
    /\ pc[k] \in {"caching", "won"} =>
         /\ ScoreOf(k, best[k]) >= vaildMinScore
         /\ hints[k] \in TopThree(k, matched[k])
    /\ pc[k] = "caching" => Saves(k)
    /\ pc[k] = "lost" => \A i \in matched[k] : Says(k, i) < vaildMinScore
    /\ pc[k] = "hit" => Won(Content(k), best[k])
CallInv == \A k \in Calls : CallOK(k)

CacheInv == Earned(IntentCache) /\ (cacheFile # Unknown => Earned(cacheFile))

IInv == TypeOK /\ CallInv /\ CacheInv

-----------------------------------------------------------------------------
(* Types *)

\* Every step keeps every type
LEMMA TypeStep ==
    ASSUME TypeOK, [Next]_vars
    PROVE  TypeOK'
<1> USE DEF TypeOK, call, disk, GoTo
<1>1. ASSUME NEW k \in Calls, ReadCache(k) PROVE TypeOK'
  <2>1. IntentCache[Content(k)] \in Intents \cup {NoIntent, Absent}
    BY QuestionAssumption DEF Caches, Content
  <2> QED BY <1>1, <2>1 DEF ReadCache
<1>2. ASSUME NEW k \in Calls, StartMatchers(k) PROVE TypeOK'
  BY <1>2 DEF StartMatchers
<1>3. ASSUME NEW k \in Calls, Result(k) PROVE TypeOK'
  BY <1>3 DEF Result
<1>4. ASSUME NEW k \in Calls, Conclude(k) PROVE TypeOK'
  BY <1>4 DEF Conclude, TopThree
<1>5. ASSUME NEW k \in Calls, CacheContentIntent(k) PROVE TypeOK'
  BY <1>5 DEF CacheContentIntent, Caches
<1>6. ASSUME NEW i \in Changing, Register(i) \/ UnRegister(i) PROVE TypeOK'
  BY <1>6, ChangingAssumption DEF Register, UnRegister
<1>7. CASE SaveBegin \/ SaveEnd \/ SaveFails
  BY <1>7 DEF SaveBegin, SaveEnd, SaveFails
<1>8. CASE CrashAndLoad
  <2>1. Empty \in Caches BY DEF Empty, Caches
  <2>2. crashes' \in 0..MaxCrashes BY <1>8, CrashAssumption DEF CrashAndLoad
  <2> QED BY <1>8, <2>1, <2>2 DEF CrashAndLoad
<1>9. CASE UNCHANGED vars
  BY <1>9 DEF vars
<1> HIDE DEF TypeOK
<1> QED
  BY <1>1, <1>2, <1>3, <1>4, <1>5, <1>6, <1>7, <1>8, <1>9 DEF Next, Step

\* Arguments and threshold do not change, and a call that matched and won stays so
LEMMA WinnersStay ==
    ASSUME TypeOK, [Next]_vars
    PROVE  /\ UNCHANGED <<vaildMinScore, asked>>
           /\ \A j \in Calls : pc[j] \in {"caching", "won", "gone"} =>
                                 pc'[j] \in {"caching", "won", "gone"}
<1>1. UNCHANGED <<vaildMinScore, asked>>
  BY DEF Next, Step, ReadCache, StartMatchers, Result, Conclude, CacheContentIntent, Register,
         UnRegister, SaveBegin, SaveEnd, SaveFails, CrashAndLoad, call, vars
<1>2. ASSUME NEW j \in Calls, pc[j] \in {"caching", "won", "gone"}
      PROVE  pc'[j] \in {"caching", "won", "gone"}
  <2>1. ASSUME NEW k \in Calls, Step(k) PROVE pc'[j] \in {"caching", "won", "gone"}
    BY <1>2, <2>1
    DEF Step, ReadCache, StartMatchers, Result, Conclude, CacheContentIntent, GoTo, TypeOK
  <2>2. ASSUME NEW i \in Changing, Register(i) \/ UnRegister(i) PROVE pc' = pc
    BY <2>2 DEF Register, UnRegister, call
  <2>3. CASE SaveBegin \/ SaveEnd \/ SaveFails
    BY <1>2, <2>3 DEF SaveBegin, SaveEnd, SaveFails, call
  <2>4. CASE CrashAndLoad BY <1>2, <2>4 DEF CrashAndLoad
  <2>5. CASE UNCHANGED vars BY <1>2, <2>5 DEF vars
  <2> QED BY <1>2, <2>1, <2>2, <2>3, <2>4, <2>5 DEF Next
<1> QED BY <1>1, <1>2

\* What a call earned stays earned
LEMMA EarnedStays ==
    ASSUME TypeOK, [Next]_vars, NEW c, NEW i, Won(c, i)
    PROVE  Won(c, i)'
BY WinnersStay DEF Won, EarnedBy, Content, Saves, Says

\* Every step keeps what is known of a call: whom it asked, who answered and who leads
LEMMA CallStep ==
    ASSUME TypeOK, CallInv, CacheInv, [Next]_vars
    PROVE  CallInv'
<1> SUFFICES ASSUME NEW n \in Calls PROVE CallOK(n)'
  BY DEF CallInv
<1>0. CallOK(n) BY DEF CallInv
<1>a. asked[n] \in Questions /\ Content(n) \in Contents
  BY QuestionAssumption DEF TypeOK, Content
<1>b. ASSUME NEW c, NEW i, Won(c, i), asked'[n][1] = c, best'[n] = i
      PROVE  Won(Content(n), best[n])'
  BY <1>b, WinnersStay DEF Won, EarnedBy, Content, Saves, Says
\* Only the steps of a call, and a crash, change what it knows
<1>1. ASSUME UNCHANGED vaildMinScore, asked'[n] = asked[n], pc'[n] = pc[n],
             best'[n] = best[n], matched'[n] = matched[n], hints'[n] = hints[n]
      PROVE  CallOK(n)'
  <2>1. pc[n] = "hit" => Won(Content(n), best[n])'
    BY <1>0, <1>1, <1>b DEF CallOK, Content
  <2> QED BY <1>0, <1>1, <2>1 DEF CallOK, Says, ScoreOf, Saves, TopThree
<1>2. ASSUME NEW k \in Calls, Step(k), k # n PROVE CallOK(n)'
  <2>1. UNCHANGED <<vaildMinScore, asked>>
    BY <1>2 DEF Step, ReadCache, StartMatchers, Result, Conclude, CacheContentIntent
  <2>2. /\ pc'[n] = pc[n]
        /\ best'[n] = best[n]
        /\ matched'[n] = matched[n]
        /\ hints'[n] = hints[n]
    BY <1>2
    DEF Step, ReadCache, StartMatchers, Result, Conclude, CacheContentIntent, GoTo, TypeOK
  <2> QED BY <2>1, <2>2, <1>1
<1>3. CASE ReadCache(n)
  <2> DEFINE i == IntentCache[Content(n)]
  <2>1. UNCHANGED <<vaildMinScore, asked, matched, hints>> BY <1>3 DEF ReadCache
  <2>2. CASE i = Absent
    BY <1>0, <1>3, <2>1, <2>2 DEF ReadCache, CallOK, GoTo, TypeOK
  <2>3. CASE i # Absent
    <3>1. pc'[n] = "hit" /\ best'[n] = i BY <1>3, <2>3 DEF ReadCache, GoTo, TypeOK
    <3>2. i \in Intents \cup {NoIntent} BY <1>a, <2>3 DEF TypeOK, Caches
    <3>3. Won(Content(n), i) BY <1>a, <2>3 DEF CacheInv, Earned
    <3>4. Won(Content(n), best[n])' BY <1>b, <2>1, <3>1, <3>3 DEF Content
    <3> QED BY <3>1, <3>4 DEF CallOK
  <2> QED BY <2>2, <2>3
<1>4. CASE StartMatchers(n)
  <2>1. /\ pc'[n] \in {"none", "matching"}
        /\ UNCHANGED <<asked, best, matched>>
        /\ best[n] = NoIntent /\ matched[n] = {}
    BY <1>0, <1>4 DEF StartMatchers, CallOK, GoTo, TypeOK
  <2> QED BY <2>1 DEF CallOK
<1>5. CASE pc[n] = "matching" /\ Result(n)
  <2>1. PICK i \in running[n] :
          /\ matched' = [matched EXCEPT ![n] = matched[n] \cup {i}]
          /\ best' = [best EXCEPT ![n] =
                        IF Says(n, i) > ScoreOf(n, best[n]) THEN i ELSE best[n]]
          /\ UNCHANGED <<asked, pc>>
    BY <1>5 DEF Result
  <2>2. /\ i \in Intents /\ best[n] \in Intents \cup {NoIntent}
        /\ matched[n] \subseteq Intents
    BY DEF TypeOK
  <2>3. /\ matched'[n] = matched[n] \cup {i}
        /\ best'[n] = IF Says(n, i) > ScoreOf(n, best[n]) THEN i ELSE best[n]
    BY <2>1 DEF TypeOK
  <2>4. best[n] # NoIntent => best[n] \in matched[n] BY <1>0, <1>5 DEF CallOK
  <2>5. \A j \in matched[n] : Says(n, j) <= ScoreOf(n, best[n]) BY <1>0, <1>5 DEF CallOK
  <2>6. \A j \in matched'[n] : Says(n, j) <= ScoreOf(n, best'[n])
    <3>2. /\ \A j \in matched[n] : Says(n, j) \in Nat
          /\ Says(n, i) \in Nat /\ ScoreOf(n, i) = Says(n, i)
          /\ ScoreOf(n, best[n]) \in Nat
      BY <1>a, <2>2, ScoreFacts
    <3> QED BY <2>3, <2>5, <3>2
  <2>7. best'[n] # NoIntent => best'[n] \in matched'[n] BY <2>3, <2>4
  <2> QED BY <1>5, <2>1, <2>6, <2>7 DEF CallOK, ScoreOf, Says
<1>6. CASE Conclude(n)
  <2>1. /\ pc[n] = "matching"
        /\ hints'[n] \in TopThree(n, matched[n])
        /\ UNCHANGED <<vaildMinScore, asked, matched>>
    BY <1>6 DEF Conclude, TypeOK
  <2>2. \A j \in matched[n] : Says(n, j) <= ScoreOf(n, best[n])
    BY <1>0, <2>1 DEF CallOK
  <2>3. CASE ScoreOf(n, best[n]) >= vaildMinScore
    <3>1. pc'[n] \in {"caching", "won"} /\ best' = best
      BY <1>6, <2>3 DEF Conclude, GoTo, TypeOK
    <3>2. pc'[n] = "caching" => Saves(n)' BY <1>6, <2>3 DEF Conclude, GoTo, Saves, TypeOK
    <3>3. TopThree(n, matched[n])' = TopThree(n, matched[n]) BY <2>1 DEF TopThree, Says
    <3>4. ScoreOf(n, best[n])' = ScoreOf(n, best[n]) BY <2>1, <3>1 DEF ScoreOf, Says
    <3>5. \A j \in matched'[n] : Says(n, j)' <= ScoreOf(n, best[n])'
      BY <2>1, <2>2, <3>4 DEF Says
    <3>6. best'[n] # NoIntent => best'[n] \in matched'[n] BY <1>0, <2>1, <3>1 DEF CallOK
    <3> QED BY <2>1, <2>3, <3>1, <3>2, <3>3, <3>4, <3>5, <3>6 DEF CallOK
  <2>4. CASE ~(ScoreOf(n, best[n]) >= vaildMinScore)
    <3>1. pc'[n] = "lost"
      BY <1>6, <2>4 DEF Conclude, GoTo, TypeOK
    <3>2. /\ ScoreOf(n, best[n]) \in Nat /\ vaildMinScore \in Nat
          /\ \A j \in matched[n] : Says(n, j) \in Nat
      BY <1>a, ScoreFacts, MinAssumption DEF TypeOK
    <3>3. \A j \in matched[n] : Says(n, j) < vaildMinScore
      BY <2>2, <2>4, <3>2
    <3> QED BY <2>1, <3>1, <3>3 DEF CallOK, Says
  <2> QED BY <2>3, <2>4
<1>7. CASE CacheContentIntent(n)
  <2>1. /\ pc[n] = "caching" /\ pc'[n] = "won"
        /\ UNCHANGED <<vaildMinScore, asked, matched, best, hints>>
    BY <1>7 DEF CacheContentIntent, GoTo, TypeOK
  <2> QED BY <1>0, <2>1 DEF CallOK, ScoreOf, Says, TopThree
<1>8. ASSUME NEW i \in Changing, Register(i) \/ UnRegister(i) PROVE CallOK(n)'
  BY <1>8, <1>1 DEF Register, UnRegister, call
<1>9. CASE SaveBegin \/ SaveEnd \/ SaveFails
  BY <1>9, <1>1 DEF SaveBegin, SaveEnd, SaveFails, call
<1>10. CASE CrashAndLoad
  <2>1. pc'[n] \in {"unused", "gone"} /\ best'[n] = NoIntent /\ matched'[n] = {}
    BY <1>10 DEF CrashAndLoad
  <2> QED BY <2>1 DEF CallOK
<1>11. CASE UNCHANGED vars
  BY <1>11, <1>1 DEF vars
<1> QED
  BY <1>2, <1>3, <1>4, <1>5, <1>6, <1>7, <1>8, <1>9, <1>10, <1>11 DEF Next, Step

\* Only a winner is cached, and the file is a cache of before
LEMMA CacheStep ==
    ASSUME TypeOK, CallInv, CacheInv, [Next]_vars
    PROVE  CacheInv'
<1>1. ASSUME NEW k \in Calls, CacheContentIntent(k) PROVE CacheInv'
  <2> DEFINE c == Content(k)
  <2>1. /\ UNCHANGED <<vaildMinScore, cacheFile, asked, best>>
        /\ IntentCache' = [IntentCache EXCEPT ![c] = best[k]]
        /\ pc[k] = "caching" /\ pc'[k] = "won"
    BY <1>1 DEF CacheContentIntent, disk, GoTo, TypeOK
  <2>2. ScoreOf(k, best[k]) >= vaildMinScore /\ Saves(k) BY <2>1 DEF CallInv, CallOK
  <2>3. c \in Contents /\ asked[k] \in Questions /\ best[k] \in Intents \cup {NoIntent}
    BY QuestionAssumption DEF TypeOK, Content
  <2>4. IF best[k] = NoIntent THEN vaildMinScore = 0 ELSE Says(k, best[k]) >= vaildMinScore
    BY <2>2, <2>3, ScoreFacts, MinAssumption DEF TypeOK
  <2>5. Won(c, best[k])'
    <3>1. EarnedBy(k, c, best[k])'
      BY <2>1, <2>2, <2>4 DEF EarnedBy, Content, Saves, Says
    <3> QED BY <3>1 DEF Won
  <2>6. Earned(IntentCache)'
    <3> SUFFICES ASSUME NEW e \in Contents, IntentCache'[e] # Absent
                 PROVE  Won(e, IntentCache[e])'
      BY DEF Earned
    <3>1. CASE e = c
      <4>1. IntentCache'[e] = best'[k] /\ c' = c
        BY <2>1, <2>3, <3>1 DEF TypeOK, Caches, Content
      <4> QED BY <2>5, <3>1, <4>1 DEF Won, EarnedBy
    <3>2. CASE e # c
      <4>1. IntentCache'[e] = IntentCache[e] BY <2>1, <2>3, <3>2 DEF TypeOK, Caches
      <4>2. Won(e, IntentCache[e]) BY <4>1 DEF CacheInv, Earned
      <4> QED BY <4>1, <4>2, WinnersStay DEF Won, EarnedBy, Content, Saves, Says
    <3> QED BY <3>1, <3>2
  <2>7. cacheFile' # Unknown => Earned(cacheFile)' BY <2>1, EarnedStays DEF Earned, CacheInv
  <2> QED BY <2>6, <2>7 DEF CacheInv
<1>2. ASSUME UNCHANGED IntentCache, cacheFile' \in {cacheFile, IntentCache, Unknown}
      PROVE  CacheInv'
  BY <1>2, EarnedStays DEF CacheInv, Earned
<1>3. ASSUME NEW k \in Calls, Step(k), ~CacheContentIntent(k) PROVE CacheInv'
  BY <1>3, <1>2 DEF Step, ReadCache, StartMatchers, Result, Conclude, disk
<1>4. ASSUME NEW i \in Changing, Register(i) \/ UnRegister(i) PROVE CacheInv'
  BY <1>4, <1>2 DEF Register, UnRegister, disk
<1>5. CASE SaveBegin \/ SaveEnd \/ SaveFails
  BY <1>5, <1>2 DEF SaveBegin, SaveEnd, SaveFails
<1>6. CASE CrashAndLoad
  <2>1. cacheFile' = cacheFile BY <1>6 DEF CrashAndLoad
  <2>2. cacheFile' # Unknown => Earned(cacheFile)' BY <2>1, EarnedStays DEF Earned, CacheInv
  <2>3. Earned(IntentCache)'
    <3>1. CASE cacheFile = Unknown
      BY <1>6, <3>1 DEF CrashAndLoad, Earned, Empty
    <3>2. CASE cacheFile # Unknown
      BY <1>6, <2>1, <2>2, <3>2 DEF CrashAndLoad, Earned
    <3> QED BY <3>1, <3>2
  <2> QED BY <2>2, <2>3 DEF CacheInv
<1>7. CASE UNCHANGED vars
  BY <1>7, <1>2 DEF vars
<1> QED BY <1>1, <1>3, <1>4, <1>5, <1>6, <1>7 DEF Next

-----------------------------------------------------------------------------
(* The theorems *)

\* The invariant holds at the start
LEMMA InitInv == Init => IInv
<1> SUFFICES ASSUME Init PROVE IInv OBVIOUS
<1>1. Empty \in Caches BY DEF Empty, Caches
<1>2. TypeOK
  <2>1. crashes \in 0..MaxCrashes BY CrashAssumption DEF Init
  <2> QED BY <1>1, <2>1 DEF Init, TypeOK
<1>3. CallInv BY DEF Init, CallInv, CallOK
<1>4. CacheInv BY NamesAssumption DEF Init, CacheInv, Earned, Empty
<1> QED BY <1>2, <1>3, <1>4 DEF IInv

\* The inductive invariant holds: the best so far is the best of those that answered, and
\* caches name only winners
THEOREM Invariance == Spec => []IInv
<1>1. IInv /\ [Next]_vars => IInv'
  BY TypeStep, CallStep, CacheStep DEF IInv
<1> QED BY <1>1, InitInv, PTL DEF Spec

\* Every variable of the intent manager holds a value of its kind
THEOREM TypeCorrectness == Spec => []TypeOK
<1>1. IInv => TypeOK BY DEF IInv
<1> QED BY <1>1, Invariance, PTL

\* FindBestIntent picks one of the best whatever order the results arrive in, applies the
\* threshold to it, and returns an intent with its score among the three possible ones
THEOREM BestIntentWins == Spec => []WinnerIsBest
<1>1. ASSUME IInv, NEW k \in Calls
      PROVE  LET nameless == pc[k] \in {"caching", "won"} /\ best[k] = NoIntent
                 won == pc[k] \in {"caching", "won"} /\ best[k] # NoIntent
             IN
             /\ won => /\ Says(k, best[k]) >= vaildMinScore
                       /\ \A i \in matched[k] : Says(k, i) <= Says(k, best[k])
                       /\ \E i \in hints[k] : Says(k, i) = Says(k, best[k])
             /\ nameless => vaildMinScore = 0 /\ \A i \in matched[k] : Says(k, i) = 0
             /\ pc[k] = "lost" => \A i \in matched[k] : Says(k, i) < vaildMinScore
  <2>1. /\ CallOK(k) /\ asked[k] \in Questions
        /\ best[k] \in Intents \cup {NoIntent} /\ matched[k] \in SUBSET Intents
        /\ vaildMinScore \in Nat
    BY <1>1, MinAssumption DEF IInv, CallInv, TypeOK
  <2>2. ASSUME pc[k] \in {"caching", "won"}, best[k] # NoIntent
        PROVE  /\ Says(k, best[k]) >= vaildMinScore
               /\ \A i \in matched[k] : Says(k, i) <= Says(k, best[k])
               /\ \E i \in hints[k] : Says(k, i) = Says(k, best[k])
    <3>1. ScoreOf(k, best[k]) = Says(k, best[k]) BY <2>1, <2>2, ScoreFacts
    <3>2. /\ Says(k, best[k]) >= vaildMinScore
          /\ \A i \in matched[k] : Says(k, i) <= Says(k, best[k])
          /\ best[k] \in matched[k] /\ hints[k] \in TopThree(k, matched[k])
      BY <2>1, <2>2, <3>1 DEF CallOK
    <3>3. \E i \in hints[k] : Says(k, i) = Says(k, best[k])
      BY <2>1, <3>2, TopThreeFacts
    <3> QED BY <3>2, <3>3
  <2>3. ASSUME pc[k] \in {"caching", "won"}, best[k] = NoIntent
        PROVE  vaildMinScore = 0 /\ \A i \in matched[k] : Says(k, i) = 0
    <3>1. ScoreOf(k, best[k]) = 0 BY <2>1, <2>3, ScoreFacts
    <3>2. 0 >= vaildMinScore /\ \A i \in matched[k] : Says(k, i) <= 0
      BY <2>1, <2>3, <3>1 DEF CallOK
    <3>3. \A i \in matched[k] : Says(k, i) \in Nat BY <2>1, ScoreFacts
    <3> QED BY <2>1, <3>2, <3>3
  <2>4. pc[k] = "lost" => \A i \in matched[k] : Says(k, i) < vaildMinScore
    BY <2>1 DEF CallOK
  <2> QED BY <2>2, <2>3, <2>4
<1>2. IInv => WinnerIsBest BY <1>1 DEF WinnerIsBest
<1> QED BY <1>2, Invariance, PTL

\* Whatever the cache, its file or a hit says of a content, an earlier call about that very
\* content earned it with the attachments it had, through saves and crashes
THEOREM CacheEarned == Spec => []AnswersAreEarned
<1>1. IInv => AnswersAreEarned
  BY DEF IInv, CacheInv, CallInv, CallOK, Earned, Won, AnswersAreEarned
<1> QED BY <1>1, Invariance, PTL
=============================================================================
