----------------------------- MODULE IntentMatch -----------------------------
(***************************************************************************)
(* IntentMatchManager of experts/intent_match.go: concurrent calls of      *)
(* FindBestIntent read the cache, run every registered matcher in a        *)
(* goroutine of its own, take the results in the order they arrive and     *)
(* cache the winner, while matchers are registered and unregistered, the   *)
(* cache is saved to a file, and the process may crash and start again.    *)
(***************************************************************************)
EXTENDS Integers, FiniteSets

CONSTANTS
    Intents, Contents,
    Attachments,    \* what may come with a content
    Questions,      \* what FindBestIntent is asked: content, attachments, ifsave
    Score,          \* Score[c][a][i]: what the matcher of i says of c and a
    Changing,       \* the intents that are unregistered and registered again
    MinScores,      \* values of vaildMinScore
    Calls,          \* calls of FindBestIntent in one behaviour
    MaxCrashes,     \* how often the process crashes (bounds the behaviour)
    NoIntent,       \* the empty name
    Absent,         \* no cache entry
    Unknown         \* no file, a file that cannot be parsed, an MD5 never computed

ASSUME QuestionAssumption == Questions \subseteq Contents \X Attachments \X BOOLEAN
ASSUME ScoreAssumption == Score \in [Contents -> [Attachments -> [Intents -> Nat]]]
ASSUME ChangingAssumption == Changing \subseteq Intents
ASSUME MinAssumption == MinScores \subseteq Nat
ASSUME CrashAssumption == MaxCrashes \in Nat
ASSUME NamesAssumption ==
    /\ NoIntent \notin Intents
    /\ Absent \notin Intents \cup {NoIntent}
    /\ Unknown \notin [Contents -> Intents \cup {NoIntent, Absent}]

VARIABLES
    vaildMinScore, \* set before use
    registered,    \* the names in allIntentMatcher
    IntentCache,
    pc,            \* where each call is
    asked,         \* its arguments, the content after messageformatting
    running,       \* matchers that have not answered it yet
    matched,       \* matchers that have
    best,          \* bestIntent so far
    hints,         \* the possible intentions it returned
    cacheFile,     \* the content of the cache file
    lastSaved,     \* lastSavedCacheMd5, as the content it was computed from
    saving,        \* SaveIntentCache is writing the file, under the read lock
    crashes

vars == <<vaildMinScore, registered, IntentCache, pc, asked, running, matched,
          best, hints, cacheFile, lastSaved, saving, crashes>>
call == <<pc, asked, running, matched, best, hints>>
disk == <<cacheFile, lastSaved, saving, crashes>>

Caches == [Contents -> Intents \cup {NoIntent, Absent}]
Empty == [c \in Contents |-> Absent]
GoTo(k, where) == pc' = [pc EXCEPT ![k] = where]

Init ==
    /\ vaildMinScore \in MinScores
    /\ registered = Intents
    /\ IntentCache = Empty
    /\ pc = [k \in Calls |-> "unused"]
    /\ asked \in [Calls -> Questions]
    /\ running = [k \in Calls |-> {}]
    /\ matched = [k \in Calls |-> {}]
    /\ best = [k \in Calls |-> NoIntent]
    /\ hints = [k \in Calls |-> {}]
    /\ cacheFile = Unknown
    /\ lastSaved = Unknown
    /\ saving = FALSE
    /\ crashes = 0

\* The cache is keyed by the content alone, the matchers see the attachments too
Content(k) == asked[k][1]
Says(k, i) == Score[asked[k][1]][asked[k][2]][i]
Saves(k) == asked[k][3]
\* maxScore, which starts at 0
ScoreOf(k, i) == IF i = NoIntent THEN 0 ELSE Says(k, i)

-----------------------------------------------------------------------------
(* FindBestIntent *)

\* Look the content up under the read lock: a hit returns no possible intentions
ReadCache(k) ==
    LET i == IntentCache[Content(k)] IN
    /\ pc[k] = "unused"
    /\ IF i = Absent THEN GoTo(k, "miss") /\ UNCHANGED best
       ELSE GoTo(k, "hit") /\ best' = [best EXCEPT ![k] = i]
    /\ UNCHANGED <<vaildMinScore, registered, IntentCache, asked, running,
                   matched, hints, disk>>

\* GetALLNewIntentMatcher, and a goroutine for every matcher
StartMatchers(k) ==
    /\ pc[k] = "miss"
    /\ running' = [running EXCEPT ![k] = registered]
    /\ GoTo(k, IF registered = {} THEN "none" ELSE "matching")
    /\ UNCHANGED <<vaildMinScore, registered, IntentCache, asked, matched, best,
                   hints, disk>>

\* Mutant: the last result replaces the best
ResultLast(k) ==
    \E i \in running[k] :
        /\ running' = [running EXCEPT ![k] = @ \ {i}]
        /\ matched' = [matched EXCEPT ![k] = @ \cup {i}]
        /\ best' = [best EXCEPT ![k] = i]
        /\ UNCHANGED <<vaildMinScore, registered, IntentCache, pc, asked, hints, disk>>

\* The result of one matcher arrives: only a higher score replaces the best
Result(k) ==
    \E i \in running[k] :
        /\ running' = [running EXCEPT ![k] = @ \ {i}]
        /\ matched' = [matched EXCEPT ![k] = @ \cup {i}]
        /\ best' = [best EXCEPT ![k] =
                      IF Says(k, i) > ScoreOf(k, @) THEN i ELSE @]
        /\ UNCHANGED <<vaildMinScore, registered, IntentCache, pc, asked, hints, disk>>

\* The first three of an order by descending score (sort.Slice is not stable)
TopThree(k, S) ==
    {T \in SUBSET S :
       /\ Cardinality(T) = 3 \/ (T = S /\ Cardinality(T) < 3)
       /\ \A i \in T, j \in S \ T : Says(k, i) >= Says(k, j)}

\* Mutant: the threshold is forgotten when the call may cache
ConcludeUnchecked(k) ==
    /\ pc[k] = "matching"
    /\ running[k] = {}
    /\ \E T \in TopThree(k, matched[k]) : hints' = [hints EXCEPT ![k] = T]
    /\ IF ScoreOf(k, best[k]) >= vaildMinScore \/ Saves(k)
       THEN GoTo(k, IF Saves(k) THEN "caching" ELSE "won") /\ UNCHANGED best
       ELSE GoTo(k, "lost") /\ best' = [best EXCEPT ![k] = NoIntent]
    /\ UNCHANGED <<vaildMinScore, registered, IntentCache, asked, running,
                   matched, disk>>

\* Mutant: the results are counted against the matchers registered now
ConcludeOnCount(k) ==
    /\ pc[k] = "matching"
    /\ running[k] = {} /\ matched[k] = registered
    /\ \E T \in TopThree(k, matched[k]) : hints' = [hints EXCEPT ![k] = T]
    /\ IF ScoreOf(k, best[k]) >= vaildMinScore
       THEN GoTo(k, IF Saves(k) THEN "caching" ELSE "won") /\ UNCHANGED best
       ELSE GoTo(k, "lost") /\ best' = [best EXCEPT ![k] = NoIntent]
    /\ UNCHANGED <<vaildMinScore, registered, IntentCache, asked, running,
                   matched, disk>>

\* All results are in: a winner below vaildMinScore is no winner
Conclude(k) ==
    /\ pc[k] = "matching"
    /\ running[k] = {}
    /\ \E T \in TopThree(k, matched[k]) : hints' = [hints EXCEPT ![k] = T]
    /\ IF ScoreOf(k, best[k]) >= vaildMinScore
       THEN GoTo(k, IF Saves(k) THEN "caching" ELSE "won") /\ UNCHANGED best
       ELSE GoTo(k, "lost") /\ best' = [best EXCEPT ![k] = NoIntent]
    /\ UNCHANGED <<vaildMinScore, registered, IntentCache, asked, running,
                   matched, disk>>

\* Mutant: the content is cached in place of the intent
CacheContentItself(k) ==
    /\ pc[k] = "caching"
    /\ ~saving
    /\ IntentCache' = [IntentCache EXCEPT ![Content(k)] = Content(k)]
    /\ GoTo(k, "won")
    /\ UNCHANGED <<vaildMinScore, registered, asked, running, matched, best,
                   hints, disk>>

\* CacheContentIntent, under the write lock
CacheContentIntent(k) ==
    /\ pc[k] = "caching"
    /\ ~saving
    /\ IntentCache' = [IntentCache EXCEPT ![Content(k)] = best[k]]
    /\ GoTo(k, "won")
    /\ UNCHANGED <<vaildMinScore, registered, asked, running, matched, best,
                   hints, disk>>

-----------------------------------------------------------------------------
(* Register and UnRegister, also as UpdateIntentMatcherFromRNNPath calls them *)

Register(i) ==
    /\ i \notin registered
    /\ registered' = registered \cup {i}
    /\ UNCHANGED <<vaildMinScore, IntentCache, call, disk>>

\* The cache keeps what it says of i
UnRegister(i) ==
    /\ i \in registered
    /\ registered' = registered \ {i}
    /\ UNCHANGED <<vaildMinScore, IntentCache, call, disk>>

-----------------------------------------------------------------------------
(* The cache file *)

\* SaveIntentCache: unless the MD5 is the last one, os.WriteFile truncates the file
SaveBegin ==
    /\ ~saving
    /\ lastSaved # IntentCache
    /\ saving' = TRUE
    /\ cacheFile' = Unknown
    /\ UNCHANGED <<vaildMinScore, registered, IntentCache, call, lastSaved, crashes>>

\* ... and writes the cache, which the read lock kept as it was
SaveEnd ==
    /\ saving
    /\ saving' = FALSE
    /\ cacheFile' = IntentCache
    /\ lastSaved' = IntentCache
    /\ UNCHANGED <<vaildMinScore, registered, IntentCache, call, crashes>>

\* os.WriteFile fails: the error is logged
SaveFails ==
    /\ saving
    /\ saving' = FALSE
    /\ UNCHANGED <<vaildMinScore, registered, IntentCache, call, cacheFile, lastSaved, crashes>>

\* The process ends, killed or by a concurrent map access, and starts again: the calls in
\* progress are gone, Run registers the matchers and LoadIntentCache reads the file
CrashAndLoad ==
    /\ crashes < MaxCrashes
    /\ crashes' = crashes + 1
    /\ pc' = [k \in Calls |-> IF pc[k] = "unused" THEN "unused" ELSE "gone"]
    /\ registered' = Intents
    /\ saving' = FALSE
    /\ IntentCache' = IF cacheFile = Unknown THEN Empty ELSE cacheFile
    /\ lastSaved' = cacheFile
    /\ running' = [k \in Calls |-> {}]
    /\ matched' = [k \in Calls |-> {}]
    /\ best' = [k \in Calls |-> NoIntent]
    /\ hints' = [k \in Calls |-> {}]
    /\ UNCHANGED <<vaildMinScore, asked, cacheFile>>

-----------------------------------------------------------------------------
(* The whole *)

Step(k) ==
    \/ ReadCache(k) \/ StartMatchers(k) \/ (pc[k] = "matching" /\ Result(k))
    \/ Conclude(k) \/ CacheContentIntent(k)

Next ==
    \/ \E k \in Calls : Step(k)
    \/ \E i \in Changing : Register(i) \/ UnRegister(i)
    \/ SaveBegin \/ SaveEnd \/ SaveFails \/ CrashAndLoad

Spec == Init /\ [][Next]_vars

\* Goroutines are scheduled fairly; os.WriteFile returns, one way or the other; an
\* RWMutex lets a waiting writer in before later readers
FairSpec ==
    /\ Spec
    /\ \A k \in Calls : SF_vars(Step(k))
    /\ WF_vars(SaveEnd \/ SaveFails)
-----------------------------------------------------------------------------
(* Properties *)

\* Every variable holds a value of its kind: the state of IntentMatchManager, of its calls
\* and of its file
TypeOK ==
    /\ vaildMinScore \in MinScores
    /\ registered \subseteq Intents
    /\ IntentCache \in Caches
    /\ pc \in [Calls -> {"unused", "hit", "miss", "none", "matching", "caching", "won",
                         "lost", "gone"}]
    /\ asked \in [Calls -> Questions]
    /\ running \in [Calls -> SUBSET Intents]
    /\ matched \in [Calls -> SUBSET Intents]
    /\ best \in [Calls -> Intents \cup {NoIntent}]
    /\ hints \in [Calls -> SUBSET Intents]
    /\ cacheFile \in Caches \cup {Unknown}
    /\ lastSaved \in Caches \cup {Unknown}
    /\ saving \in BOOLEAN
    /\ crashes \in 0..MaxCrashes

\* In whatever order the matchers answer, the winner is one of the best of all that were
\* asked, reaches vaildMinScore, and its score is among the three possible intentions
\* that the call returns beside it; a call without a winner missed none; and the empty name
\* wins only if vaildMinScore is 0 and all matchers answered 0
WinnerIsBest ==
    \A k \in Calls :
        LET nameless == pc[k] \in {"caching", "won"} /\ best[k] = NoIntent
            won == pc[k] \in {"caching", "won"} /\ best[k] # NoIntent
        IN
        /\ won => /\ Says(k, best[k]) >= vaildMinScore
                  /\ \A i \in matched[k] : Says(k, i) <= Says(k, best[k])
                  /\ \E i \in hints[k] : Says(k, i) = Says(k, best[k])
        /\ nameless => vaildMinScore = 0 /\ \A i \in matched[k] : Says(k, i) = 0
        /\ pc[k] = "lost" => \A i \in matched[k] : Says(k, i) < vaildMinScore

\* A call that matched and could cache, and whose matcher of i reached the threshold
EarnedBy(j, c, i) ==
    /\ pc[j] \in {"caching", "won", "gone"} /\ Saves(j)
    /\ Content(j) = c
    /\ IF i = NoIntent THEN vaildMinScore = 0 ELSE Says(j, i) >= vaildMinScore

\* Whatever the cache says of a content, its file says, or a hit returns, was earned by an
\* earlier call that asked the matchers about that very content and reached vaildMinScore
\* with its own attachments; even after a crash.  The attachments of a hit are not looked
\* at: it may name an intent that its own attachments do not earn
AnswersAreEarned ==
    /\ \A f \in {IntentCache, cacheFile} \ {Unknown} : \A c \in Contents :
          f[c] # Absent => \E j \in Calls : EarnedBy(j, c, f[c])
    /\ \A k \in Calls :
          pc[k] = "hit" => \E j \in Calls : EarnedBy(j, Content(k), best[k])

\* Every call returns, unless the process crashes: neither the matchers, nor the cache
\* mutex, nor a save that fails keep it forever
CallsReturn ==
    \A k \in Calls : pc[k] \in {"miss", "matching", "caching"}
                       ~> pc[k] \in {"none", "won", "lost", "gone"}
=============================================================================
