\* Two calls, four matchers of which one comes and goes, a threshold or none, one crash
SPECIFICATION FairSpec
CONSTANTS
    c1 = c1  c2 = c2  a1 = a1  a2 = a2  i1 = i1  i2 = i2  i3 = i3  i4 = i4  k1 = k1  k2 = k2  k3 = k3
    Intents = {i1, i2, i3, i4}
    Contents = {c1, c2}
    Attachments = {a1, a2}
    Questions <- MCQuestions
    Score <- MCScore
    Changing = {i1}
    MinScores = {0, 2}
    Calls = {k1, k2}
    MaxCrashes = 1
    NoIntent = NoIntent  Absent = Absent  Unknown = Unknown
INVARIANTS TypeOK WinnerIsBest AnswersAreEarned
PROPERTIES CallsReturn
