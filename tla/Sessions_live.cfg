\* Two messages about one dialog, whose processes may end or stay idle
SPECIFICATION FairSpec
CONSTANTS
    d1 = d1  d2 = d2  m1 = m1  m2 = m2  m3 = m3  i1 = i1  i2 = i2  i3 = i3
    Dialogs = {d1}
    Intents = {i1}
    Programs = {i1}
    Msgs = {m1, m2}
    Requests = {1001, 1002}
    Answers = {}
    MaxAnswers = 1
    IdleSessions = {m1}
    NoIntent = NoIntent  None = None
\* everything was sent and the processes rest
CHECK_DEADLOCK FALSE
INVARIANTS CloseIsFinal
PROPERTIES HandlersReturn DeadSessionLeaves
