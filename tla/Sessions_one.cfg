\* A process that says it is done, and the turns that follow
SPECIFICATION Spec
CONSTANTS
    d1 = d1  d2 = d2  m1 = m1  m2 = m2  m3 = m3  i1 = i1  i2 = i2  i3 = i3
    Dialogs = {d1}
    Intents = {i1}
    Programs = {i1}
    Msgs = {m1, m2, m3}
    Requests = {1001}
    Answers = {2002}
    MaxAnswers = 1
    IdleSessions = {}
    NoIntent = NoIntent  None = None
CHECK_DEADLOCK FALSE
INVARIANTS OneProcessPerDialog
