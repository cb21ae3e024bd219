\* Two messages about two dialogs, and one answer of each process
SPECIFICATION Spec
CONSTANTS
    d1 = d1  d2 = d2  m1 = m1  m2 = m2  m3 = m3  i1 = i1  i2 = i2  i3 = i3
    Dialogs = {d1, d2}
    Intents = {i1}
    Programs = {i1}
    Msgs = {m1, m2}
    Requests = {1001, 1002}
    Answers = {0, 2002}
    MaxAnswers = 1
    IdleSessions = {}
    NoIntent = NoIntent  None = None
\* everything was sent and the processes rest
SYMMETRY Symm
CHECK_DEADLOCK FALSE
INVARIANTS TypeOK NoTurnToTheGone NoDeadEntry ConnectionIsRead
