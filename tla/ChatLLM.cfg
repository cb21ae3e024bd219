\* Two turns of a dialog that keeps two lines, and two faults
SPECIFICATION FairSpec
CONSTANTS
    d1 = d1  t1 = t1  t2 = t2
    Dialogs = {d1}
    Turns = {t1, t2}
    MessagesLenLimit = 2
    MaxFaults = 2
    Nil = Nil  Nobody = Nobody  Begun = Begun
\* every turn was answered, or a panic ended the process
CHECK_DEADLOCK FALSE
INVARIANTS TypeOK ConversationInOrder OnlyOldLinesGo
PROPERTIES TurnsAnswered FileCatchesUp
