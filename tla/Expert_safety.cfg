\* Three messages of these kinds on one dialog, started with or without it on disk
SPECIFICATION Spec
CONSTANTS
    d1 = d1  m1 = m1  m2 = m2  m3 = m3
    i1 = i1  i2 = i2  c1 = c1  c2 = c2  c3 = c3  c4 = c4
    Dialogs = {d1}
    Intents = {i1, i2}
    Contents = {c2, c3}
    Msgs = {m1, m2, m3}
    messageformatting <- MCFormat
    Winners <- MCWinners
    HistoryLimit = 2
    ChanCap = 1
    LoadedSets <- NoneOrAll
    UserEvents = {1001, 1002}
    ProgramEvents = {2001, 2002, 2003}
    ChatEvents = {1001}
    NoIntent = NoIntent  Nobody = Nobody  Nil = Nil  NoMsg = NoMsg
SYMMETRY Symm
\* a handler that hands a message back waits for itself: the process may stop
CHECK_DEADLOCK FALSE
INVARIANTS TypeOK MutualExclusion ProgramExcludesChat ChatSeesOwnTurn TurnHandedOver
PROPERTIES LoadedEntryStays OnlyChatEndsChat ImplementsRouting
