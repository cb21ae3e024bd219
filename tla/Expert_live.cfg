\* A dialog that is known or not, with parties that never hand a message back
SPECIFICATION FairSpec
CONSTANTS
    d1 = d1  m1 = m1  m2 = m2  m3 = m3
    i1 = i1  i2 = i2  c1 = c1  c2 = c2  c3 = c3  c4 = c4
    Dialogs = {d1}
    Intents = {i1}
    Contents = {c1, c3, c4}
    Msgs = {m1, m2}
    messageformatting <- MCFormat
    Winners <- MCWinners
    HistoryLimit = 1
    ChanCap = 1
    LoadedSets <- NoneOrAll
    UserEvents = {1001, 1002}
    ProgramEvents = {2001, 2004}
    ChatEvents = {2001}
    NoIntent = NoIntent  Nobody = Nobody  Nil = Nil  NoMsg = NoMsg
PROPERTIES EveryTurnHandedOver
