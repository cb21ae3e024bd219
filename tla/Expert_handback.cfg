\* The program declines one turn of a dialog that is assigned to it
SPECIFICATION FairSpec
CONSTANTS
    d1 = d1  m1 = m1  m2 = m2  m3 = m3
    i1 = i1  i2 = i2  c1 = c1  c2 = c2  c3 = c3  c4 = c4
    Dialogs = {d1}
    Intents = {i1}
    Contents = {c1, c3}
    Msgs = {m1, m2}
    messageformatting <- MCFormat
    Winners <- MCWinners
    HistoryLimit = 2
    ChanCap = 1
    LoadedSets <- AllLoaded
    UserEvents = {1001}
    ProgramEvents = {2003}
    ChatEvents = {1001}
    NoIntent = NoIntent  Nobody = Nobody  Nil = Nil  NoMsg = NoMsg
CHECK_DEADLOCK FALSE
PROPERTIES HandBackReassigned
