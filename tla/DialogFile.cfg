\* A dialog that is on disk or not, two messages, a restart or a failing write
SPECIFICATION FairFileSpec
CONSTANTS
    d1 = d1  m1 = m1  m2 = m2  i1 = i1  c1 = c1  c3 = c3
    Dialogs = {d1}
    Intents = {i1}
    Contents = {c1, c3}
    Msgs = {m1, m2}
    messageformatting <- MCFormat
    Winners <- MCWinners
    HistoryLimit = 1
    ChanCap = 1
    LoadedSets <- NoneOrAll
    UserEvents = {1001}
    ProgramEvents = {2002}
    ChatEvents = {1001}
    NoIntent = NoIntent  Nobody = Nobody  Nil = Nil  NoMsg = NoMsg
    MaxFaults = 1
INVARIANTS FileTypeOK ExclusionSurvivesRestart SavedDialogsSurvive
PROPERTIES FileCatchesUp
