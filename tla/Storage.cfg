\* Two requests about one or two dialogs, a crash, and writes that may fail
SPECIFICATION FairSpec
CONSTANTS
    d1 = d1  d2 = d2  k1 = k1  k2 = k2  v1 = v1  v2 = v2  r1 = r1  r2 = r2  r3 = r3
    Dialogs = {d1, d2}
    Keys = {k1}
    Values = {v1, v2}
    Reqs = {r1, r2}
    MaxCrashes = 1
    FileStates <- MCFiles
    NoValue = NoValue  NoFile = NoFile  Torn = Torn  Unsaved = Unsaved  None = None
INVARIANTS TypeOK AnswersWereSaved SavesAreKept Md5TellsFile
PROPERTIES UnsavedIsPersisted
