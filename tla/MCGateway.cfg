SPECIFICATION Spec
CONSTANTS
    c1 = c1
    c2 = c2
    c3 = c3
    seen1 = seen1
    seen2 = seen2
    NoFile = NoFile
    Archives <- MCArchives
    Files <- MCFiles
    FileOf <- MCFileOf
    Commits <- MCCommits
    FullLog <- MCFullLog
    Git <- MCGit
    MayLackMessage <- MCMayLackMessage
    MayBreak <- MCMayBreak
    Empty = Empty
    NULL = NULL
    Assertion = Assertion
    Fatal = Fatal
    MaxAborts = 1
INVARIANTS
    TypeOK
    OfferedOnce
    SettledIsRemembered
PROPERTIES
    LostOnlyFromQueue
    EventuallySettled
