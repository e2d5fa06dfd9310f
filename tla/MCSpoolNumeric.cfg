SPECIFICATION Spec
CONSTANTS
    HierarchyOrder <- MCNumericHierarchies
    Articles <- MCNumericArticles
    Active <- MCNumericActive
    Clients <- MCClients
    Moments <- MCNumericMoments
    RunTimes <- MCRunTimes
    EarlierLogs <- MCNoLogs
    NoHeader = NoHeader
    None = None
    Gone = Gone
    Days = 1
    StartLatency = 60
    EndLatency = 86400
    Retention = 172861
    MaxRuns = 1
    CutFields = {3}
INVARIANT NothingMissed
CHECK_DEADLOCK FALSE
