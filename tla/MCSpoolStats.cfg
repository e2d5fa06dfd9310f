SPECIFICATION Spec
CONSTANTS
    HierarchyOrder <- MCHierarchyOrder
    Articles <- MCArticles
    Active <- MCActive
    Clients <- MCClients
    Moments <- MCMoments
    RunTimes <- MCRunTimes
    EarlierLogs <- MCEarlierLogs
    NoHeader = NoHeader
    None = None
    Gone = Gone
    Days = 1
    StartLatency = 60
    EndLatency = 86400
    Retention = 172861
    MaxRuns = 2
    CutFields = {3}
INVARIANTS TypeOK CountsExact NothingMissed ReuseRepeats
CHECK_DEADLOCK FALSE
