SPECIFICATION Spec
CONSTANTS
    FullLog <- MCFullLog
    Days <- MCDays
    Batch = 2
    Trimmed = 1
    MaxCrashes = 2
INVARIANTS
    TypeOK
    DoubleCountExplained
    SkippedOnlyBackwards
    GraphsCurrent
    PagesLinked
PROPERTIES
    EventuallyCounted
    EventuallyPlotted
