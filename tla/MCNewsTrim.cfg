SPECIFICATION Spec
CONSTANTS
    FullLog <- MCFullLog
    Days <- MCDays
    Batch = 2
    Trimmed = 2
    MaxCrashes = 0
PROPERTY EventuallyPlotted
CHECK_DEADLOCK FALSE
