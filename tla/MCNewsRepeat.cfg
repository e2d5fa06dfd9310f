SPECIFICATION Spec
CONSTANTS
    FullLog <- MCFullLog
    Days <- MCDays
    Batch = 2
    Trimmed = 1
    MaxCrashes = 0
INVARIANT NoDoubleCount
