SPECIFICATION Spec
CONSTANTS
    MsgIds = {m1, m2}
    MaxPosts = 2
    MaxSpurious = 1
INVARIANTS
    TypeOK
    FifoExactlyOnce
    LockHolder
    NoLostWakeup
    JoinMeansDrained
    PosterLeavesLast
    GoneMeansDelivered
PROPERTIES
    OnlyHolderChangesShared
    CallsReturn
    ImplementsQueue
