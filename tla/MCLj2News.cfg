SPECIFICATION Spec
CONSTANTS
    Feeds <- MCFeeds
    StartDate = 2
    DateOf <- MCDateOf
    Blanks = {"blank"}
    LongStarts = {"long"}
    MaxHops = 1
    Proxies = {TRUE}
    UrlPipeSize = 1
    PipeSize = 1
    LynxBuffer = 1
    None = None
INVARIANTS
    TypeOK
    GoodBodyOnly
    PostedFaithfully
PROPERTIES
    MainEnds
\* lj2news ends, or waits for ever after a response it does not understand.
CHECK_DEADLOCK FALSE
