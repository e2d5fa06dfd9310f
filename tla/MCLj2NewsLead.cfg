SPECIFICATION Spec
CONSTANTS
    Feeds <- LongLead
    StartDate = 2
    DateOf <- MCDateOf
    Blanks = {"blank"}
    LongStarts = {"long"}
    MaxHops = 1
    Proxies = {TRUE}
    UrlPipeSize = 1
    PipeSize = 1
    LynxBuffer = 1
    None = None
INVARIANT PostedFaithfully
\* lj2news ends when everything is posted.
CHECK_DEADLOCK FALSE
