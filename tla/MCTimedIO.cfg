SPECIFICATION Spec
CONSTANTS
    BufferSize = 2
    FirstSize = 1
    Timeouts = {0, 1}
    WriteSizes = {1, 3}
    MaxWritten = 4
    Text <- MCText
    Newline = "n"
INVARIANT TypeOK
PROPERTIES
    ImplementsStream
    CallsEnd
\* A handle that has been closed is not used again.
CHECK_DEADLOCK FALSE
