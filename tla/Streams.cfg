\* Up to three bytes are read in two calls, some of them with a timeout; or
\* one call writes, and one reads.
SPECIFICATION BothSpec
CONSTANTS
    ReadCalls = {"some", "all"}
    WriteCalls = {}
    TimedCalls = {"IN"}
    Length = 2
    MaxReads = 2
    MaxWrites = 0
    StreamLength = 3
    SendBuffer = 1
    MaxInterrupts = 1
    MayShutdown = TRUE
CHECK_DEADLOCK FALSE
INVARIANTS
    StreamInv
PROPERTIES
    ReadGoesOn
    ShutdownEndsOperations
