\* One read() of two bytes after the other.
SPECIFICATION Spec
CONSTANTS
    ReadCalls = {"all"}
    WriteCalls = {}
    TimedCalls = {}
    Length = 2
    MaxReads = 2
    MaxWrites = 0
    StreamLength = 2
    SendBuffer = 1
    MaxInterrupts = 0
    MayShutdown = FALSE
CHECK_DEADLOCK FALSE
INVARIANT ReadFillsBuffer
