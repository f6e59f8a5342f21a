SPECIFICATION Spec
CONSTANTS
    ThreadNum = 2
    Posters = {p1}
    BlockingFlag = "BLOCKING"
    MaxTasks = 1
    RecordSize = 2
    Capacity = 3
CHECK_DEADLOCK FALSE
INVARIANT ReleaseStaysInBuffer
