\* One thread.  Two others post and call two tasks; the handlers post,
\* dispatch, sleep or terminate.  The ring does not wrap.
SPECIFICATION AllSpec
CONSTANTS
    ThreadNum = 1
    Posters = {p1, p2}
    BlockingFlag = "BLOCKING"
    MaxTasks = 2
    RecordSize = 2
    Capacity = 5
CHECK_DEADLOCK FALSE
INVARIANTS
    ContextInv
    NoLostWakeup
    NetInv
PROPERTIES
    PostedTasksRun
    TerminateEndsRun
