\* One thread enters run() while another one posts a task.
SPECIFICATION FairSpec
CONSTANTS
    ThreadNum = 1
    Posters = {p1}
    BlockingFlag = "BLOCKING"
    MaxTasks = 1
    RecordSize = 1
    Capacity = 3
CHECK_DEADLOCK FALSE
PROPERTY EveryPostRuns
