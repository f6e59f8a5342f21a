SPECIFICATION Spec
CONSTANTS
    ThreadNum = 2
    Posters = {p1}
    BlockingFlag = "BLOCKING"
    MaxTasks = 2
    RecordSize = 1
    Capacity = 3
CONSTRAINT NotOverReleased
CHECK_DEADLOCK FALSE
INVARIANTS
    NoLostTermination
    PickNextFindsAll
