\* Two producers push twice each.  After a stale swap the ring may be stuck.
SPECIFICATION BothSpec
CONSTANTS
    p1 = p1
    p2 = p2
    Producers = {p1, p2}
    Capacity = 6
    Sizes = {2, 3}
    MaxPushes = 2
    WRAP_LOCK_BIT = 100
    Free = Free
    Ready = Ready
CHECK_DEADLOCK FALSE
INVARIANTS
    RecordsInv
PROPERTIES
    ImplementsFifo
    BegunTasksArePerformed
