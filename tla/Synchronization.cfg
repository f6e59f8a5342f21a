\* The barrier: four threads.  The semaphore: two waiters that wait twice, one
\* of which may time out, and two notifiers, one of which may reset, with more
\* permits than waits.  The module gives the bounds of the queue and the array.
SPECIFICATION AllSpec
CONSTANTS
    Threads = {t1, t2, t3, t4}
    MaxRounds = 3
    Waiters = {w1, w2}
    Impatient = {w2}
    Notifiers = {n1, n2}
    InitialCount = 1
    MaxWaits = 2
    MaxNotifies = 2
    MaxResets = 1
    t1 = t1
    t2 = t2
    t3 = t3
CHECK_DEADLOCK FALSE
INVARIANTS
    BarrierInv
    SemaphoreInv
    NoStrandedPermit
PROPERTIES
    EverybodyLeavesBarrier
    CountsPermits
    EverybodyPassesSemaphore
    EverythingIsTaken
    EverythingIsPublished
