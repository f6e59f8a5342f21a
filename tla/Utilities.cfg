\* Eight small instances side by side.  Two consumers; two writers that race for
\* the buckets; two strategies, so that fibers are stolen, and three workers, so
\* that one leaves the middle of a list; ports of which the order of the bytes shows,
\* and buffers around each limit.
SPECIFICATION Spec
CONSTANTS
    Threads = {t1, t2, t3}
    MaxLocks = 2
    Producer = t1
    Consumer = t2
    QueueChunk = 3
    QueueNodes = 11
    QueueValues = 5
    SingleChunk = 2
    SingleNodes = 14
    SingleValues = 6
    PoolChunk = 2
    PoolNodes = 4
    Writers = {t1, t2}
    Readers = {t3}
    MaxElements = 3
    Buckets = 3
    Users = {t1, t2}
    MaxObjects = 3
    MaxValues = 3
    Strategies = {s1, s2}
    Workers = {t1, t2, t3}
    V4Hosts <- SomeV4Hosts
    V6Hosts <- SomeV6Hosts
    Ports = {0, 80, 65280, 65535}
    Sizes = {3, 4, 15, 16, 27, 28}
    NULL = NULL
CHECK_DEADLOCK FALSE
INVARIANTS
    PoolInv
    ArrayInv
    MutexInv
    StorageInv
    WaitingInv
    AddressInv
PROPERTIES
    ImplementsFifo
    FalseMeansEmpty
