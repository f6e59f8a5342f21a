SPECIFICATION QueueSpec
CONSTANTS
    p1 = p1
    p2 = p2
    Producers = {p1, p2}
    Capacity = 5
    Sizes = {2, 3}
    MaxPushes = 3
    WRAP_LOCK_BIT = 100
    Free = Free
    Ready = Ready
PROPERTY ReservesFreeBytes
