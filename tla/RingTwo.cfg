SPECIFICATION Spec
CONSTANTS
    p1 = p1
    p2 = p2
    Producers = {p1, p2}
    Capacity = 6
    Sizes = {2, 3}
    WRAP_LOCK_BIT = 100
    Free = Free
    Ready = Ready
CONSTRAINT NoStaleSwap
SYMMETRY Symmetry
INVARIANTS
    RingInv
    BytesInv
    AssertionsHold
PROPERTIES
    ReservesFreeBytesUnlessStale
