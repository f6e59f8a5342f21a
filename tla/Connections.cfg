\* Five small instances side by side: descriptors in one thread and in two, two
\* callers of connect(), a listener with one fiber and one with three, two of
\* which accept again and again.
SPECIFICATION Spec
CONSTANTS
    Owner = a
    OwnedSockets = 5
    OwnedFds = 3
    Threads = {a, b}
    MaxSockets = 4
    MaxFds = 2
    MayClose = TRUE
    Callers = {a, b}
    MaxCalls = 2
    MaxInterrupts = 2
    Fiber = a
    Acceptors = {a, b, c}
    Server = {a, b}
    MaxTimeouts = 2
    MayFail = TRUE
    RemoteClose = FALSE
    MaxConnections = 3
    ServerConnections = 4
    ServerInterrupts = 2
CHECK_DEADLOCK FALSE
INVARIANTS
    ConnectionsInv
    SocketsInv
    DialerInv
    ListenerInv
    NoConnectionIsMissed
PROPERTIES
    EveryConnectionIsAccepted
    CloseEndsAccept
