--------------------------- MODULE MCConnections ---------------------------
(***************************************************************************)
(* How connections come to be and end: Sockets, Dialer and Listener, side  *)
(* by side.  Each abstracts from the others, so that the initial state     *)
(* picks the instance that runs, as in MCUtilities.                        *)
(***************************************************************************)
EXTENDS Integers

CONSTANTS
    Owner, OwnedSockets, OwnedFds,              \* Sockets, in one thread
    Threads, MaxSockets, MaxFds, MayClose,      \* Sockets, in several
    Callers, MaxCalls, MaxInterrupts,           \* Dialer
    Fiber,                                      \* Listener, with one acceptor
    Acceptors, Server, MaxTimeouts, MayFail,    \* Listener, with several
    RemoteClose, MaxConnections,
    ServerConnections, ServerInterrupts         \* bounds of the listener with one acceptor

VARIABLES
    part,                                                       \* what runs
    pc, interrupts,
    files, interest, made, state, handle, notifier, watched,    \* Sockets
    pooled, mine, dial_handle,
    is_connecting, dial_socket, initialized, network, calls,    \* Dialer
    error, connection, lost, ipc,
    backlog, connected, pending, atomic_count, count,           \* Listener
    is_listening, has_socket, has_address, cpc, timeouts,
    running, accepted, failed

socketGroup == <<files, interest, made, state, handle, notifier, watched, pooled, mine, dial_handle>>
dialerGroup == <<is_connecting, dial_socket, initialized, network, calls, error, connection, lost, ipc>>
listenerGroup == <<backlog, connected, pending, atomic_count, count, is_listening, has_socket,
                   has_address, cpc, timeouts, running, accepted, failed>>
vars == <<part, pc, interrupts, socketGroup, dialerGroup, listenerGroup>>

-----------------------------------------------------------------------------
\* One thread accepts, dials and destroys, and any step of setting up may fail.
Owned == INSTANCE Sockets
            WITH Threads <- {Owner}, MaxSockets <- OwnedSockets, MaxFds <- OwnedFds,
                 MayClose <- FALSE

\* Several threads do this, and close.
Shared == INSTANCE Sockets

\* Threads call connect(), another one interrupts.
Dialing == INSTANCE Dialer

\* A fiber accepts until another fiber of the thread closes the listener.
Serving == INSTANCE Listener
            WITH Acceptors <- {Fiber}, Server <- {Fiber}, MayFail <- FALSE, MayClose <- TRUE,
                 RemoteClose <- FALSE, MaxConnections <- ServerConnections, MaxTimeouts <- 0,
                 MaxInterrupts <- ServerInterrupts

\* Several fibers, some of which accept once, timeouts, errors and a close().
Sharing == INSTANCE Listener

-----------------------------------------------------------------------------
Absent == <<>>

NoSockets ==
    /\ files = Absent /\ interest = Absent /\ made = Absent /\ state = Absent /\ handle = Absent
    /\ notifier = Absent /\ watched = Absent /\ pooled = Absent /\ mine = Absent
    /\ dial_handle = Absent
NoDialer ==
    /\ is_connecting = Absent /\ dial_socket = Absent /\ initialized = Absent /\ network = Absent
    /\ calls = Absent /\ error = Absent /\ connection = Absent /\ lost = Absent /\ ipc = Absent
NoListener ==
    /\ backlog = Absent /\ connected = Absent /\ pending = Absent /\ atomic_count = Absent
    /\ count = Absent /\ is_listening = Absent /\ has_socket = Absent /\ has_address = Absent
    /\ cpc = Absent /\ timeouts = Absent /\ running = Absent /\ accepted = Absent /\ failed = Absent

Init ==
    \/ part = "one" /\ Owned!Init /\ interrupts = Absent /\ NoDialer /\ NoListener
    \/ part = "many" /\ Shared!Init /\ interrupts = Absent /\ NoDialer /\ NoListener
    \/ part = "dialing" /\ Dialing!Init /\ NoSockets /\ NoListener
    \/ part = "serving" /\ Serving!Init /\ NoSockets /\ NoDialer
    \/ part = "sharing" /\ Sharing!Init /\ NoSockets /\ NoDialer

Step ==
    \/ part = "one" /\ Owned!Next /\ UNCHANGED <<interrupts, dialerGroup, listenerGroup>>
    \/ part = "many" /\ Shared!Next /\ UNCHANGED <<interrupts, dialerGroup, listenerGroup>>
    \/ part = "dialing" /\ Dialing!Next /\ UNCHANGED <<socketGroup, listenerGroup>>
    \/ part = "serving" /\ Serving!Next /\ UNCHANGED <<socketGroup, dialerGroup>>
    \/ part = "sharing" /\ Sharing!Next /\ UNCHANGED <<socketGroup, dialerGroup>>

Next == Step /\ UNCHANGED part

\* For the server fiber: the threads run and epoll reports; clients, interrupts
\* and close() need not come.  A ready fiber is not overtaken for ever, since
\* the ready queue is a FIFO.
Fairness ==
    /\ SF_vars(part = "serving" /\ Serving!AcceptStep(Fiber) /\ Next)
    /\ WF_vars(part = "serving" /\ Serving!Select /\ Next)
    /\ WF_vars(part = "serving" /\ Serving!CloseStep /\ Next)

Spec == Init /\ [][Next]_vars /\ Fairness

-----------------------------------------------------------------------------
\* Sockets: as long as nobody calls TcpConnection::close() and one thread does
\* all, no destructor closes the descriptor of another connection, although
\* each descriptor is closed more than once, and no deregisterObject() takes
\* its registration away.
ConnectionsInv == part = "one" => Owned!ConnectionsInv

\* Sockets: the pointers that select() gets from epoll are to notifiers in use,
\* and whatever failed on the way, only open connections have descriptors when
\* no thread is at work.
SocketsInv == part = "many" => Shared!SocketsInv

\* Dialer: as long as no call of connect() meets another, an attempt has
\* _event_dial_socket to itself, and after every connect(), failed or not, the
\* next one can begin.
DialerInv == part = "dialing" => Dialing!DialerInv

\* Listener: every connection is accepted once, lost with an error, or still in
\* the backlog, and accept() does not touch what a close() in the same thread
\* has taken apart.
ListenerInv == part = "sharing" => Sharing!ListenerInv

\* Listener: besides, the only acceptor is not left waiting beside a connection.
NoConnectionIsMissed == part = "serving" => Serving!ListenerInv /\ Serving!NoMissedConnection

\* Listener: a fiber that accepts again and again takes every connection, until
\* the listener is closed.
EveryConnectionIsAccepted ==
    part = "serving" /\ backlog # 0 ~> part = "serving" /\ Serving!BacklogIsServed

\* Listener: close() ends the accept() that waits.
CloseEndsAccept ==
    part = "serving" /\ ~is_listening ~> part = "serving" /\ Serving!NobodyWaits
=============================================================================
