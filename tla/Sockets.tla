------------------------------ MODULE Sockets ------------------------------
(***************************************************************************)
(* Who owns a file descriptor and an epoll registration: TcpSocket in an   *)
(* EventObject, EpollSelector::registerObject and deregisterObject, and    *)
(* the connections that TcpListener::accept() and TcpDialer::connect()     *)
(* make of them, one connect() of a dialer at a time.                      *)
(*                                                                         *)
(* The kernel's table of descriptors and epoll's list of interest, which   *)
(* forgets a file that is closed, are external.  One action is one system  *)
(* call of a thread with what the code does until the next one.            *)
(***************************************************************************)
EXTENDS Integers, FiniteSetsExt

CONSTANTS
    Threads,    \* threads that run the NetContext
    MaxSockets, \* bound: how many sockets are made
    MaxFds,     \* bound: how many descriptors there are
    MayClose    \* BOOLEAN: does the application call TcpConnection::close()

Socks == 1..MaxSockets
Fds == 1..MaxFds
Notifiers == 1..MaxSockets
None == 0       \* INVALID_FD, no file, no notifier, no socket

VARIABLES
    files,      \* kernel: the socket that is open under each descriptor
    interest,   \* epoll: descriptor, socket and notifier of each registration
    made,       \* how many sockets were made
    state,      \* of each socket: is it being set up, open, closed or gone
    handle,     \* TcpSocket::_socket_fd of the connection
    notifier,   \* EventObject::_event_notifier
    watched,    \* EventNotifier::_descriptor
    pooled,     \* notifiers that are in the pool
    pc,         \* where each thread is
    mine,       \* the socket it works on
    dial_handle \* _socket_fd in TcpDialer::_event_dial_socket

kernelVars == <<files, interest>>
objectVars == <<state, handle, notifier, watched, pooled>>
vars == <<kernelVars, made, objectVars, pc, mine, dial_handle>>

Init ==
    /\ files = [f \in Fds |-> None]
    /\ interest = {}
    /\ made = 0
    /\ state = [s \in Socks |-> "unused"]
    /\ handle = [s \in Socks |-> None]
    /\ notifier = [s \in Socks |-> None]
    /\ watched = [n \in Notifiers |-> None]
    /\ pooled = Notifiers
    /\ pc = [t \in Threads |-> "idle"]
    /\ mine = [t \in Threads |-> None]
    /\ dial_handle = [t \in Threads |-> None]

Goto(t, place) == pc' = [pc EXCEPT ![t] = place]
Finish(t) == Goto(t, "idle") /\ mine' = [mine EXCEPT ![t] = None]

\* close(): EBADF, or the file is gone, with its registration.
CloseFile(f) ==
    /\ files' = [files EXCEPT ![f] = None]
    /\ interest' = {r \in interest : r[2] # files[f]}

\* EPOLL_CTL_DEL finds the registration by the file that is open under f now.
Deregister(f) ==
    interest' = IF files[f] = None THEN interest
                ELSE {r \in interest : ~(r[1] = f /\ r[2] = files[f])}

-----------------------------------------------------------------------------
(* Making a connection *)

\* accept4() or socket(): the lowest descriptor that is free.
NewSocket(t, place) ==
    /\ pc[t] = "idle"
    /\ made < MaxSockets
    /\ \E f \in Fds : files[f] = None
    /\ made' = made + 1
    /\ LET f == Min({g \in Fds : files[g] = None})
       IN  /\ files' = [files EXCEPT ![f] = made']
           /\ handle' = [handle EXCEPT ![made'] = f]
           /\ dial_handle' = [dial_handle EXCEPT ![t] = IF place = "dial_init" THEN f ELSE None]
    /\ state' = [state EXCEPT ![made'] = "setup"]
    /\ mine' = [mine EXCEPT ![t] = made']
    /\ Goto(t, place)
    /\ UNCHANGED <<interest, notifier, watched, pooled>>

Accept(t) == NewSocket(t, "init")
DialOpen(t) == NewSocket(t, "dial_init")

\* EventObject::init(); for the socket of a connection it is the last step.
\* epoll registers the file that is open under the descriptor, once.
InitObject(t) ==
    /\ pc[t] \in {"init", "dial_init"}
    /\ files[handle[mine[t]]] # None
    /\ \A r \in interest : r[2] # files[handle[mine[t]]]
    /\ LET s == mine[t]
           n == Min(pooled)
       IN  /\ pooled' = pooled \ {n}
           /\ watched' = [watched EXCEPT ![n] = handle[s]]
           /\ interest' = interest \cup {<<handle[s], files[handle[s]], n>>}
           /\ notifier' = [notifier EXCEPT ![s] = n]
           /\ state' = [state EXCEPT ![s] = IF pc[t] = "init" THEN "open" ELSE @]
    /\ Goto(t, IF pc[t] = "init" THEN "finally" ELSE "dial")
    /\ UNCHANGED <<files, made, handle, mine, dial_handle>>

\* Faulty variants are what a slip in the code would make of the definition
\* that follows them; no action uses them.  Faulty: nobody closes the socket.
InitObjectFailsOpen(t) ==
    /\ pc[t] \in {"init", "dial_init"}
    /\ state' = [state EXCEPT ![mine[t]] = "gone"]
    /\ dial_handle' = [dial_handle EXCEPT ![t] = None]
    /\ Finish(t)
    /\ UNCHANGED <<kernelVars, made, handle, notifier, watched, pooled>>

\* epoll_ctl() or, before it, getLocalAddress() fails: the socket is closed by
\* ~TcpSocket().
InitObjectFails(t) ==
    /\ pc[t] \in {"init", "dial_init"}
    /\ state' = [state EXCEPT ![mine[t]] = "gone"]
    /\ dial_handle' = [dial_handle EXCEPT ![t] = None]
    /\ Goto(t, "close_again")
    /\ UNCHANGED <<kernelVars, made, handle, notifier, watched, pooled, mine>>

\* The attempt has failed: `finally' resets _event_dial_socket.
DialFails(t) ==
    /\ pc[t] = "dial"
    /\ state' = [state EXCEPT ![mine[t]] = "gone"]
    /\ dial_handle' = [dial_handle EXCEPT ![t] = None]
    /\ Goto(t, "close")
    /\ UNCHANGED <<kernelVars, made, handle, notifier, watched, pooled, mine>>

FreeNotifier(s) ==
    /\ pooled' = pooled \cup {notifier[s]}
    /\ watched' = [watched EXCEPT ![notifier[s]] = None]
    /\ notifier' = [notifier EXCEPT ![s] = None]

\* Faulty: the moved-from TcpSocket keeps its descriptor.
DialReleaseCopies(t) ==
    /\ pc[t] = "dial"
    /\ Deregister(watched[notifier[mine[t]]])
    /\ FreeNotifier(mine[t])
    /\ Goto(t, "init")
    /\ UNCHANGED <<files, made, state, handle, mine, dial_handle>>

\* connect() has succeeded: EventObject::release() takes the socket back and
\* moves it into the EventObject of the connection.
DialRelease(t) ==
    /\ pc[t] = "dial"
    /\ Deregister(watched[notifier[mine[t]]])
    /\ FreeNotifier(mine[t])
    /\ dial_handle' = [dial_handle EXCEPT ![t] = None]
    /\ Goto(t, "init")
    /\ UNCHANGED <<files, made, state, handle, mine>>

\* `finally': what is left in _event_dial_socket is destroyed.
Finally(t) ==
    /\ pc[t] = "finally"
    /\ IF dial_handle[t] # None THEN CloseFile(dial_handle[t]) ELSE UNCHANGED kernelVars
    /\ dial_handle' = [dial_handle EXCEPT ![t] = None]
    /\ Finish(t)
    /\ UNCHANGED <<made, objectVars>>

-----------------------------------------------------------------------------
(* Closing and destroying a connection *)

\* TcpSocket::close() keeps _socket_fd when close() succeeds.
CloseSocket(s) ==
    /\ CloseFile(handle[s])
    /\ handle' = [handle EXCEPT ![s] = IF files[@] # None THEN @ ELSE None]

\* TcpConnection::close(); one that is done twice is not looked at.
Close(t, s) ==
    /\ MayClose
    /\ pc[t] = "idle"
    /\ state[s] = "open" /\ s \notin {mine[u] : u \in Threads}
    /\ state' = [state EXCEPT ![s] = "closed"]
    /\ CloseSocket(s)
    /\ UNCHANGED <<made, notifier, watched, pooled, pc, mine, dial_handle>>

Destroy(t, s) ==
    /\ pc[t] = "idle"
    /\ state[s] \in {"open", "closed"} /\ s \notin {mine[u] : u \in Threads}
    /\ state' = [state EXCEPT ![s] = "gone"]
    /\ mine' = [mine EXCEPT ![t] = s]
    /\ Goto(t, "close")
    /\ UNCHANGED <<kernelVars, made, handle, notifier, watched, pooled, dial_handle>>

\* ~EventObject(): _resource.close(), then deregisterObject().
DestroyClose(t) ==
    /\ pc[t] = "close"
    /\ IF handle[mine[t]] # None THEN CloseSocket(mine[t]) ELSE UNCHANGED <<kernelVars, handle>>
    /\ Goto(t, "deregister")
    /\ UNCHANGED <<made, state, notifier, watched, pooled, mine, dial_handle>>

DestroyDeregister(t) ==
    /\ pc[t] = "deregister"
    /\ Deregister(watched[notifier[mine[t]]])
    /\ FreeNotifier(mine[t])
    /\ Goto(t, "close_again")
    /\ UNCHANGED <<files, made, state, handle, mine, dial_handle>>

\* ~TcpSocket() closes _socket_fd once more.
DestroySocket(t) ==
    /\ pc[t] = "close_again"
    /\ IF handle[mine[t]] # None THEN CloseSocket(mine[t]) ELSE UNCHANGED <<kernelVars, handle>>
    /\ Finish(t)
    /\ UNCHANGED <<made, state, notifier, watched, pooled, dial_handle>>

-----------------------------------------------------------------------------
MakeStep(t) ==
    \/ Accept(t) \/ DialOpen(t) \/ InitObject(t) \/ InitObjectFails(t)
    \/ DialFails(t) \/ DialRelease(t) \/ Finally(t)

EndStep(t) ==
    \/ \E s \in Socks : Close(t, s) \/ Destroy(t, s)
    \/ DestroyClose(t) \/ DestroyDeregister(t) \/ DestroySocket(t)

Next == \E t \in Threads : MakeStep(t) \/ EndStep(t)

Spec == Init /\ [][Next]_vars

-----------------------------------------------------------------------------
\* The types of the variables; a notifier is in the pool or has an owner.
TypeOK ==
    /\ files \in [Fds -> Socks \cup {None}]
    /\ interest \subseteq Fds \X Socks \X Notifiers
    /\ handle \in [Socks -> Fds \cup {None}]
    /\ \A n \in Notifiers : n \in pooled <=> \A s \in Socks : notifier[s] # n

Open(s) == state[s] \in {"setup", "open"}

\* As long as a connection is set up or open, its descriptor is its own: no
\* destructor and no close() of another connection closes it.
KeepsItsDescriptor == \A s \in Socks : Open(s) => files[handle[s]] = s

\* An open connection is registered with its notifier, so that its events
\* arrive: no deregisterObject() of another connection takes that away.
StaysRegistered ==
    \A s \in Socks : state[s] = "open" => <<handle[s], s, notifier[s]>> \in interest

\* select() gets pointers from epoll: none of them is to a notifier that is
\* back in the pool.
EpollHasLiveNotifiers == \A r \in interest : r[3] \notin pooled

\* When no thread is at work, only open connections have descriptors, whatever
\* failed on the way.
NoDescriptorLeak ==
    (\A t \in Threads : pc[t] = "idle") => \A f \in Fds : files[f] # None => Open(files[f])

\* What other connections may not take away from one that is open.
ConnectionsInv == KeepsItsDescriptor /\ StaysRegistered

\* What connections leave behind: no pointer in epoll, no descriptor.
SocketsInv == TypeOK /\ EpollHasLiveNotifiers /\ NoDescriptorLeak
=============================================================================
