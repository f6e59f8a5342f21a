------------------------------ MODULE Listener ------------------------------
(***************************************************************************)
(* TcpListener (net/tcp/detail/linux/TcpListener.cpp): fibers of one       *)
(* thread call accept(), which tries accept4() and waits on the semaphore  *)
(* of EVENT_IN until select() or close() notifies it.                      *)
(*                                                                         *)
(* close() runs in a fiber of the same thread, or in a thread of its own:  *)
(* RemoteClose.  The clients are external.  The calls of the semaphore are *)
(* single steps (BasicSemaphore has them in detail).                       *)
(***************************************************************************)
EXTENDS Integers, FiniteSets

CONSTANTS
    Acceptors,      \* fibers that call accept()
    Server,         \* the acceptors that call accept() again and again
    MaxTimeouts,    \* bound: accept()s that time out; 0 without setAcceptTimeout()
    MayFail,        \* BOOLEAN: accept4() and init() can fail
    MayClose,       \* BOOLEAN: close() is called
    RemoteClose,    \* BOOLEAN: by another thread
    MaxConnections, \* bound: connections of clients
    MaxInterrupts   \* bound: calls of interrupt()

Nobody == "nobody"

VARIABLES
    backlog,        \* socket: connections that wait to be accepted
    connected,      \* how many there have been
    pending,        \* epoll: the socket is in the list of ready descriptors
    atomic_count,   \* EventNotifier::_semaphores[EVENT_IN]: _atomic_count
    count,          \* and _count
    is_listening,   \* _is_listening
    has_socket,     \* _event_listen_socket
    has_address,    \* _local_address
    cpc,            \* where close() is
    interrupts,     \* calls of interrupt()
    timeouts,       \* accept()s that have timed out
    running,        \* the fiber that has the thread
    pc,             \* where each acceptor is
    accepted,       \* connections that accept() returned
    failed          \* connections that were lost with an error

socketVars == <<backlog, connected, pending>>
semaphoreVars == <<atomic_count, count>>
listenerVars == <<is_listening, has_socket, has_address, cpc, interrupts>>
fiberVars == <<running, pc, accepted, failed>>
vars == <<socketVars, semaphoreVars, listenerVars, timeouts, fiberVars>>

Init ==
    /\ backlog = 0 /\ connected = 0 /\ pending = FALSE
    /\ atomic_count = 0 /\ count = 0
    /\ is_listening = TRUE /\ has_socket = TRUE /\ has_address = TRUE
    /\ cpc = "open" /\ interrupts = 0 /\ timeouts = 0
    /\ running = Nobody
    /\ pc = [f \in Acceptors |-> "idle"]
    /\ accepted = 0
    /\ failed = 0

-----------------------------------------------------------------------------
(* The clients, epoll, and the semaphore. *)

ClientConnects ==
    /\ connected < MaxConnections
    /\ has_socket
    /\ connected' = connected + 1
    /\ backlog' = backlog + 1
    /\ pending' = TRUE
    /\ UNCHANGED <<semaphoreVars, listenerVars, timeouts, fiberVars>>

Woken(f) == pc[f] = "wait" /\ count > 0

\* BasicSemaphore::notify().
Notify ==
    /\ atomic_count' = atomic_count + 1
    /\ count' = IF atomic_count < 0 THEN count + 1 ELSE count

\* select() runs when no fiber is ready; one edge is one notification, however
\* many connections there are.
Select ==
    /\ running = Nobody
    /\ \A f \in Acceptors : ~Woken(f)
    /\ pending
    /\ pending' = FALSE
    /\ IF backlog > 0 THEN Notify ELSE UNCHANGED semaphoreVars
    /\ UNCHANGED <<backlog, connected, listenerVars, timeouts, fiberVars>>

-----------------------------------------------------------------------------
(* accept() *)

Goto(f, place) == pc' = [pc EXCEPT ![f] = place]

\* An acceptor that is no server calls accept() once.
Return(f) ==
    /\ Goto(f, IF f \in Server THEN "idle" ELSE "done")
    /\ running' = Nobody

Accept(f) ==
    /\ running = Nobody
    /\ pc[f] = "idle"
    /\ IF is_listening
       THEN Goto(f, "address") /\ running' = f
       ELSE Goto(f, "done") /\ UNCHANGED running
    /\ UNCHANGED <<socketVars, semaphoreVars, listenerVars, timeouts, accepted, failed>>

\* What a null _local_address does is left out, like a null socket below.  The
\* operation has the object, or none.
MakeOperation(f) ==
    /\ pc[f] = "address" /\ has_address
    /\ IF has_socket THEN Goto(f, "is_open") /\ UNCHANGED running ELSE Return(f)
    /\ UNCHANGED <<socketVars, semaphoreVars, listenerVars, timeouts, accepted, failed>>

\* Faulty variants are what a slip in the code would make of the definition
\* that follows them; no action uses them.  Faulty: is_open() is not asked.
IsOpenUnasked(f) ==
    /\ pc[f] = "is_open"
    /\ Goto(f, "try")
    /\ UNCHANGED <<socketVars, semaphoreVars, listenerVars, timeouts, running, accepted, failed>>

IsOpen(f) ==
    /\ pc[f] = "is_open"
    /\ IF is_listening THEN Goto(f, "try") /\ UNCHANGED running ELSE Return(f)
    /\ UNCHANGED <<socketVars, semaphoreVars, listenerVars, timeouts, accepted, failed>>

\* nonBlockingAccept() takes one connection.
TryAccepts(f) ==
    /\ pc[f] = "try" /\ has_socket
    /\ backlog > 0
    /\ backlog' = backlog - 1
    /\ accepted' = accepted + 1
    /\ Return(f)
    /\ UNCHANGED <<connected, pending, semaphoreVars, listenerVars, timeouts, failed>>

\* Another error than EAGAIN is returned, and so is one of init() of the new
\* socket: with the connection lost, or still in the backlog.
TryFails(f) ==
    /\ MayFail
    /\ pc[f] = "try" /\ has_socket
    /\ backlog > 0
    /\ \/ backlog' = backlog - 1 /\ failed' = failed + 1
       \/ UNCHANGED <<backlog, failed>>
    /\ Return(f)
    /\ UNCHANGED <<connected, pending, semaphoreVars, listenerVars, timeouts, accepted>>

\* Faulty: a waiter that finds permits left on the fast path blocks all the
\* same.
TryBlocksAlways(f) ==
    /\ pc[f] = "try" /\ has_socket
    /\ backlog = 0
    /\ atomic_count' = atomic_count - 1
    /\ Goto(f, "wait") /\ running' = Nobody
    /\ UNCHANGED <<socketVars, count, listenerVars, timeouts, accepted, failed>>

\* EAGAIN: wait() or waitFor().
TryAgain(f) ==
    /\ pc[f] = "try" /\ has_socket
    /\ backlog = 0
    /\ atomic_count' = atomic_count - 1
    /\ IF atomic_count < 1
       THEN Goto(f, "wait") /\ running' = Nobody
       ELSE Goto(f, "is_open") /\ UNCHANGED running
    /\ UNCHANGED <<socketVars, count, listenerVars, timeouts, accepted, failed>>

WakeUp(f) ==
    /\ running = Nobody
    /\ Woken(f)
    /\ count' = count - 1
    /\ Goto(f, "is_open") /\ running' = f
    /\ UNCHANGED <<socketVars, atomic_count, listenerVars, timeouts, accepted, failed>>

TimesOut(f) ==
    /\ timeouts < MaxTimeouts
    /\ running = Nobody
    /\ pc[f] = "wait" /\ ~Woken(f)
    /\ count' = count - 1
    /\ Goto(f, IF f \in Server THEN "idle" ELSE "done")
    /\ timeouts' = timeouts + 1
    /\ UNCHANGED <<socketVars, atomic_count, listenerVars, running, accepted, failed>>

-----------------------------------------------------------------------------
(* interrupt() sets the flag of an operation of its own, so it only notifies; *)
(* close().                                                                   *)

Interrupt ==
    /\ interrupts < MaxInterrupts
    /\ has_socket /\ cpc = "open"
    /\ interrupts' = interrupts + 1
    /\ Notify
    /\ UNCHANGED <<socketVars, is_listening, has_socket, has_address, cpc, timeouts, fiberVars>>

\* The thread is the closer's: a fiber in close() is not disturbed by others.
Close ==
    /\ MayClose
    /\ cpc = "open"
    /\ RemoteClose \/ running = Nobody
    /\ is_listening' = FALSE
    /\ cpc' = "interrupt"
    /\ IF RemoteClose THEN UNCHANGED running ELSE running' = "closer"
    /\ UNCHANGED <<socketVars, semaphoreVars, has_socket, has_address, interrupts,
                   timeouts, pc, accepted, failed>>

\* Faulty: close() does not notify.
CloseInterruptsNobody ==
    /\ cpc = "interrupt"
    /\ cpc' = "socket"
    /\ UNCHANGED <<socketVars, semaphoreVars, is_listening, has_socket, has_address, interrupts,
                   timeouts, fiberVars>>

CloseInterrupts ==
    /\ cpc = "interrupt"
    /\ cpc' = "socket"
    /\ Notify
    /\ UNCHANGED <<socketVars, is_listening, has_socket, has_address, interrupts, timeouts, fiberVars>>

CloseResetsSocket ==
    /\ cpc = "socket"
    /\ has_socket' = FALSE
    /\ cpc' = "address"
    /\ UNCHANGED <<socketVars, semaphoreVars, is_listening, has_address, interrupts, timeouts, fiberVars>>

CloseResetsAddress ==
    /\ cpc = "address"
    /\ has_address' = FALSE
    /\ cpc' = "closed"
    /\ IF RemoteClose THEN UNCHANGED running ELSE running' = Nobody
    /\ UNCHANGED <<socketVars, semaphoreVars, is_listening, has_socket, interrupts,
                   timeouts, pc, accepted, failed>>

-----------------------------------------------------------------------------
AcceptStep(f) ==
    \/ Accept(f) \/ MakeOperation(f) \/ IsOpen(f)
    \/ TryAccepts(f) \/ TryFails(f) \/ TryAgain(f) \/ WakeUp(f)

CloseStep == CloseInterrupts \/ CloseResetsSocket \/ CloseResetsAddress

Next ==
    \/ \E f \in Acceptors : AcceptStep(f) \/ TimesOut(f)
    \/ Select \/ ClientConnects \/ Interrupt \/ Close \/ CloseStep

Spec == Init /\ [][Next]_vars

-----------------------------------------------------------------------------
\* The types of the variables.
TypeOK ==
    /\ backlog \in 0..MaxConnections
    /\ atomic_count \in Int
    /\ count \in Int /\ count >= -timeouts
    /\ running \in Acceptors \cup {Nobody, "closer"}
    /\ cpc \in {"open", "interrupt", "socket", "address", "closed"}
    /\ pc \in [Acceptors -> {"idle", "address", "is_open", "try", "wait", "done"}]
    /\ \A f \in Acceptors : running = f <=> pc[f] \in {"address", "is_open", "try"}

\* Every connection is accepted once, lost with an error, or in the backlog.
EveryConnectionCounts == connected = accepted + failed + backlog

\* accept() does not use the listener that close() has taken apart: what it
\* needs is there whenever it needs it.
AcceptHasListener ==
    \A f \in Acceptors :
        /\ pc[f] = "address" => has_address
        /\ pc[f] = "try" => has_socket

\* An acceptor is not left waiting beside a connection: another fiber will
\* take it, or a notification is due.
NoMissedConnection ==
    /\ backlog > 0 /\ running = Nobody /\ has_socket
    /\ \A f \in Acceptors : pc[f] = "wait"
    => pending \/ count > 0

\* Where a server fiber leaves the listener, unless it is closed.
BacklogIsServed == backlog = 0 \/ ~is_listening

\* Where close() leaves the acceptors.
NobodyWaits == \A f \in Acceptors : pc[f] # "wait"

\* The states of a listener, closed in the thread of its acceptors or not.
ListenerInv == TypeOK /\ EveryConnectionCounts /\ AcceptHasListener
=============================================================================
