------------------------------- MODULE Dialer -------------------------------
(***************************************************************************)
(* TcpDialer (net/tcp/detail/linux/TcpDialer.cpp): one connection attempt  *)
(* at a time, kept in _event_dial_socket and guarded by _is_connecting,    *)
(* which callers of connect() share.  The two overloads of connect() do    *)
(* the same.                                                               *)
(*                                                                         *)
(* A fiber never gives the thread away in connect(): the first             *)
(* nonBlockingConnect() already has an answer, because SO_ERROR is never   *)
(* EINPROGRESS, so perform() never waits.  Callers are therefore threads.  *)
(* The network is external.                                                *)
(***************************************************************************)
EXTENDS Integers

CONSTANTS
    Callers,        \* threads that call connect()
    MaxCalls,       \* bound: calls of each
    MaxInterrupts   \* bound: calls of interrupt()

None == "none"

VARIABLES
    is_connecting,  \* _is_connecting
    dial_socket,    \* _event_dial_socket: the caller that made it
    initialized,    \* whether it has an _event_notifier
    network,        \* the attempt of each caller, as the kernel sees it
    pc,             \* where each caller is
    calls,          \* how many calls each has made
    error,          \* local `error': is there one
    connection,     \* local `connection': is there one
    lost,           \* calls that found another in progress (history)
    ipc,            \* where interrupt() is
    interrupts      \* calls of interrupt()

dialerVars == <<is_connecting, dial_socket, initialized>>
callVars == <<pc, calls, error, connection, lost>>
interruptVars == <<ipc, interrupts>>
vars == <<dialerVars, network, callVars, interruptVars>>

Init ==
    /\ is_connecting = FALSE
    /\ dial_socket = None
    /\ initialized = FALSE
    /\ network = [t \in Callers |-> "none"]
    /\ pc = [t \in Callers |-> "idle"]
    /\ calls = [t \in Callers |-> 0]
    /\ error = [t \in Callers |-> FALSE]
    /\ connection = [t \in Callers |-> FALSE]
    /\ lost = 0
    /\ ipc = "idle"
    /\ interrupts = 0

Goto(t, place) == pc' = [pc EXCEPT ![t] = place]

\* `goto finally' with an error.
Fail(t) == Goto(t, "finally") /\ error' = [error EXCEPT ![t] = TRUE]

-----------------------------------------------------------------------------
(* connect() *)

Begin(t) ==
    /\ pc[t] = "idle"
    /\ calls[t] < MaxCalls
    /\ calls' = [calls EXCEPT ![t] = @ + 1]
    /\ error' = [error EXCEPT ![t] = FALSE]
    /\ connection' = [connection EXCEPT ![t] = FALSE]
    /\ network' = [network EXCEPT ![t] = "none"]

\* Faulty variants are what a slip in the code would make of the definition
\* that follows them; no action uses them.  Faulty: the flag is not tested.
ConnectUntested(t) ==
    /\ Begin(t)
    /\ is_connecting' = TRUE
    /\ Goto(t, "open")
    /\ UNCHANGED <<dial_socket, initialized, lost, interruptVars>>

Connect(t) ==
    /\ Begin(t)
    /\ ~is_connecting
    /\ is_connecting' = TRUE
    /\ Goto(t, "open")
    /\ UNCHANGED <<dial_socket, initialized, lost, interruptVars>>

\* The exchange fails: straight on to `finally', with neither an error nor a
\* connection.
ConnectBusy(t) ==
    /\ Begin(t)
    /\ is_connecting
    /\ lost' = lost + 1
    /\ Goto(t, "finally")
    /\ UNCHANGED <<dialerVars, interruptVars>>

OpenFails(t) ==
    /\ pc[t] = "open"
    /\ Fail(t)
    /\ UNCHANGED <<dialerVars, network, calls, connection, lost, interruptVars>>

\* socket.open() and make_shared(); the object has no notifier before init().
Open(t) ==
    /\ pc[t] = "open"
    /\ dial_socket' = t
    /\ initialized' = FALSE
    /\ Goto(t, "init")
    /\ UNCHANGED <<is_connecting, network, calls, error, connection, lost, interruptVars>>

\* The caller goes through _event_dial_socket: what a null pointer does is
\* left out.
HasSocket == dial_socket # None

InitObject(t) ==
    /\ pc[t] = "init" /\ HasSocket
    /\ \/ initialized' = TRUE /\ Goto(t, "connect") /\ UNCHANGED error
       \/ Fail(t) /\ UNCHANGED initialized
    /\ UNCHANGED <<is_connecting, dial_socket, network, calls, connection, lost, interruptVars>>

\* TcpSocket::connect(): at once, EINPROGRESS, or an error.
ConnectSocket(t) ==
    /\ pc[t] = "connect" /\ HasSocket
    /\ \/ network' = [network EXCEPT ![t] = "established"] /\ Goto(t, "release") /\ UNCHANGED error
       \/ network' = [network EXCEPT ![t] = "in_progress"] /\ Goto(t, "perform") /\ UNCHANGED error
       \/ network' = [network EXCEPT ![t] = "refused"] /\ Fail(t)
    /\ UNCHANGED <<dialerVars, calls, connection, lost, interruptVars>>

\* The handshake ends, at any time.
Handshake(t) ==
    /\ network[t] = "in_progress"
    /\ \E outcome \in {"established", "refused"} : network' = [network EXCEPT ![t] = outcome]
    /\ UNCHANGED <<dialerVars, callVars, interruptVars>>

\* nonBlockingConnect(): SO_ERROR is 0 until the attempt has failed.
Perform(t) ==
    /\ pc[t] = "perform" /\ HasSocket
    /\ IF network[t] = "refused" THEN Fail(t) ELSE Goto(t, "release") /\ UNCHANGED error
    /\ UNCHANGED <<dialerVars, network, calls, connection, lost, interruptVars>>

\* release(), and the connection is made, unless getLocalAddress() or init()
\* of its socket fails.
Release(t) ==
    /\ pc[t] = "release" /\ HasSocket
    /\ initialized' = FALSE
    /\ \/ connection' = [connection EXCEPT ![t] = TRUE] /\ Goto(t, "finally") /\ UNCHANGED error
       \/ Fail(t) /\ UNCHANGED connection
    /\ UNCHANGED <<is_connecting, dial_socket, network, calls, lost, interruptVars>>

FinallyReset(t) ==
    /\ pc[t] = "finally"
    /\ dial_socket' = None
    /\ initialized' = FALSE
    /\ Goto(t, "store")
    /\ UNCHANGED <<is_connecting, network, calls, error, connection, lost, interruptVars>>

FinallyStore(t) ==
    /\ pc[t] = "store"
    /\ is_connecting' = FALSE
    /\ Goto(t, "idle")
    /\ UNCHANGED <<dial_socket, initialized, network, calls, error, connection, lost, interruptVars>>

-----------------------------------------------------------------------------
(* interrupt(), from another thread *)

Interrupt ==
    /\ ipc = "idle"
    /\ interrupts < MaxInterrupts
    /\ is_connecting
    /\ interrupts' = interrupts + 1
    /\ ipc' = "operation"
    /\ UNCHANGED <<dialerVars, network, callVars>>

\* EventOperation has the object, or none.
InterruptOperation ==
    /\ ipc = "operation"
    /\ ipc' = IF dial_socket = None THEN "idle" ELSE "notify"
    /\ UNCHANGED <<dialerVars, network, callVars, interrupts>>

InterruptNotify ==
    /\ ipc = "notify"
    /\ ipc' = "idle"
    /\ UNCHANGED <<dialerVars, network, callVars, interrupts>>

-----------------------------------------------------------------------------
ConnectStep(t) ==
    \/ Connect(t) \/ ConnectBusy(t) \/ OpenFails(t) \/ Open(t) \/ InitObject(t)
    \/ ConnectSocket(t) \/ Perform(t) \/ Release(t) \/ FinallyReset(t) \/ FinallyStore(t)

InterruptStep == Interrupt \/ InterruptOperation \/ InterruptNotify

Next == (\E t \in Callers : ConnectStep(t) \/ Handshake(t)) \/ InterruptStep

Spec == Init /\ [][Next]_vars

-----------------------------------------------------------------------------
Attempt == {"open", "init", "connect", "perform", "release"}

\* The types of the variables.
TypeOK ==
    /\ dial_socket \in Callers \cup {None}
    /\ initialized => dial_socket # None
    /\ pc \in [Callers -> Attempt \cup {"idle", "finally", "store"}]
    /\ network \in [Callers -> {"none", "in_progress", "established", "refused"}]
    /\ ipc \in {"idle", "operation", "notify"}

\* As long as no call came while another was in progress, the attempt belongs
\* to one caller and _event_dial_socket is its socket.
AttemptIsAlone ==
    lost = 0 => \A t \in Callers : pc[t] \in Attempt =>
        /\ \A u \in Callers \ {t} : pc[u] = "idle"
        /\ is_connecting
        /\ pc[t] # "open" => dial_socket = t

\* After every connect(), failed or not, the dialer is ready for the next.
IdleIsReady ==
    (\A t \in Callers : pc[t] = "idle") => ~is_connecting /\ dial_socket = None

\* One attempt at a time, and after each the dialer is as before.
DialerInv == TypeOK /\ AttemptIsAlone /\ IdleIsReady
=============================================================================
