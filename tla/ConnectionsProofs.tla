------------------------- MODULE ConnectionsProofs -------------------------
(***************************************************************************)
(* Proofs about how connections come to be and end, of which MCConnections *)
(* puts the parts side by side, for any threads, callers, fibers and       *)
(* bounds.  Each section is about one of its parts.                        *)
(***************************************************************************)
EXTENDS MCConnections, TLAPS

\* The part that runs takes its own steps; the others keep their variables.
LEMMA PartsAreApart ==
    ASSUME [Next]_vars
    PROVE  /\ part' = part
           /\ part = "many" => [Shared!Next]_Shared!vars
           /\ part = "one" => [Owned!Next]_Owned!vars
           /\ part = "dialing" => [Dialing!Next]_Dialing!vars
           /\ part = "serving" => [Serving!Next]_Serving!vars
           /\ part = "sharing" => [Sharing!Next]_Sharing!vars
  <1>1. CASE UNCHANGED vars
    BY <1>1 DEF vars, socketGroup, dialerGroup, listenerGroup,
       Shared!vars, Shared!kernelVars, Shared!objectVars,
       Owned!vars, Owned!kernelVars, Owned!objectVars,
       Dialing!vars, Dialing!dialerVars, Dialing!callVars, Dialing!interruptVars,
       Serving!vars, Serving!socketVars, Serving!semaphoreVars, Serving!listenerVars, Serving!fiberVars,
       Sharing!vars, Sharing!socketVars, Sharing!semaphoreVars, Sharing!listenerVars, Sharing!fiberVars
  <1>2. CASE Next
    BY <1>2 DEF Next, Step
  <1> QED BY <1>1, <1>2

-----------------------------------------------------------------------------
(* Sockets *)

\* What SocketsProofs shows, for the constants of the two instances of Sockets.
SharedFacts == INSTANCE SocketsProofs
OwnedFacts == INSTANCE SocketsProofs
                WITH Threads <- {Owner}, MaxSockets <- OwnedSockets, MaxFds <- OwnedFds,
                     MayClose <- FALSE

LEMMA SharedAgrees ==
    /\ SharedFacts!Init <=> Shared!Init
    /\ [SharedFacts!Next]_SharedFacts!vars <=> [Shared!Next]_Shared!vars
    /\ SharedFacts!SocketsInv <=> Shared!SocketsInv
  BY DEF
     SharedFacts!Min, SharedFacts!Socks, SharedFacts!Fds, SharedFacts!Notifiers,
     SharedFacts!None, SharedFacts!vars, SharedFacts!kernelVars, SharedFacts!objectVars,
     SharedFacts!Init, SharedFacts!Next, SharedFacts!MakeStep, SharedFacts!EndStep,
     SharedFacts!Accept, SharedFacts!DialOpen, SharedFacts!NewSocket, SharedFacts!Goto,
     SharedFacts!Finish, SharedFacts!InitObject, SharedFacts!InitObjectFails,
     SharedFacts!DialFails, SharedFacts!DialRelease, SharedFacts!Finally,
     SharedFacts!CloseFile, SharedFacts!CloseSocket, SharedFacts!Deregister,
     SharedFacts!FreeNotifier, SharedFacts!Close, SharedFacts!Destroy,
     SharedFacts!DestroyClose, SharedFacts!DestroyDeregister, SharedFacts!DestroySocket,
     SharedFacts!Open, SharedFacts!TypeOK, SharedFacts!EpollHasLiveNotifiers,
     SharedFacts!NoDescriptorLeak, SharedFacts!SocketsInv,
     Shared!Min, Shared!Socks, Shared!Fds, Shared!Notifiers, Shared!None, Shared!vars,
     Shared!kernelVars, Shared!objectVars, Shared!Init, Shared!Next, Shared!MakeStep,
     Shared!EndStep, Shared!Accept, Shared!DialOpen, Shared!NewSocket, Shared!Goto,
     Shared!Finish, Shared!InitObject, Shared!InitObjectFails, Shared!DialFails,
     Shared!DialRelease, Shared!Finally, Shared!CloseFile, Shared!CloseSocket,
     Shared!Deregister, Shared!FreeNotifier, Shared!Close, Shared!Destroy, Shared!DestroyClose,
     Shared!DestroyDeregister, Shared!DestroySocket, Shared!Open, Shared!TypeOK,
     Shared!EpollHasLiveNotifiers, Shared!NoDescriptorLeak, Shared!SocketsInv

LEMMA OwnedAgrees ==
    /\ OwnedFacts!Init <=> Owned!Init
    /\ [OwnedFacts!Next]_OwnedFacts!vars <=> [Owned!Next]_Owned!vars
    /\ OwnedFacts!ConnectionsInv <=> Owned!ConnectionsInv
  BY DEF
     OwnedFacts!Min, OwnedFacts!Socks, OwnedFacts!Fds, OwnedFacts!Notifiers, OwnedFacts!None,
     OwnedFacts!vars, OwnedFacts!kernelVars, OwnedFacts!objectVars, OwnedFacts!Init,
     OwnedFacts!Next, OwnedFacts!MakeStep, OwnedFacts!EndStep, OwnedFacts!Accept,
     OwnedFacts!DialOpen, OwnedFacts!NewSocket, OwnedFacts!Goto, OwnedFacts!Finish,
     OwnedFacts!InitObject, OwnedFacts!InitObjectFails, OwnedFacts!DialFails,
     OwnedFacts!DialRelease, OwnedFacts!Finally, OwnedFacts!CloseFile, OwnedFacts!CloseSocket,
     OwnedFacts!Deregister, OwnedFacts!FreeNotifier, OwnedFacts!Close, OwnedFacts!Destroy,
     OwnedFacts!DestroyClose, OwnedFacts!DestroyDeregister, OwnedFacts!DestroySocket,
     OwnedFacts!Open, OwnedFacts!KeepsItsDescriptor, OwnedFacts!StaysRegistered,
     OwnedFacts!ConnectionsInv,
     Owned!Min, Owned!Socks, Owned!Fds, Owned!Notifiers, Owned!None, Owned!vars,
     Owned!kernelVars, Owned!objectVars, Owned!Init, Owned!Next, Owned!MakeStep, Owned!EndStep,
     Owned!Accept, Owned!DialOpen, Owned!NewSocket, Owned!Goto, Owned!Finish, Owned!InitObject,
     Owned!InitObjectFails, Owned!DialFails, Owned!DialRelease, Owned!Finally, Owned!CloseFile,
     Owned!CloseSocket, Owned!Deregister, Owned!FreeNotifier, Owned!Close, Owned!Destroy,
     Owned!DestroyClose, Owned!DestroyDeregister, Owned!DestroySocket, Owned!Open,
     Owned!KeepsItsDescriptor, Owned!StaysRegistered, Owned!ConnectionsInv

\* Of connections in any number of threads, which close and destroy them: the
\* pointers that select() gets from epoll are to notifiers in use, and when no
\* thread is at work only open connections have descriptors, whatever failed;
\* alone, and as a part of MCConnections.
THEOREM SocketsSafety ==
    ASSUME MaxSockets \in Nat, MaxFds \in Nat
    PROVE  (Shared!Spec => []Shared!SocketsInv) /\ (Spec => []SocketsInv)
  <1>1. Shared!Init => SharedFacts!SocketInd
    BY SharedAgrees, SharedFacts!SocketInit DEF SharedFacts!SocketSizes
  <1>2. SharedFacts!SocketInd /\ [Shared!Next]_Shared!vars => SharedFacts!SocketInd'
    BY SharedAgrees, SharedFacts!SocketStep DEF SharedFacts!SocketSizes
  <1>3. SharedFacts!SocketInd => Shared!SocketsInv
    BY SharedAgrees, SharedFacts!SocketImplies
  <1>4. Shared!Spec => []Shared!SocketsInv
    BY <1>1, <1>2, <1>3, PTL DEF Shared!Spec
  <1>5. Spec => []SocketsInv
    <2> DEFINE PartInv == part = "many" => SharedFacts!SocketInd
    <2>1. Init => PartInv
      BY <1>1 DEF Init
    <2>2. PartInv /\ [Next]_vars => PartInv'
      BY PartsAreApart, <1>2
    <2>3. PartInv => SocketsInv
      BY <1>3 DEF SocketsInv
    <2> QED BY <2>1, <2>2, <2>3, PTL DEF Spec
  <1> QED BY <1>4, <1>5

\* Of connections in one thread, which leaves close() to the destructor: no
\* close() of another connection, of which there are three in a row, takes a
\* connection its descriptor, and no deregisterObject() its registration;
\* alone, and as a part of MCConnections.
THEOREM ConnectionsSafety ==
    ASSUME OwnedSockets \in Nat, OwnedFds \in Nat
    PROVE  (Owned!Spec => []Owned!ConnectionsInv) /\ (Spec => []ConnectionsInv)
  <1> DEFINE Ind == OwnedFacts!SocketInd /\ OwnedFacts!OneThreadInd(Owner)
  <1>1. Owned!Init => Ind
    BY OwnedAgrees, OwnedFacts!SocketInit, OwnedFacts!OneThreadInit DEF OwnedFacts!SocketSizes
  <1>2. Ind /\ [Owned!Next]_Owned!vars => Ind'
    BY OwnedAgrees, OwnedFacts!SocketStep, OwnedFacts!OneThreadStep DEF OwnedFacts!SocketSizes
  <1>3. Ind => Owned!ConnectionsInv
    BY OwnedAgrees DEF OwnedFacts!OneThreadInd, OwnedFacts!ConnectionsInv
  <1>4. Owned!Spec => []Owned!ConnectionsInv
    BY <1>1, <1>2, <1>3, PTL DEF Owned!Spec
  <1>5. Spec => []ConnectionsInv
    <2> DEFINE PartInv == part = "one" => Ind
    <2>1. Init => PartInv
      BY <1>1 DEF Init
    <2>2. PartInv /\ [Next]_vars => PartInv'
      BY PartsAreApart, <1>2
    <2>3. PartInv => ConnectionsInv
      BY <1>3 DEF ConnectionsInv
    <2> QED BY <2>1, <2>2, <2>3, PTL DEF Spec
  <1> QED BY <1>4, <1>5

-----------------------------------------------------------------------------
(* Dialer *)

\* Once _event_dial_socket is there, the attempt of the caller that made it is
\* under way; _is_connecting stays set only as long as there is an attempt.
DialerInd ==
    /\ Dialing!TypeOK /\ Dialing!AttemptIsAlone
    /\ lost \in Nat /\ is_connecting \in BOOLEAN
    /\ lost = 0 => \A t, u \in Callers : pc[t] # "idle" /\ pc[u] # "idle" => t = u
    /\ lost = 0 => \A t \in Callers : pc[t] # "idle" => is_connecting
    /\ is_connecting => \E t \in Callers : pc[t] # "idle"
    /\ dial_socket # "none" =>
            pc[dial_socket] \in {"init", "connect", "perform", "release", "finally"}

LEMMA DialerIndImplies == ASSUME "none" \notin Callers PROVE DialerInd => Dialing!DialerInv
  BY DEF DialerInd, Dialing!DialerInv, Dialing!TypeOK, Dialing!IdleIsReady, Dialing!None

LEMMA DialerIndInit == Dialing!Init => DialerInd
  <1> SUFFICES ASSUME Dialing!Init PROVE DialerInd
    OBVIOUS
  <1>1. \A t \in Callers : pc[t] = "idle" /\ network[t] = "none"
    BY DEF Dialing!Init
  <1>2. Dialing!TypeOK
    BY DEF Dialing!Init, Dialing!TypeOK, Dialing!Attempt, Dialing!None
  <1> QED BY <1>1, <1>2 DEF Dialing!Init, DialerInd, Dialing!AttemptIsAlone, Dialing!Attempt, Dialing!None

LEMMA ConnectKeeps ==
    ASSUME "none" \notin Callers, DialerInd, NEW t \in Callers, Dialing!ConnectStep(t)
    PROVE  DialerInd'
  <1> USE DEF DialerInd, Dialing!TypeOK, Dialing!AttemptIsAlone, Dialing!Attempt, Dialing!None,
              Dialing!Goto, Dialing!Fail, Dialing!Begin, Dialing!HasSocket,
              Dialing!dialerVars, Dialing!interruptVars
  <1>1. CASE Dialing!Connect(t)
    BY <1>1 DEF Dialing!Connect
  <1>2. CASE Dialing!ConnectBusy(t)
    BY <1>2 DEF Dialing!ConnectBusy
  <1>3. CASE Dialing!OpenFails(t)
    BY <1>3 DEF Dialing!OpenFails
  <1>4. CASE Dialing!Open(t)
    BY <1>4 DEF Dialing!Open
  <1>5. CASE Dialing!InitObject(t)
    BY <1>5 DEF Dialing!InitObject
  <1>6. CASE Dialing!ConnectSocket(t)
    BY <1>6 DEF Dialing!ConnectSocket
  <1>7. CASE Dialing!Perform(t)
    BY <1>7 DEF Dialing!Perform
  <1>8. CASE Dialing!Release(t)
    BY <1>8 DEF Dialing!Release
  <1>9. CASE Dialing!FinallyReset(t)
    BY <1>9 DEF Dialing!FinallyReset
  <1>10. CASE Dialing!FinallyStore(t)
    BY <1>10 DEF Dialing!FinallyStore
  <1> QED BY <1>1, <1>2, <1>3, <1>4, <1>5, <1>6, <1>7, <1>8, <1>9, <1>10 DEF Dialing!ConnectStep

LEMMA DialerStep ==
    ASSUME "none" \notin Callers, DialerInd, [Dialing!Next]_Dialing!vars
    PROVE  DialerInd'
  <1> USE DEF DialerInd, Dialing!TypeOK, Dialing!AttemptIsAlone, Dialing!Attempt
  <1>1. CASE UNCHANGED Dialing!vars
    BY <1>1 DEF Dialing!vars, Dialing!dialerVars, Dialing!callVars, Dialing!interruptVars
  <1>2. ASSUME NEW t \in Callers, Dialing!Handshake(t) PROVE DialerInd'
    BY <1>2 DEF Dialing!Handshake, Dialing!dialerVars, Dialing!callVars, Dialing!interruptVars
  <1>3. CASE Dialing!InterruptStep
    BY <1>3 DEF Dialing!InterruptStep, Dialing!Interrupt, Dialing!InterruptOperation,
                Dialing!InterruptNotify, Dialing!dialerVars, Dialing!callVars
  <1> QED BY <1>1, <1>2, <1>3, ConnectKeeps DEF Dialing!Next

\* Of TcpDialer: as long as no connect() meets another, an attempt has
\* _event_dial_socket to itself, and after every connect(), failed or not, the
\* dialer is ready for the next, for any callers; alone, and as a part of
\* MCConnections.
THEOREM DialerSafety ==
    ASSUME "none" \notin Callers
    PROVE  (Dialing!Spec => []Dialing!DialerInv) /\ (Spec => []DialerInv)
  <1>1. Dialing!Spec => []Dialing!DialerInv
    BY DialerIndInit, DialerStep, DialerIndImplies, PTL DEF Dialing!Spec
  <1>2. Spec => []DialerInv
    <2> DEFINE PartInv == part = "dialing" => DialerInd
    <2>1. Init => PartInv
      BY DialerIndInit DEF Init
    <2>2. PartInv /\ [Next]_vars => PartInv'
      BY PartsAreApart, DialerStep
    <2>3. PartInv => DialerInv
      BY DialerIndImplies DEF DialerInv
    <2> QED BY <2>1, <2>2, <2>3, PTL DEF Spec
  <1> QED BY <1>1, <1>2

-----------------------------------------------------------------------------
(* Listener *)

ListenerFibers ==
    {"nobody", "closer"} \cap Acceptors = {} /\ MaxConnections \in Nat /\ RemoteClose \in BOOLEAN

\* With a close() in the thread of the acceptors, a fiber in accept() has the
\* thread, so that close() has either not begun or is over.
ListenerInd ==
    /\ Sharing!TypeOK /\ Sharing!EveryConnectionCounts
    /\ connected \in 0..MaxConnections /\ accepted \in Nat /\ failed \in Nat /\ timeouts \in Nat
    /\ is_listening \in BOOLEAN /\ has_socket \in BOOLEAN /\ has_address \in BOOLEAN
    /\ is_listening <=> (cpc = "open")
    /\ has_socket <=> (cpc \in {"open", "interrupt", "socket"})
    /\ has_address <=> (cpc # "closed")
    /\ ~RemoteClose => (running = "closer" <=> (cpc \in {"interrupt", "socket", "address"}))
    /\ ~RemoteClose => \A f \in Acceptors : pc[f] = "address" => is_listening
    /\ ~RemoteClose => \A f \in Acceptors : pc[f] = "try" => is_listening

LEMMA ListenerIndImplies ==
    ListenerInd /\ ~RemoteClose => Sharing!ListenerInv
  BY DEF ListenerInd, Sharing!ListenerInv, Sharing!AcceptHasListener

LEMMA ListenerIndInit == ASSUME ListenerFibers PROVE Sharing!Init => ListenerInd
  <1> SUFFICES ASSUME Sharing!Init PROVE ListenerInd
    OBVIOUS
  <1>1. \A f \in Acceptors : pc[f] = "idle" /\ f # "nobody"
    BY DEF Sharing!Init, ListenerFibers
  <1>2. Sharing!TypeOK /\ Sharing!EveryConnectionCounts
    BY <1>1 DEF Sharing!Init, Sharing!TypeOK, Sharing!EveryConnectionCounts, Sharing!Nobody, ListenerFibers
  <1> QED BY <1>1, <1>2 DEF Sharing!Init, ListenerInd, Sharing!Nobody, ListenerFibers

\* What an accept() does.
LEMMA AcceptKeeps ==
    ASSUME ListenerFibers, ListenerInd, NEW f \in Acceptors,
           Sharing!AcceptStep(f) \/ Sharing!TimesOut(f)
    PROVE  ListenerInd'
  <1> USE DEF ListenerFibers, ListenerInd, Sharing!TypeOK, Sharing!EveryConnectionCounts,
              Sharing!Nobody, Sharing!Goto, Sharing!Return, Sharing!Woken,
              Sharing!socketVars, Sharing!semaphoreVars, Sharing!listenerVars
  <1>1. CASE Sharing!Accept(f)
    BY <1>1 DEF Sharing!Accept
  <1>2. CASE Sharing!MakeOperation(f)
    BY <1>2 DEF Sharing!MakeOperation
  <1>3. CASE Sharing!IsOpen(f)
    BY <1>3 DEF Sharing!IsOpen
  <1>4. CASE Sharing!TryAccepts(f)
    BY <1>4 DEF Sharing!TryAccepts
  <1>5. CASE Sharing!TryFails(f)
    BY <1>5 DEF Sharing!TryFails
  <1>6. CASE Sharing!TryAgain(f)
    BY <1>6 DEF Sharing!TryAgain
  <1>7. CASE Sharing!WakeUp(f)
    BY <1>7 DEF Sharing!WakeUp
  <1>8. CASE Sharing!TimesOut(f)
    BY <1>8 DEF Sharing!TimesOut
  <1> QED BY <1>1, <1>2, <1>3, <1>4, <1>5, <1>6, <1>7, <1>8 DEF Sharing!AcceptStep

\* What the clients, epoll, interrupt() and close() do.
LEMMA OthersKeep ==
    ASSUME ListenerFibers, ListenerInd,
           \/ Sharing!ClientConnects \/ Sharing!Select \/ Sharing!Interrupt
           \/ Sharing!Close \/ Sharing!CloseStep
    PROVE  ListenerInd'
  <1> USE DEF ListenerFibers, ListenerInd, Sharing!TypeOK, Sharing!EveryConnectionCounts,
              Sharing!Nobody, Sharing!Notify, Sharing!socketVars, Sharing!semaphoreVars,
              Sharing!listenerVars, Sharing!fiberVars
  <1>1. CASE Sharing!ClientConnects
    BY <1>1 DEF Sharing!ClientConnects
  <1>2. CASE Sharing!Select
    BY <1>2 DEF Sharing!Select
  <1>3. CASE Sharing!Interrupt
    BY <1>3 DEF Sharing!Interrupt
  <1>4. CASE Sharing!Close
    BY <1>4 DEF Sharing!Close
  <1>5. CASE Sharing!CloseInterrupts
    BY <1>5 DEF Sharing!CloseInterrupts
  <1>6. CASE Sharing!CloseResetsSocket
    BY <1>6 DEF Sharing!CloseResetsSocket
  <1>7. CASE Sharing!CloseResetsAddress
    BY <1>7 DEF Sharing!CloseResetsAddress
  <1> QED BY <1>1, <1>2, <1>3, <1>4, <1>5, <1>6, <1>7 DEF Sharing!CloseStep

LEMMA ListenerStep ==
    ASSUME ListenerFibers, ListenerInd, [Sharing!Next]_Sharing!vars
    PROVE  ListenerInd'
  <1>1. CASE UNCHANGED Sharing!vars
    BY <1>1 DEF Sharing!vars, Sharing!socketVars, Sharing!semaphoreVars, Sharing!listenerVars,
                Sharing!fiberVars, ListenerInd, Sharing!TypeOK, Sharing!EveryConnectionCounts
  <1> QED BY <1>1, AcceptKeeps, OthersKeep DEF Sharing!Next

\* Of TcpListener, whoever closes it: every connection is accepted once, lost
\* with an error, or still in the backlog, for any acceptors.
THEOREM ConnectionsCount ==
    ASSUME ListenerFibers
    PROVE  Sharing!Spec => [](Sharing!TypeOK /\ Sharing!EveryConnectionCounts)
  <1>1. Sharing!Init => ListenerInd
    BY ListenerIndInit
  <1>2. ListenerInd /\ [Sharing!Next]_Sharing!vars => ListenerInd'
    BY ListenerStep
  <1>3. ListenerInd => Sharing!TypeOK /\ Sharing!EveryConnectionCounts
    BY DEF ListenerInd
  <1> QED BY <1>1, <1>2, <1>3, PTL DEF Sharing!Spec

\* Of TcpListener, closed in the thread of its acceptors: besides that, an
\* accept() does not use the socket or the address that a close() has taken
\* away; alone, and as a part of MCConnections.
THEOREM ListenerSafety ==
    ASSUME ListenerFibers, ~RemoteClose
    PROVE  (Sharing!Spec => []Sharing!ListenerInv) /\ (Spec => []ListenerInv)
  <1>1. Sharing!Spec => []Sharing!ListenerInv
    BY ListenerIndInit, ListenerStep, ListenerIndImplies, PTL DEF Sharing!Spec
  <1>2. Spec => []ListenerInv
    <2> DEFINE PartInv == part = "sharing" => ListenerInd
    <2>1. Init => PartInv
      BY ListenerIndInit DEF Init
    <2>2. PartInv /\ [Next]_vars => PartInv'
      BY PartsAreApart, ListenerStep
    <2>3. PartInv => ListenerInv
      BY ListenerIndImplies DEF ListenerInv
    <2> QED BY <2>1, <2>2, <2>3, PTL DEF Spec
  <1> QED BY <1>1, <1>2

\* A single acceptor without a timeout waits with no permit left over: what it
\* is owed is in _count, or epoll still has the edge.
OneWaiterInd(only) ==
    /\ pc[only] = "wait" => \/ count = 0 /\ atomic_count = -1
                            \/ count = 1 /\ atomic_count >= 0
    /\ pc[only] # "wait" => count = 0 /\ atomic_count >= 0
    /\ pc[only] = "wait" /\ backlog > 0 => pending \/ count > 0

LEMMA OneWaiterStep ==
    ASSUME ListenerFibers, ListenerInd, NEW only, Acceptors = {only}, MaxTimeouts = 0,
           OneWaiterInd(only), [Sharing!Next]_Sharing!vars
    PROVE  OneWaiterInd(only)'
  <1> USE DEF OneWaiterInd
  <1>1. /\ atomic_count \in Int /\ count \in Int /\ backlog \in Nat /\ timeouts \in Nat
        /\ pc \in [Acceptors -> {"idle", "address", "is_open", "try", "wait", "done"}]
        /\ only \in Acceptors
    BY DEF ListenerInd, ListenerFibers, Sharing!TypeOK
  <1>2. CASE UNCHANGED Sharing!vars
    BY <1>2 DEF Sharing!vars, Sharing!socketVars, Sharing!semaphoreVars, Sharing!fiberVars
  <1>3. CASE Sharing!AcceptStep(only)
    <2> USE DEF Sharing!Goto, Sharing!Return, Sharing!Woken, Sharing!socketVars,
                Sharing!semaphoreVars, Sharing!listenerVars
    <2>1. CASE Sharing!Accept(only)
      BY <1>1, <2>1 DEF Sharing!Accept
    <2>2. CASE Sharing!MakeOperation(only)
      BY <1>1, <2>2 DEF Sharing!MakeOperation
    <2>3. CASE Sharing!IsOpen(only)
      BY <1>1, <2>3 DEF Sharing!IsOpen
    <2>4. CASE Sharing!TryAccepts(only) \/ Sharing!TryFails(only)
      BY <1>1, <2>4 DEF Sharing!TryAccepts, Sharing!TryFails
    <2>5. CASE Sharing!TryAgain(only)
      BY <1>1, <2>5 DEF Sharing!TryAgain
    <2>6. CASE Sharing!WakeUp(only)
      BY <1>1, <2>6 DEF Sharing!WakeUp
    <2> QED BY <1>3, <2>1, <2>2, <2>3, <2>4, <2>5, <2>6 DEF Sharing!AcceptStep
  <1>4. CASE Sharing!TimesOut(only)
    BY <1>1, <1>4 DEF Sharing!TimesOut
  <1>5. CASE Sharing!ClientConnects
    BY <1>1, <1>5 DEF Sharing!ClientConnects, Sharing!semaphoreVars, Sharing!fiberVars
  <1>6. CASE Sharing!Select
    BY <1>1, <1>6 DEF Sharing!Select, Sharing!Notify, Sharing!semaphoreVars, Sharing!fiberVars,
                      Sharing!Woken
  <1>7. CASE Sharing!Interrupt
    BY <1>1, <1>7 DEF Sharing!Interrupt, Sharing!Notify, Sharing!socketVars, Sharing!fiberVars
  <1>8. CASE Sharing!Close
    BY <1>1, <1>8 DEF Sharing!Close, Sharing!socketVars, Sharing!semaphoreVars
  <1>9. CASE Sharing!CloseStep
    BY <1>1, <1>9 DEF Sharing!CloseStep, Sharing!CloseInterrupts, Sharing!CloseResetsSocket,
                      Sharing!CloseResetsAddress, Sharing!Notify, Sharing!socketVars,
                      Sharing!semaphoreVars, Sharing!fiberVars
  <1> QED BY <1>2, <1>3, <1>4, <1>5, <1>6, <1>7, <1>8, <1>9 DEF Sharing!Next

\* Of TcpListener with one acceptor and no timeout: it is not left waiting
\* beside a connection, whatever interrupts, errors and close() come between.
THEOREM OneAcceptorSafety ==
    ASSUME ListenerFibers, NEW only, Acceptors = {only}, MaxTimeouts = 0
    PROVE  Sharing!Spec => []Sharing!NoMissedConnection
  <1> DEFINE Inv == ListenerInd /\ OneWaiterInd(only)
  <1>1. Sharing!Init => Inv
    <2>1. Sharing!Init => pc[only] = "idle" /\ atomic_count = 0 /\ count = 0
      BY DEF Sharing!Init
    <2> QED BY <2>1, ListenerIndInit DEF OneWaiterInd
  <1>2. Inv /\ [Sharing!Next]_Sharing!vars => Inv'
    BY ListenerStep, OneWaiterStep
  <1>3. Inv => Sharing!NoMissedConnection
    BY DEF OneWaiterInd, Sharing!NoMissedConnection
  <1> QED BY <1>1, <1>2, <1>3, PTL DEF Sharing!Spec

-----------------------------------------------------------------------------
(* Listener: the fiber that accepts alone, beside a fiber that closes. *)

ServerFiber == Fiber \notin {"nobody", "closer"} /\ ServerConnections \in Nat

\* The states of the listener, as in ListenerInd, and the permits, as in
\* OneWaiterInd.
ServingInd ==
    /\ Serving!TypeOK /\ Serving!EveryConnectionCounts
    /\ connected \in 0..ServerConnections /\ accepted \in Nat /\ failed \in Nat /\ timeouts = 0
    /\ is_listening \in BOOLEAN /\ has_socket \in BOOLEAN /\ has_address \in BOOLEAN
    /\ is_listening <=> (cpc = "open")
    /\ has_socket <=> (cpc \in {"open", "interrupt", "socket"})
    /\ has_address <=> (cpc # "closed")
    /\ running = "closer" <=> (cpc \in {"interrupt", "socket", "address"})
    /\ pc[Fiber] \in {"address", "try"} => is_listening
    /\ pc[Fiber] = "wait" => \/ count = 0 /\ atomic_count = -1
                             \/ count = 1 /\ atomic_count >= 0
    /\ pc[Fiber] # "wait" => count = 0 /\ atomic_count >= 0
    /\ pc[Fiber] = "wait" /\ backlog > 0 => pending \/ count > 0

LEMMA ServingImplies == ServingInd => Serving!ListenerInv /\ Serving!NoMissedConnection
  BY DEF ServingInd, Serving!ListenerInv, Serving!AcceptHasListener, Serving!NoMissedConnection

LEMMA ServingInit == ASSUME ServerFiber PROVE Serving!Init => ServingInd
  BY DEF ServerFiber, Serving!Init, ServingInd, Serving!TypeOK, Serving!EveryConnectionCounts,
         Serving!Nobody

\* What the accept()s of the fiber do.
LEMMA ServerKeeps ==
    ASSUME ServerFiber, ServingInd, Serving!AcceptStep(Fiber) \/ Serving!TimesOut(Fiber)
    PROVE  ServingInd'
  <1> USE DEF ServerFiber, ServingInd, Serving!TypeOK, Serving!EveryConnectionCounts,
              Serving!Nobody, Serving!Goto, Serving!Return, Serving!Woken,
              Serving!socketVars, Serving!semaphoreVars, Serving!listenerVars
  <1>1. CASE Serving!Accept(Fiber)
    BY <1>1 DEF Serving!Accept
  <1>2. CASE Serving!MakeOperation(Fiber)
    BY <1>2 DEF Serving!MakeOperation
  <1>3. CASE Serving!IsOpen(Fiber)
    BY <1>3 DEF Serving!IsOpen
  <1>4. CASE Serving!TryAccepts(Fiber)
    BY <1>4 DEF Serving!TryAccepts
  <1>5. CASE Serving!TryAgain(Fiber)
    BY <1>5 DEF Serving!TryAgain
  <1>6. CASE Serving!WakeUp(Fiber)
    BY <1>6 DEF Serving!WakeUp
  <1>7. ~Serving!TryFails(Fiber) /\ ~Serving!TimesOut(Fiber)
    BY DEF Serving!TryFails, Serving!TimesOut
  <1> QED BY <1>1, <1>2, <1>3, <1>4, <1>5, <1>6, <1>7 DEF Serving!AcceptStep

LEMMA ServingStep ==
    ASSUME ServerFiber, ServingInd, [Serving!Next]_Serving!vars
    PROVE  ServingInd'
  <1> USE DEF ServerFiber, ServingInd, Serving!TypeOK, Serving!EveryConnectionCounts,
              Serving!Nobody, Serving!Notify, Serving!socketVars, Serving!semaphoreVars,
              Serving!listenerVars, Serving!fiberVars
  <1>1. CASE UNCHANGED Serving!vars
    BY <1>1 DEF Serving!vars
  <1>2. CASE Serving!ClientConnects
    BY <1>2 DEF Serving!ClientConnects
  <1>3. CASE Serving!Select
    BY <1>3 DEF Serving!Select, Serving!Woken
  <1>4. CASE Serving!Interrupt
    BY <1>4 DEF Serving!Interrupt
  <1>5. CASE Serving!Close
    BY <1>5 DEF Serving!Close
  <1>6. CASE Serving!CloseInterrupts
    BY <1>6 DEF Serving!CloseInterrupts
  <1>7. CASE Serving!CloseResetsSocket
    BY <1>7 DEF Serving!CloseResetsSocket
  <1>8. CASE Serving!CloseResetsAddress
    BY <1>8 DEF Serving!CloseResetsAddress
  <1> QED BY <1>1, <1>2, <1>3, <1>4, <1>5, <1>6, <1>7, <1>8, ServerKeeps
          DEF Serving!Next, Serving!CloseStep

\* Of TcpListener with one fiber that accepts again and again, and a close() in
\* its thread: besides ListenerInv, the fiber is not left waiting beside a
\* connection, for any number of connections and interrupts; alone, and as a
\* part of MCConnections.
THEOREM ServerSafety ==
    ASSUME ServerFiber
    PROVE  /\ Serving!Spec => [](Serving!ListenerInv /\ Serving!NoMissedConnection)
           /\ Spec => []NoConnectionIsMissed
  <1>1. Serving!Spec => [](Serving!ListenerInv /\ Serving!NoMissedConnection)
    BY ServingInit, ServingStep, ServingImplies, PTL DEF Serving!Spec
  <1>2. Spec => []NoConnectionIsMissed
    <2> DEFINE PartInv == part = "serving" => ServingInd
    <2>1. Init => PartInv
      BY ServingInit DEF Init
    <2>2. PartInv /\ [Next]_vars => PartInv'
      BY PartsAreApart, ServingStep
    <2>3. PartInv => NoConnectionIsMissed
      BY ServingImplies DEF NoConnectionIsMissed
    <2> QED BY <2>1, <2>2, <2>3, PTL DEF Spec
  <1> QED BY <1>1, <1>2

=============================================================================
