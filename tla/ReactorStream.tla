--------------------------- MODULE ReactorStream ---------------------------
(***************************************************************************)
(* Reading and writing a connection in fibers of a NetContext:             *)
(* ReactorSyncReadStream and ReactorSyncWriteStream on EventOperation,     *)
(* EventObject and EpollSelector (net/detail).  An operation tries the     *)
(* non-blocking system call; when the socket has nothing for it, it waits  *)
(* on the semaphore of its direction until select() notifies it, and tries *)
(* again.                                                                  *)
(*                                                                         *)
(* One thread runs the Context: fibers switch only in a wait, and select() *)
(* is called when no fiber is ready.  The peer and a thread that shuts     *)
(* down or interrupts the connection run at the same time.  The semaphores *)
(* are those of PermitCounter.                                             *)
(*                                                                         *)
(* The bytes from the peer and the bytes the application writes are        *)
(* numbered from 1.  Errors of the socket other than its end are left out. *)
(* EventOperation::_interrupted is never true: interrupt() of a stream     *)
(* sets the flag of an operation that it makes for the purpose.            *)
(***************************************************************************)
EXTENDS Integers, Sequences

CONSTANTS
    ReadCalls,      \* the reading functions in use: "some", "all"
    WriteCalls,     \* the writing functions in use
    TimedCalls,     \* the directions whose calls may have a timeout
    Length,         \* the size a call is made with
    MaxReads,       \* bound: calls of readSome() and read()
    MaxWrites,      \* bound: calls of writeSome() and write()
    StreamLength,   \* bound: bytes the peer sends
    SendBuffer,     \* bytes that the socket takes while the peer reads none
    MaxInterrupts,  \* bound: interrupt() of the connection
    MayShutdown     \* BOOLEAN: the connection may be shut down

ASSUME CallsAssumption == ReadCalls \cup WriteCalls \subseteq {"some", "all"}
ASSUME SizesAssumption == Length \in Nat \ {0} /\ StreamLength \in Nat /\ SendBuffer \in Nat \ {0}
ASSUME FlagsAssumption == TimedCalls \subseteq {"IN", "OUT"} /\ MayShutdown \in BOOLEAN
ASSUME BoundsAssumption == MaxReads \in Nat /\ MaxWrites \in Nat /\ MaxInterrupts \in Nat

\* EVENT_IN and EVENT_OUT, each with the fiber that reads or writes.
Events == {"IN", "OUT"}
Calls(e) == IF e = "IN" THEN ReadCalls ELSE WriteCalls
MaxCalls(e) == IF e = "IN" THEN MaxReads ELSE MaxWrites
Nobody == "nobody"

VARIABLES
    arrived,    \* socket: bytes that have come from the peer
    received,   \* socket: bytes that recvmsg() has returned
    peer_closed,\* socket: the peer will send no more
    wire,       \* socket: the bytes that sendmsg() has taken, in order
    drained,    \* socket: how many of them the peer has read
    no_space,   \* socket: sendmsg() has failed for want of space
    half_closed,\* socket: the directions that are shut down
    pending,    \* epoll: the socket is in the list of ready descriptors
    permits,    \* EventNotifier::_semaphores
    is_shutdown,\* _shutdown of the two streams
    spc,        \* where TcpConnection::shutdown() is
    interrupts, \* calls of interrupt()
    running,    \* the fiber that has the thread
    pc,         \* where the operation of each direction is
    call,       \* which function was called
    timed,      \* whether it has a timeout
    calls,      \* how many calls there were
    base,       \* bytes transferred before the call
    offset,     \* next_buffer, next_data: bytes transferred in the call
    left,       \* next_size
    error,      \* local `error' of perform()
    expired,    \* directions in which a wait has timed out (history)
    result,     \* the error that is returned
    buffer      \* the reader's buffer

socketVars == <<arrived, received, peer_closed, wire, drained, no_space, half_closed, pending>>
stopVars == <<is_shutdown, spc, interrupts>>
callVars == <<call, timed, calls, base, expired>>
resultVars == <<offset, left, error, result, buffer>>
vars == <<socketVars, permits, stopVars, running, pc, callVars, resultVars>>

Init ==
    /\ arrived = 0 /\ received = 0 /\ peer_closed = FALSE
    /\ wire = <<>> /\ drained = 0 /\ no_space = FALSE
    /\ half_closed = {}
    /\ pending = TRUE   \* registerObject(): a new connection is writable
    /\ permits = [e \in Events |-> 0]
    /\ is_shutdown = {} /\ spc = "open" /\ interrupts = 0
    /\ running = Nobody
    /\ pc = [e \in Events |-> "idle"]
    /\ call = [e \in Events |-> "none"]
    /\ timed = [e \in Events |-> FALSE]
    /\ calls = [e \in Events |-> 0]
    /\ base = [e \in Events |-> 0]
    /\ expired = {}
    /\ offset = [e \in Events |-> 0]
    /\ left = [e \in Events |-> 0]
    /\ error = [e \in Events |-> "0"]
    /\ result = [e \in Events |-> "0"]
    /\ buffer = [i \in 1..Length |-> 0]

-----------------------------------------------------------------------------
(* The socket, its peer, and epoll. *)

Available == arrived - received
Space == SendBuffer - (Len(wire) - drained)

Readable == Available > 0 \/ peer_closed \/ "IN" \in half_closed
Writable == Space > 0 \/ "OUT" \in half_closed

PeerSends(n) ==
    /\ ~peer_closed
    /\ arrived + n <= StreamLength
    /\ arrived' = arrived + n
    /\ pending' = TRUE
    /\ UNCHANGED <<received, peer_closed, wire, drained, no_space, half_closed,
                   permits, stopVars, running, pc, callVars, resultVars>>

PeerCloses ==
    /\ ~peer_closed
    /\ peer_closed' = TRUE
    /\ pending' = TRUE
    /\ UNCHANGED <<arrived, received, wire, drained, no_space, half_closed,
                   permits, stopVars, running, pc, callVars, resultVars>>

\* Only a writer that has found no space is told of new space.
PeerReads(n) ==
    /\ drained + n <= Len(wire)
    /\ drained' = drained + n
    /\ pending' = (pending \/ no_space)
    /\ no_space' = FALSE
    /\ UNCHANGED <<arrived, received, peer_closed, wire, half_closed,
                   permits, stopVars, running, pc, callVars, resultVars>>

Ready(e) == pc[e] = "wait" /\ permits[e] >= 0

\* select(): epoll_wait() reports the descriptor once for all that has happened,
\* and the semaphore of one direction, `told', is notified (if not Nobody).
ReportEvent(told) ==
    /\ running = Nobody
    /\ \A e \in Events : ~Ready(e)
    /\ pending
    /\ pending' = FALSE
    /\ permits' = [e \in DOMAIN permits |-> IF e = told THEN permits[e] + 1 ELSE permits[e]]
    /\ UNCHANGED <<arrived, received, peer_closed, wire, drained, no_space, half_closed,
                   stopVars, running, pc, callVars, resultVars>>

\* Faulty variants are what a slip in the code would make of the definition
\* that follows them; no action uses them.  Faulty: writers are told first.
SelectOutFirst == ReportEvent(IF Writable THEN "OUT" ELSE IF Readable THEN "IN" ELSE Nobody)

\* A socket that is readable is not reported to the writer.
Select == ReportEvent(IF Readable THEN "IN" ELSE IF Writable THEN "OUT" ELSE Nobody)

-----------------------------------------------------------------------------
(* An operation: perform(). *)

Call(e, function, has_timeout) ==
    /\ running = Nobody
    /\ pc[e] = "idle"
    /\ calls[e] < MaxCalls(e)
    /\ has_timeout => e \in TimedCalls
    /\ running' = e
    /\ pc' = [pc EXCEPT ![e] = "is_open"]
    /\ call' = [call EXCEPT ![e] = function]
    /\ timed' = [timed EXCEPT ![e] = has_timeout]
    /\ calls' = [calls EXCEPT ![e] = @ + 1]
    /\ base' = [base EXCEPT ![e] = IF e = "IN" THEN received ELSE @ + offset[e]]
    /\ offset' = [offset EXCEPT ![e] = 0]
    /\ left' = [left EXCEPT ![e] = Length]
    /\ error' = [error EXCEPT ![e] = "0"]
    /\ result' = [result EXCEPT ![e] = "0"]
    /\ buffer' = IF e = "IN" THEN [i \in 1..Length |-> 0] ELSE buffer
    /\ UNCHANGED <<socketVars, permits, stopVars, expired>>

Return(e, outcome) ==
    /\ pc' = [pc EXCEPT ![e] = "idle"]
    /\ running' = Nobody
    /\ result' = [result EXCEPT ![e] = outcome]

IsOpen(e) ==
    /\ pc[e] = "is_open"
    /\ IF e \in is_shutdown
       THEN Return(e, "CLOSED")
       ELSE pc' = [pc EXCEPT ![e] = "try"] /\ UNCHANGED <<running, result>>
    /\ UNCHANGED <<socketVars, permits, stopVars, callVars, offset, left, error, buffer>>

\* Faulty: of a partial transfer only the last part is counted.
OnTransferredLast(e, n) ==
    /\ offset' = [offset EXCEPT ![e] = n]
    /\ left' = [left EXCEPT ![e] = @ - n]
    /\ error' = [error EXCEPT ![e] = "0"]
    /\ IF call[e] = "some" \/ n >= left[e]
       THEN Return(e, IF n <= left[e] THEN "0" ELSE "assert")
       ELSE pc' = [pc EXCEPT ![e] = "is_open"] /\ UNCHANGED <<running, result>>

\* on_operated() after n bytes: readSome() and writeSome() return, read() and
\* write() go on until next_size is used up; more bytes than that fail the
\* last assertion, and what they are is not counted.
OnTransferred(e, n) ==
    /\ offset' = [offset EXCEPT ![e] = IF n <= left[e] THEN @ + n ELSE @]
    /\ left' = [left EXCEPT ![e] = IF n <= @ THEN @ - n ELSE @]
    /\ error' = [error EXCEPT ![e] = "0"]
    /\ IF call[e] = "some" \/ n >= left[e]
       THEN Return(e, IF n <= left[e] THEN "0" ELSE "assert")
       ELSE pc' = [pc EXCEPT ![e] = "is_open"] /\ UNCHANGED <<running, result>>

\* nonBlockingReceive() always gets the buffer and the size of the call: the
\* lambda of read() has copies of next_buffer and next_size.
Receive(n) ==
    /\ pc["IN"] = "try"
    /\ n <= Available
    /\ received' = received + n
    /\ buffer' = [i \in 1..Length |-> IF i <= n THEN received + i ELSE buffer[i]]
    /\ OnTransferred("IN", n)
    /\ UNCHANGED <<arrived, peer_closed, wire, drained, no_space, half_closed, pending,
                   permits, stopVars, callVars>>

\* recvmsg() returns 0 and leaves *error as it is.
ReceiveEnd ==
    /\ pc["IN"] = "try"
    /\ Available = 0
    /\ peer_closed \/ "IN" \in half_closed
    /\ Return("IN", IF call["IN"] = "all" /\ error["IN"] # "0" THEN error["IN"] ELSE "REMOTELY_CLOSED")
    /\ UNCHANGED <<socketVars, permits, stopVars, callVars, offset, left, error, buffer>>

ReceiveAgain ==
    /\ pc["IN"] = "try"
    /\ ~Readable
    /\ error' = [error EXCEPT !["IN"] = "EAGAIN"]
    /\ pc' = [pc EXCEPT !["IN"] = "suspend"]
    /\ UNCHANGED <<socketVars, permits, stopVars, running, callVars, offset, left, result, buffer>>

\* nonBlockingSend(), likewise with all of the data of the call.
Send(n) ==
    /\ pc["OUT"] = "try"
    /\ "OUT" \notin half_closed
    /\ n <= Space
    /\ wire' = wire \o [i \in 1..n |-> base["OUT"] + i]
    /\ OnTransferred("OUT", n)
    /\ UNCHANGED <<arrived, received, peer_closed, drained, no_space, half_closed, pending,
                   permits, stopVars, callVars, buffer>>

\* EPIPE
SendEnd ==
    /\ pc["OUT"] = "try"
    /\ "OUT" \in half_closed
    /\ Return("OUT", "REMOTELY_CLOSED")
    /\ UNCHANGED <<socketVars, permits, stopVars, callVars, offset, left, error, buffer>>

SendAgain ==
    /\ pc["OUT"] = "try"
    /\ ~Writable
    /\ no_space' = TRUE
    /\ error' = [error EXCEPT !["OUT"] = "EAGAIN"]
    /\ pc' = [pc EXCEPT !["OUT"] = "suspend"]
    /\ UNCHANGED <<arrived, received, peer_closed, wire, drained, half_closed, pending,
                   permits, stopVars, running, callVars, offset, left, result, buffer>>

\* wait(), waitFor(): with a permit the fiber goes on, otherwise it suspends.
Suspend(e) ==
    /\ pc[e] = "suspend"
    /\ permits' = [permits EXCEPT ![e] = @ - 1]
    /\ IF permits[e] >= 1
       THEN pc' = [pc EXCEPT ![e] = "is_open"] /\ UNCHANGED running
       ELSE pc' = [pc EXCEPT ![e] = "wait"] /\ running' = Nobody
    /\ UNCHANGED <<socketVars, stopVars, callVars, resultVars>>

Resume(e) ==
    /\ running = Nobody
    /\ Ready(e)
    /\ pc' = [pc EXCEPT ![e] = "is_open"]
    /\ running' = e
    /\ UNCHANGED <<socketVars, permits, stopVars, callVars, resultVars>>

WaitTimesOut(e) ==
    /\ running = Nobody
    /\ pc[e] = "wait" /\ ~Ready(e)
    /\ timed[e]
    /\ Return(e, "TIMEOUT")
    /\ expired' = expired \cup {e}
    /\ UNCHANGED <<socketVars, permits, stopVars, call, timed, calls, base, offset, left, error, buffer>>

-----------------------------------------------------------------------------
(* TcpConnection::shutdown() and interrupt(), from another thread. *)

\* Marks one stream as shut down, then its direction of the socket.
ShutdownStream(e) ==
    /\ spc = IF e = "IN" THEN "open" ELSE "in_closed"
    /\ MayShutdown
    /\ is_shutdown' = is_shutdown \cup {e}
    /\ spc' = IF e = "IN" THEN "in_shutdown" ELSE "out_shutdown"
    /\ UNCHANGED <<socketVars, permits, interrupts, running, pc, callVars, resultVars>>

ShutdownSocket(e) ==
    /\ spc = IF e = "IN" THEN "in_shutdown" ELSE "out_shutdown"
    /\ half_closed' = half_closed \cup {e}
    /\ pending' = TRUE
    /\ spc' = IF e = "IN" THEN "in_closed" ELSE "out_closed"
    /\ UNCHANGED <<arrived, received, peer_closed, wire, drained, no_space,
                   permits, is_shutdown, interrupts, running, pc, callVars, resultVars>>

\* Faulty: shutdown() interrupts the reader twice.
ShutdownInterruptReader(e) ==
    /\ spc = IF e = "IN" THEN "out_closed" ELSE "in_interrupted"
    /\ permits' = [permits EXCEPT !["IN"] = @ + 1]
    /\ spc' = IF e = "IN" THEN "in_interrupted" ELSE "done"
    /\ UNCHANGED <<socketVars, is_shutdown, interrupts, running, pc, callVars, resultVars>>

\* The interrupt() at the end of shutdown().
ShutdownInterrupt(e) ==
    /\ spc = IF e = "IN" THEN "out_closed" ELSE "in_interrupted"
    /\ permits' = [permits EXCEPT ![e] = @ + 1]
    /\ spc' = IF e = "IN" THEN "in_interrupted" ELSE "done"
    /\ UNCHANGED <<socketVars, is_shutdown, interrupts, running, pc, callVars, resultVars>>

\* interrupt() of one stream: EventOperation::interrupt() notifies.
Interrupt(e) ==
    /\ interrupts < MaxInterrupts
    /\ interrupts' = interrupts + 1
    /\ permits' = [permits EXCEPT ![e] = @ + 1]
    /\ UNCHANGED <<socketVars, is_shutdown, spc, running, pc, callVars, resultVars>>

-----------------------------------------------------------------------------
Transfer ==
    \/ \E n \in 1..Length : Receive(n) \/ Send(n)
    \/ ReceiveEnd \/ ReceiveAgain \/ SendEnd \/ SendAgain

OperationStep(e) == IsOpen(e) \/ Suspend(e) \/ Resume(e) \/ WaitTimesOut(e)

ThreadStep == Transfer \/ Select \/ \E e \in Events : OperationStep(e)

PeerStep ==
    \/ \E n \in 1..Length : PeerSends(n) \/ PeerReads(n)
    \/ PeerCloses

ShutdownStep ==
    \E e \in Events : ShutdownStream(e) \/ ShutdownSocket(e) \/ ShutdownInterrupt(e)

Next ==
    \/ ThreadStep
    \/ \E e \in Events : \E function \in Calls(e) : \E has_timeout \in BOOLEAN : Call(e, function, has_timeout)
    \/ PeerStep
    \/ ShutdownStep
    \/ \E e \in Events : Interrupt(e)

Spec == Init /\ [][Next]_vars

\* The operating system runs the thread of the Context.  A shutdown() that
\* was begun goes on.  The peer does what it likes, and a timeout need not
\* come before an event.
Fairness ==
    /\ WF_vars(Transfer \/ Select \/ \E e \in Events : IsOpen(e) \/ Suspend(e) \/ Resume(e))
    /\ WF_vars(spc # "open" /\ ShutdownStep)

FairSpec == Spec /\ Fairness

-----------------------------------------------------------------------------
\* The types of the variables that count or choose.
TypeOK ==
    /\ received \in 0..arrived /\ arrived \in 0..StreamLength
    /\ drained \in 0..Len(wire)
    /\ Space \in 0..SendBuffer
    /\ permits \in [Events -> Int]
    /\ running \in Events \cup {Nobody}
    /\ pc \in [Events -> {"idle", "is_open", "try", "suspend", "wait"}]
    /\ \A e \in Events : offset[e] >= 0 /\ left[e] >= 0 /\ offset[e] + left[e] <= Length
    /\ result \in [Events -> {"0", "CLOSED", "REMOTELY_CLOSED", "EAGAIN", "TIMEOUT", "assert"}]

\* A fiber that waits for data while there is some has been notified, or will
\* be by the event that epoll has pending: the check by recvmsg() and the
\* wait after it leave no gap for an edge to get lost in.  A wait that timed
\* out takes a permit with it, so this holds until the first one.
NoMissedInput ==
    pc["IN"] = "wait" /\ Readable /\ "IN" \notin expired => pending \/ permits["IN"] >= 0

\* A read() or readSome() reports as many bytes as it took from the socket.
ReadCountsItsBytes ==
    pc["IN"] = "idle" /\ result["IN"] # "assert" /\ calls["IN"] > 0 =>
        offset["IN"] = received - base["IN"]

\* A read that waits while the socket has something for it tries again.
ReadGoesOn ==
    pc["IN"] = "wait" /\ Readable /\ "IN" \notin expired ~> pc["IN"] # "wait"

\* shutdown() ends the operations of both directions, wherever they are.
ShutdownEndsOperations ==
    spc = "done" /\ expired = {} ~> \A e \in Events : pc[e] = "idle"

\* After a read() without an error the buffer holds the bytes of the stream.
ReadFillsBuffer ==
    pc["IN"] = "idle" /\ result["IN"] = "0" =>
        \A i \in 1..offset["IN"] : buffer[i] = base["IN"] + i

\* The states of a stream: no input is missed and reads count their bytes.
StreamInv == TypeOK /\ NoMissedInput /\ ReadCountsItsBytes
=============================================================================
